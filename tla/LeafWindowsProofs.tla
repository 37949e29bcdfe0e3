-------------------------- MODULE LeafWindowsProofs --------------------------
(***************************************************************************)
(* The leaves of a built index, for every array, configuration and         *)
(* sequence of calls: they cut the keys into consecutive parts, their      *)
(* lines keep within the epsilon they were built with, their windows are   *)
(* never empty, and no query and no repair of other leaves loses a key.    *)
(*                                                                         *)
(* The first part is about the builder alone: pgm_build() is right for     *)
(* every sorted array and epsilon.  Its segments cut the array into        *)
(* consecutive parts that are not empty, and the line of each passes       *)
(* within epsilon of the position of every key in it that is not equal to  *)
(* the first.  Calibration leaves parts and lines alone and gives a bias   *)
(* and a window that the size of a part bounds.                            *)
(***************************************************************************)
EXTENDS LeafWindows, Recursion

(* A leaf segment.                                                         *)
Segment ==
  [slope : Int \X Int, k0 : Int, i0 : Int, pos_lo : Int, pos_hi : Int,
   bias : Int, seg_eps : Int, seg_errs : Int]

(* The segments are consecutive parts, not empty, of positions lo to hi.   *)
Tiles(segs, lo, hi) ==
  /\ Len(segs) = 0 => lo = hi
  /\ Len(segs) # 0 => segs[1].pos_lo = lo /\ segs[Len(segs)].pos_hi = hi
  /\ \A s \in 1..Len(segs) : segs[s].pos_lo < segs[s].pos_hi
  /\ \A s \in 1..Len(segs)-1 : segs[s].pos_hi = segs[s+1].pos_lo

(* The slope m keeps within eps of the positions of all keys of a part     *)
(* that differ from its first.                                             *)
WithinCone(arr, eps, m, lo, hi) ==
  \A i \in lo..hi-1 :
    arr[i] # arr[lo] =>
      /\ AtMost(<<i - lo - eps, arr[i] - arr[lo]>>, m)
      /\ AtMost(m, <<i - lo + eps, arr[i] - arr[lo]>>)

-----------------------------------------------------------------------------
(* Fractions.                                                              *)
LEMMA AtMostTransitive ==
  ASSUME NEW a \in Int \X (Nat \ {0}), NEW b \in Int \X (Nat \ {0}),
         NEW c \in Int \X (Nat \ {0}), AtMost(a, b), AtMost(b, c)
  PROVE  AtMost(a, c)
<1> DEFINE x == a[1] * c[2]
           y == c[1] * a[2]
<1>1. (a[1] * b[2]) * c[2] <= (b[1] * a[2]) * c[2]
  BY Multiply, Products DEF AtMost
<1>2. (b[1] * c[2]) * a[2] <= (c[1] * b[2]) * a[2]
  BY Multiply, Products DEF AtMost
<1>3. (a[1] * b[2]) * c[2] = x * b[2] /\ (c[1] * b[2]) * a[2] = y * b[2]
  BY Products
<1>4. (b[1] * a[2]) * c[2] = (b[1] * c[2]) * a[2]
  BY Products
<1>5. x \in Int /\ y \in Int
  BY Products
<1>6. x * b[2] <= y * b[2]
  BY <1>1, <1>2, <1>3, <1>4, Products
<1> HIDE DEF x, y
<1>7. x <= y
  BY <1>5, <1>6, Multiply
<1> QED BY <1>7 DEF AtMost, x, y

LEMMA MidpointBetween ==
  ASSUME NEW a \in Int \X (Nat \ {0}), NEW b \in Int \X (Nat \ {0}),
         AtMost(a, b)
  PROVE  /\ Midpoint(a, b) \in Int \X (Nat \ {0})
         /\ AtMost(a, Midpoint(a, b)) /\ AtMost(Midpoint(a, b), b)
<1> DEFINE x == a[1] * b[2]
           y == b[1] * a[2]
           d == a[2] * b[2]
<1>1. x \in Int /\ y \in Int /\ d \in Nat \ {0} /\ x <= y
  BY Products DEF AtMost
<1>2. Midpoint(a, b) = <<x + y, 2 * d>>
  BY Products DEF Midpoint
<1>3. a[1] * (2 * d) = (2 * x) * a[2] /\ b[1] * (2 * d) = (2 * y) * b[2]
  BY Products
<1> HIDE DEF x, y, d
<1>4. (2 * x) * a[2] <= (x + y) * a[2]
  BY <1>1, Multiply
<1>5. (x + y) * b[2] <= (2 * y) * b[2]
  BY <1>1, Multiply
<1> QED BY <1>1, <1>2, <1>3, <1>4, <1>5 DEF AtMost

-----------------------------------------------------------------------------
(* A cone over an array of n keys.                                         *)
ConeOver(n) ==
  [start : 0..n-1, sl : Int \X Int, sh : Int \X Int, segs : Seq(Segment)]

LEMMA SizeOfArray ==
  ASSUME NEW n \in Nat, NEW arr, DOMAIN arr = 0..n-1
  PROVE  Size(arr) = n
BY FS_Interval DEF Size

LEMMA EmitType ==
  ASSUME NEW n \in Nat, NEW arr \in [0..n-1 -> Int], NEW eps \in Int,
         NEW cone \in ConeOver(n), NEW end \in Int
  PROVE  Emit(arr, eps, cone, end) \in Segment
<1>1. arr[cone.start] \in Int /\ cone.start \in Int
  BY DEF ConeOver
<1>2. Midpoint(cone.sl, cone.sh) \in Int \X Int
  BY Products DEF ConeOver, Midpoint
<1> QED BY <1>1, <1>2 DEF Emit, Segment

LEMMA EndTypes ==
  ASSUME NEW i \in Int, NEW first \in Int, NEW eps \in Int, NEW dx \in Int
  PROVE  /\ <<i - first - eps, dx>> \in Int \X Int
         /\ <<i - first + eps, dx>> \in Int \X Int
         /\ dx > 0 => /\ <<i - first - eps, dx>> \in Int \X (Nat \ {0})
                      /\ <<i - first + eps, dx>> \in Int \X (Nat \ {0})
OBVIOUS

LEMMA NarrowType ==
  ASSUME NEW n \in Nat, NEW arr \in [0..n-1 -> Int], NEW eps \in Int,
         NEW cone \in ConeOver(n), NEW i \in 0..n-1
  PROVE  Narrow(arr, eps, cone, i) \in ConeOver(n)
<1> DEFINE dx == arr[i] - arr[cone.start]
           lo == <<i - cone.start - eps, dx>>
           hi == <<i - cone.start + eps, dx>>
           sl == IF i = cone.start + 1 THEN lo ELSE Upper(cone.sl, lo)
           sh == IF i = cone.start + 1 THEN hi ELSE Lower(cone.sh, hi)
<1>1. cone.sl \in Int \X Int /\ cone.sh \in Int \X Int /\ cone.start \in 0..n-1
  BY DEF ConeOver
<1>2. lo \in Int \X Int /\ hi \in Int \X Int
  <2>1. dx \in Int /\ cone.start \in Int /\ i \in Int
    BY <1>1
  <2> HIDE DEF dx
  <2> QED BY <2>1, EndTypes
<1> HIDE DEF lo, hi
<1>3. sl \in Int \X Int /\ sh \in Int \X Int
  <2>1. Upper(cone.sl, lo) \in {cone.sl, lo} /\ Lower(cone.sh, hi) \in {cone.sh, hi}
    BY DEF Upper, Lower
  <2>2. sl \in {cone.sl, lo} /\ sh \in {cone.sh, hi}
    BY <2>1
  <2> HIDE DEF sl, sh
  <2>3. sl \in Int \X Int
    BY ONLY <1>1, <1>2, <2>2
  <2>4. sh \in Int \X Int
    BY ONLY <1>1, <1>2, <2>2
  <2> QED BY <2>3, <2>4
<1> USE DEF lo, hi
<1>4. [cone EXCEPT !.sl = sl, !.sh = sh] \in ConeOver(n)
  <2> HIDE DEF sl, sh
  <2> QED BY <1>3 DEF ConeOver
<1>5. WideOpen(i, Append(cone.segs, Emit(arr, eps, cone, i))) \in ConeOver(n)
  <2>1. Append(cone.segs, Emit(arr, eps, cone, i)) \in Seq(Segment)
    <3> DEFINE e == Emit(arr, eps, cone, i)
    <3>1. e \in Segment
      BY EmitType
    <3>2. cone.segs \in Seq(Segment)
      BY DEF ConeOver
    <3> HIDE DEF e
    <3>3. Append(cone.segs, e) \in Seq(Segment)
      BY ONLY <3>1, <3>2
    <3> QED BY <3>3 DEF e
  <2> QED BY <2>1 DEF ConeOver, WideOpen, Unbounded
<1> QED BY <1>4, <1>5 DEF Narrow

(* The cones follow their recursive definition.                            *)
LEMMA ConesExist ==
  ASSUME NEW n \in Nat \ {0}, NEW arr \in [0..n-1 -> Int], NEW eps \in Int
  PROVE  /\ Cones(arr, eps) \in [0..n-1 -> ConeOver(n)]
         /\ Cones(arr, eps)[0] = WideOpen(0, <<>>)
         /\ \A i \in 1..n-1 : Cones(arr, eps)[i] =
                                Narrow(arr, eps, Cones(arr, eps)[i-1], i)
<1> DEFINE F == [p \in ConeOver(n) \X (1..n-1) |-> Narrow(arr, eps, p[1], p[2])]
<1>1. Size(arr) = n
  BY SizeOfArray
<1>2. WideOpen(0, <<>>) \in ConeOver(n)
  BY DEF ConeOver, WideOpen, Unbounded
<1>3. F \in [ConeOver(n) \X (1..n-1) -> ConeOver(n)]
  BY NarrowType
<1>4. PICK f \in [0..n-1 -> ConeOver(n)] : Follows(f, F, WideOpen(0, <<>>), 0, n-1)
  <2>1. n - 1 \in Int /\ 0 \in Int /\ 0 <= n - 1 /\ 1..n-1 = 0+1..n-1
    OBVIOUS
  <2> HIDE DEF F
  <2> QED BY ONLY <1>2, <1>3, <2>1, Iteration
<1>5. f = [i \in 0..n-1 |->
             IF i = 0 THEN WideOpen(0, <<>>) ELSE Narrow(arr, eps, f[i-1], i)]
  <2>1. \A i \in 1..n-1 : F[<<f[i-1], i>>] = Narrow(arr, eps, f[i-1], i)
    OBVIOUS
  <2>2. f[0] = WideOpen(0, <<>>) /\ \A i \in 1..n-1 : f[i] = F[<<f[i-1], i>>]
    <3> HIDE DEF F
    <3> QED BY <1>4 DEF Follows
  <2> HIDE DEF F
  <2>3. \A i \in 0..n-1 : i = 0 \/ i \in 1..n-1
    OBVIOUS
  <2>4. \A i \in 0..n-1 :
          f[i] = IF i = 0 THEN WideOpen(0, <<>>) ELSE Narrow(arr, eps, f[i-1], i)
    BY <2>1, <2>2, <2>3
  <2> QED BY <2>4
<1>6. Cones(arr, eps) = [i \in 0..n-1 |->
        IF i = 0 THEN WideOpen(0, <<>>) ELSE Narrow(arr, eps, Cones(arr, eps)[i-1], i)]
  BY <1>1, <1>5 DEF Cones
<1> DEFINE g == Cones(arr, eps)
           T == {i \in 0..n-1 : g[i] \in ConeOver(n)}
<1>7. /\ DOMAIN g = 0..n-1 /\ g[0] = WideOpen(0, <<>>)
      /\ \A i \in 1..n-1 : g[i] = Narrow(arr, eps, g[i-1], i)
  BY <1>6
<1> HIDE DEF g
<1>8. ASSUME NEW i \in 0+1..n-1, i - 1 \in T PROVE i \in T
  <2>1. i \in 0..n-1 /\ i \in 1..n-1 /\ g[i-1] \in ConeOver(n)
    BY <1>8
  <2>2. Narrow(arr, eps, g[i-1], i) \in ConeOver(n)
    BY <2>1, NarrowType
  <2> QED BY <1>7, <2>1, <2>2
<1>9. 0 \in T /\ 0 \in Int /\ n - 1 \in Int
  BY <1>2, <1>7
<1>10. 0..n-1 \subseteq T
  <2> HIDE DEF T
  <2> QED BY ONLY <1>8, <1>9, IntervalInduction
<1> QED BY <1>6, <1>7, <1>10 DEF g

-----------------------------------------------------------------------------
Ascending(arr, n) == \A i, j \in 0..n-1 : i <= j => arr[i] <= arr[j]

Ratio == Int \X (Nat \ {0})

(* What pgm_build() promises of a segment.                                 *)
Fits(arr, eps, n, l) ==
  /\ l.slope \in Ratio
  /\ 0 <= l.pos_lo /\ l.pos_hi <= n
  /\ l.i0 = l.pos_lo /\ l.k0 = arr[l.pos_lo]
  /\ WithinCone(arr, eps, l.slope, l.pos_lo, l.pos_hi)
  /\ l.bias = 0 /\ l.seg_eps = eps /\ l.seg_errs = 0

(* What it promises of its result: consecutive segments that fit.          *)
Segments(arr, eps, n, segs) ==
  /\ segs \in Seq(Segment) /\ Len(segs) >= 1 /\ Tiles(segs, 0, n)
  /\ \A s \in 1..Len(segs) : Fits(arr, eps, n, segs[s])

(* The cone has seen no key but the segment's first, or it is bounded and  *)
(* every slope in it keeps within eps of all keys of the segment up to i.  *)
Untouched(arr, c, i) ==
  c.sl = <<0, 1>> /\ c.sh = Unbounded /\ \A j \in c.start..i : arr[j] = arr[c.start]

Narrowed(arr, eps, c, i) ==
  /\ c.sl \in Ratio /\ c.sh \in Ratio /\ AtMost(c.sl, c.sh)
  /\ \A j \in c.start..i :
       arr[j] # arr[c.start] =>
         /\ AtMost(<<j - c.start - eps, arr[j] - arr[c.start]>>, c.sl)
         /\ AtMost(c.sh, <<j - c.start + eps, arr[j] - arr[c.start]>>)

ConeOK(arr, eps, n, c, i) ==
  /\ c \in ConeOver(n) /\ c.start <= i
  /\ Untouched(arr, c, i) \/ Narrowed(arr, eps, c, i)
  /\ Tiles(c.segs, 0, c.start)
  /\ \A s \in 1..Len(c.segs) : Fits(arr, eps, n, c.segs[s])

(* One more segment.                                                       *)
LEMMA TilesAppend ==
  ASSUME NEW segs \in Seq(Segment), NEW l \in Segment, NEW lo \in Int,
         Tiles(segs, lo, l.pos_lo), l.pos_lo < l.pos_hi
  PROVE  Append(segs, l) \in Seq(Segment) /\ Tiles(Append(segs, l), lo, l.pos_hi)
<1> DEFINE new == Append(segs, l)
           n == Len(segs)
<1>1. /\ new \in Seq(Segment) /\ n \in Nat /\ Len(new) = n + 1
      /\ new[n + 1] = l /\ \A s \in 1..n : new[s] = segs[s]
  OBVIOUS
<1> HIDE DEF new
<1>2. new[1].pos_lo = lo /\ new[Len(new)].pos_hi = l.pos_hi
  BY <1>1 DEF Tiles
<1>3. \A s \in 1..Len(new) : new[s].pos_lo < new[s].pos_hi
  BY <1>1 DEF Tiles
<1>4. ASSUME NEW s \in 1..Len(new)-1 PROVE new[s].pos_hi = new[s+1].pos_lo
  <2>1. CASE s = n
    BY <1>1, <2>1 DEF Tiles
  <2>2. CASE s \in 1..n-1
    BY <1>1, <2>2 DEF Tiles
  <2> QED BY <1>1, <2>1, <2>2
<1> QED BY <1>1, <1>2, <1>3, <1>4 DEF Tiles, new

(* The segment a cone closes is a good one.                                *)
LEMMA EmitFits ==
  ASSUME NEW n \in Nat, NEW arr \in [0..n-1 -> Int], NEW eps \in Int,
         Ascending(arr, n), NEW c, NEW i \in 0..n-1, ConeOK(arr, eps, n, c, i)
  PROVE  LET l == Emit(arr, eps, c, i + 1)
         IN /\ l \in Segment /\ Fits(arr, eps, n, l)
            /\ l.pos_lo = c.start /\ l.pos_hi = i + 1
<1> DEFINE l == Emit(arr, eps, c, i + 1)
<1>1. c \in ConeOver(n) /\ c.start \in 0..n-1 /\ c.start <= i
  BY DEF ConeOK, ConeOver
<1>2. l \in Segment
  BY <1>1, EmitType
<1>3. /\ l.pos_lo = c.start /\ l.pos_hi = i + 1 /\ l.i0 = c.start
      /\ l.k0 = arr[c.start] /\ l.bias = 0 /\ l.seg_eps = eps /\ l.seg_errs = 0
      /\ l.slope = IF c.sh = Unbounded THEN <<0, 1>> ELSE Midpoint(c.sl, c.sh)
  BY DEF Emit
<1> HIDE DEF l
<1>4. l.slope \in Ratio /\ WithinCone(arr, eps, l.slope, c.start, i + 1)
  <2>1. CASE Untouched(arr, c, i)
    BY <1>1, <1>3, <2>1 DEF Untouched, WithinCone, Ratio
  <2>2. CASE Narrowed(arr, eps, c, i)
    <3>1. l.slope = Midpoint(c.sl, c.sh)
      BY <1>3, <2>2 DEF Narrowed, Ratio, Unbounded
    <3>2. l.slope \in Ratio /\ AtMost(c.sl, l.slope) /\ AtMost(l.slope, c.sh)
      BY <2>2, <3>1, MidpointBetween DEF Narrowed, Ratio
    <3>3. ASSUME NEW j \in c.start..(i + 1)-1, arr[j] # arr[c.start]
          PROVE  /\ AtMost(<<j - c.start - eps, arr[j] - arr[c.start]>>, l.slope)
                 /\ AtMost(l.slope, <<j - c.start + eps, arr[j] - arr[c.start]>>)
      <4> DEFINE dx == arr[j] - arr[c.start]
                 a == <<j - c.start - eps, dx>>
                 b == <<j - c.start + eps, dx>>
      <4>1. dx \in Nat \ {0}
        BY <1>1, <3>3 DEF Ascending
      <4>2. a \in Ratio /\ b \in Ratio
        <5>1. j \in Int /\ c.start \in Int /\ dx \in Int /\ dx > 0
          BY <1>1, <4>1
        <5> HIDE DEF dx
        <5> QED BY <5>1, EndTypes DEF Ratio
      <4>3. AtMost(a, c.sl) /\ AtMost(c.sh, b)
        BY <2>2, <3>3 DEF Narrowed
      <4>4. c.sl \in Ratio /\ c.sh \in Ratio
        BY <2>2 DEF Narrowed
      <4> HIDE DEF a, b
      <4>5. AtMost(a, l.slope)
        BY <3>2, <4>2, <4>3, <4>4, AtMostTransitive DEF Ratio
      <4>6. AtMost(l.slope, b)
        BY <3>2, <4>2, <4>3, <4>4, AtMostTransitive DEF Ratio
      <4> QED BY <4>5, <4>6 DEF a, b
    <3> QED BY <3>2, <3>3 DEF WithinCone
  <2> QED BY <2>1, <2>2 DEF ConeOK
<1> QED BY <1>1, <1>2, <1>3, <1>4 DEF Fits, l

(* The larger of two lower bounds, the smaller of two upper ones.          *)
LEMMA UpperLower ==
  ASSUME NEW a \in Ratio, NEW b \in Ratio
  PROVE  /\ Upper(a, b) \in Ratio /\ AtMost(a, Upper(a, b)) /\ AtMost(b, Upper(a, b))
         /\ Lower(a, b) \in Ratio /\ AtMost(Lower(a, b), a) /\ AtMost(Lower(a, b), b)
<1>1. a[1] * b[2] \in Int /\ b[1] * a[2] \in Int
  BY Products DEF Ratio
<1>2. AtMost(a, b) \/ AtMost(b, a)
  BY <1>1 DEF AtMost
<1>3. AtMost(a, a) /\ AtMost(b, b)
  BY Products DEF AtMost, Ratio
<1> QED BY <1>2, <1>3 DEF Upper, Lower

(* One more key.                                                           *)
LEMMA NarrowKeeps ==
  ASSUME NEW n \in Nat, NEW arr \in [0..n-1 -> Int], NEW eps \in Nat,
         Ascending(arr, n), NEW c, NEW i \in 1..n-1, ConeOK(arr, eps, n, c, i-1)
  PROVE  ConeOK(arr, eps, n, Narrow(arr, eps, c, i), i)
<1> DEFINE dx == arr[i] - arr[c.start]
           lo == <<i - c.start - eps, dx>>
           hi == <<i - c.start + eps, dx>>
           sl == IF i = c.start + 1 THEN lo ELSE Upper(c.sl, lo)
           sh == IF i = c.start + 1 THEN hi ELSE Lower(c.sh, hi)
           new == Narrow(arr, eps, c, i)
<1> SUFFICES ConeOK(arr, eps, n, new, i)
  OBVIOUS
<1>1. /\ c \in ConeOver(n) /\ c.start \in 0..n-1 /\ c.start <= i - 1
      /\ i - 1 \in 0..n-1 /\ i \in 0..n-1
  BY DEF ConeOK, ConeOver
<1>2. new \in ConeOver(n)
  <2>1. /\ n \in Nat /\ arr \in [0..n-1 -> Int] /\ eps \in Int
        /\ c \in ConeOver(n) /\ i \in 0..n-1
    BY <1>1
  <2> QED BY ONLY <2>1, NarrowType
<1>3. dx \in Nat
  <2>1. arr[i] \in Int /\ arr[c.start] \in Int /\ arr[c.start] <= arr[i]
    BY <1>1 DEF Ascending
  <2> QED BY ONLY <2>1
<1>4. CASE dx = 0
  <2>1. new = c
    BY <1>4 DEF Narrow
  <2>2. \A j \in c.start..i : j \in c.start..i-1 \/ arr[j] = arr[c.start]
    BY <1>1, <1>4
  <2>3. Untouched(arr, c, i) \/ Narrowed(arr, eps, c, i)
    <3>1. CASE Untouched(arr, c, i-1)
      BY <2>2, <3>1 DEF Untouched
    <3>2. CASE Narrowed(arr, eps, c, i-1)
      BY <2>2, <3>2 DEF Narrowed
    <3> QED BY <3>1, <3>2 DEF ConeOK
  <2> QED BY <1>1, <2>1, <2>3 DEF ConeOK
<1>5. CASE dx # 0 /\ AtMost(sl, sh)
  <2>1. new = [c EXCEPT !.sl = sl, !.sh = sh]
    BY <1>5 DEF Narrow
  <2>2. new.start = c.start /\ new.sl = sl /\ new.sh = sh /\ new.segs = c.segs
    BY <1>1, <2>1 DEF ConeOver
  <2>3. lo \in Ratio /\ hi \in Ratio
    <3>1. dx # 0
      BY <1>5
    <3>2. i - c.start - eps \in Int /\ i - c.start + eps \in Int
      BY <1>1
    <3> HIDE DEF dx
    <3> QED BY <1>3, <3>1, <3>2 DEF Ratio
  <2>4. sl \in Ratio /\ AtMost(lo, sl) /\ sh \in Ratio /\ AtMost(sh, hi)
    <3> HIDE DEF lo, hi
    <3>1. CASE i = c.start + 1
      <4>1. lo \in Ratio /\ AtMost(lo, lo) /\ hi \in Ratio /\ AtMost(hi, hi)
        BY <2>3, Products DEF AtMost, Ratio
      <4> QED BY <3>1, <4>1
    <3>2. CASE i # c.start + 1 /\ Narrowed(arr, eps, c, i-1)
      BY <2>3, <3>2, UpperLower DEF Narrowed
    <3>3. CASE i # c.start + 1 /\ Untouched(arr, c, i-1)
      <4>1. <<0, 1>> \in Ratio
        BY DEF Ratio
      <4>2. Upper(c.sl, lo) \in Ratio /\ AtMost(lo, Upper(c.sl, lo))
        BY <2>3, <3>3, <4>1, UpperLower DEF Untouched
      <4>3. Lower(c.sh, hi) = hi
        BY <2>3, <3>3, Products DEF Untouched, Lower, AtMost, Unbounded, Ratio
      <4>4. AtMost(hi, hi)
        BY <2>3, Products DEF AtMost, Ratio
      <4> QED BY <2>3, <3>3, <4>2, <4>3, <4>4
    <3> QED BY <3>1, <3>2, <3>3 DEF ConeOK
  <2>5. ASSUME NEW j \in c.start..i, arr[j] # arr[c.start]
        PROVE  /\ AtMost(<<j - c.start - eps, arr[j] - arr[c.start]>>, sl)
               /\ AtMost(sh, <<j - c.start + eps, arr[j] - arr[c.start]>>)
    <3>1. CASE j = i
      BY <2>4, <3>1
    <3>2. CASE j # i
      <4> DEFINE a == <<j - c.start - eps, arr[j] - arr[c.start]>>
                 b == <<j - c.start + eps, arr[j] - arr[c.start]>>
      <4>1. j \in c.start..i-1 /\ i # c.start + 1
        BY <1>1, <2>5, <3>2
      <4>2. Narrowed(arr, eps, c, i-1)
        BY <2>5, <4>1 DEF ConeOK, Untouched
      <4>3. arr[j] - arr[c.start] \in Nat \ {0}
        BY <1>1, <2>5 DEF Ascending
      <4>4. a \in Ratio /\ b \in Ratio
        <5> DEFINE gap == arr[j] - arr[c.start]
        <5>1. /\ j \in Int /\ c.start \in Int /\ eps \in Int
              /\ gap \in Int /\ gap > 0
          BY <1>1, <4>3
        <5>2. /\ a = <<j - c.start - eps, gap>>
              /\ b = <<j - c.start + eps, gap>>
          OBVIOUS
        <5> HIDE DEF gap, a, b
        <5>3. /\ <<j - c.start - eps, gap>> \in Int \X (Nat \ {0})
              /\ <<j - c.start + eps, gap>> \in Int \X (Nat \ {0})
          BY ONLY <5>1, EndTypes
        <5> QED BY ONLY <5>2, <5>3 DEF Ratio
      <4>5. AtMost(a, c.sl) /\ AtMost(c.sh, b) /\ c.sl \in Ratio /\ c.sh \in Ratio
        BY <2>5, <4>1, <4>2 DEF Narrowed
      <4> HIDE DEF lo, hi, a, b
      <4>6. AtMost(c.sl, sl) /\ AtMost(sh, c.sh)
        BY <2>3, <4>1, <4>5, UpperLower
      <4> HIDE DEF sl, sh
      <4>7. AtMost(a, sl)
        BY <2>4, <4>4, <4>5, <4>6, AtMostTransitive DEF Ratio
      <4>8. AtMost(sh, b)
        BY <2>4, <4>4, <4>5, <4>6, AtMostTransitive DEF Ratio
      <4> QED BY <4>7, <4>8 DEF a, b
    <3> QED BY <3>1, <3>2
  <2> HIDE DEF sl, sh, new
  <2>6. Narrowed(arr, eps, new, i)
    BY <1>5, <2>2, <2>4, <2>5 DEF Narrowed
  <2> QED BY <1>1, <1>2, <2>2, <2>6 DEF ConeOK
<1>6. CASE dx # 0 /\ ~AtMost(sl, sh)
  <2> DEFINE l == Emit(arr, eps, c, i)
             segs == Append(c.segs, l)
  <2>1. new = WideOpen(i, segs)
    BY <1>6 DEF Narrow
  <2>2. l \in Segment /\ Fits(arr, eps, n, l) /\ l.pos_lo = c.start /\ l.pos_hi = i
    <3>1. (i - 1) + 1 = i
      OBVIOUS
    <3> QED BY <1>1, <3>1, EmitFits
  <2> HIDE DEF l
  <2>3. c.segs \in Seq(Segment) /\ Tiles(c.segs, 0, c.start)
    BY <1>1 DEF ConeOK, ConeOver
  <2>4. segs \in Seq(Segment) /\ Tiles(segs, 0, i)
    BY <1>1, <2>2, <2>3, TilesAppend
  <2>5. \A s \in 1..Len(segs) : Fits(arr, eps, n, segs[s])
    <3>1. /\ Len(segs) = Len(c.segs) + 1 /\ segs[Len(segs)] = l
          /\ \A s \in 1..Len(c.segs) : segs[s] = c.segs[s]
      BY <2>2, <2>3
    <3>2. \A s \in 1..Len(segs) : s = Len(segs) \/ s \in 1..Len(c.segs)
      BY <2>3, <3>1
    <3> HIDE DEF segs
    <3> QED BY <2>2, <3>1, <3>2 DEF ConeOK
  <2> HIDE DEF segs, new
  <2>6. Untouched(arr, new, i) /\ new.start = i /\ new.segs = segs
    BY <2>1 DEF WideOpen, Untouched
  <2> QED BY <1>2, <2>4, <2>5, <2>6 DEF ConeOK
<1> QED BY <1>4, <1>5, <1>6

(* pgm_build() cuts every sorted array that is not empty into consecutive  *)
(* segments whose lines fit.                                               *)
THEOREM PgmBuildFits ==
  ASSUME NEW n \in Nat \ {0}, NEW arr \in [0..n-1 -> Int], NEW eps \in Nat,
         Ascending(arr, n)
  PROVE  Segments(arr, eps, n, pgm_build(arr, eps))
<1> DEFINE g == Cones(arr, eps)
           T == {i \in 0..n-1 : ConeOK(arr, eps, n, g[i], i)}
<1>1. /\ g \in [0..n-1 -> ConeOver(n)] /\ g[0] = WideOpen(0, <<>>)
      /\ \A i \in 1..n-1 : g[i] = Narrow(arr, eps, g[i-1], i)
  BY ConesExist
<1> HIDE DEF g
<1>2. 0 \in T
  <2>1. Untouched(arr, g[0], 0) /\ g[0].segs = <<>> /\ g[0].start = 0
    BY <1>1 DEF WideOpen, Untouched
  <2>2. Tiles(<<>>, 0, 0)
    BY DEF Tiles
  <2>3. g[0] \in ConeOver(n) /\ \A s \in 1..Len(<<>>) : Fits(arr, eps, n, <<>>[s])
    BY <1>1
  <2> QED BY <2>1, <2>2, <2>3 DEF ConeOK
<1>3. ASSUME NEW i \in 0+1..n-1, i - 1 \in T PROVE i \in T
  <2>1. i \in 1..n-1 /\ i \in 0..n-1 /\ ConeOK(arr, eps, n, g[i-1], i-1)
    BY <1>3
  <2>2. ConeOK(arr, eps, n, Narrow(arr, eps, g[i-1], i), i)
    BY <2>1, NarrowKeeps
  <2> QED BY <1>1, <2>1, <2>2
<1>4. 0 \in Int /\ n - 1 \in Int /\ n - 1 \in 0..n-1
  OBVIOUS
<1>5. 0..n-1 \subseteq T
  <2> HIDE DEF T
  <2> QED BY ONLY <1>2, <1>3, <1>4, IntervalInduction
<1> DEFINE c == g[n-1]
           l == Emit(arr, eps, c, n)
           segs == Append(c.segs, l)
<1>6. ConeOK(arr, eps, n, c, n-1) /\ c.segs \in Seq(Segment)
  BY <1>4, <1>5 DEF ConeOK, ConeOver
<1>7. pgm_build(arr, eps) = segs
  BY SizeOfArray DEF pgm_build, g
<1> HIDE DEF c
<1>8. l \in Segment /\ Fits(arr, eps, n, l) /\ l.pos_lo = c.start /\ l.pos_hi = n
  <2> DEFINE m == n - 1
  <2>1. m \in 0..n-1 /\ m + 1 = n /\ n \in Nat /\ eps \in Int
    OBVIOUS
  <2>2. ConeOK(arr, eps, n, c, m)
    BY <1>6
  <2> DEFINE e == Emit(arr, eps, c, m + 1)
  <2> HIDE DEF m
  <2>3. /\ e \in Segment /\ Fits(arr, eps, n, e)
        /\ e.pos_lo = c.start /\ e.pos_hi = m + 1
    BY <2>1, <2>2, EmitFits
  <2> QED BY <2>1, <2>3
<1> HIDE DEF l
<1>9. segs \in Seq(Segment) /\ Tiles(segs, 0, n)
  <2>1. c.start < n /\ Tiles(c.segs, 0, c.start)
    BY <1>6 DEF ConeOK, ConeOver
  <2> QED BY <1>6, <1>8, <2>1, TilesAppend
<1>10. \A s \in 1..Len(segs) : Fits(arr, eps, n, segs[s])
  <2>1. /\ Len(segs) = Len(c.segs) + 1 /\ segs[Len(segs)] = l
        /\ \A s \in 1..Len(c.segs) : segs[s] = c.segs[s]
    BY <1>6, <1>8
  <2>2. \A s \in 1..Len(segs) : s = Len(segs) \/ s \in 1..Len(c.segs)
    BY <1>6, <2>1
  <2> HIDE DEF segs
  <2> QED BY <1>6, <1>8, <2>1, <2>2 DEF ConeOK
<1>11. Len(segs) >= 1
  BY <1>6, <1>8
<1> QED BY <1>7, <1>9, <1>10, <1>11 DEF Segments

-----------------------------------------------------------------------------
(* Division that truncates.                                                *)
LEMMA TruncateBetween ==
  ASSUME NEW x \in Int, NEW d \in Nat \ {0}, NEW a \in Int, NEW b \in Int,
         a * d <= x, x <= b * d
  PROVE  Truncate(x, d) \in Int /\ a <= Truncate(x, d) /\ Truncate(x, d) <= b
<1>1. CASE x >= 0
  BY <1>1, Division, DivisionBetween DEF Truncate
<1>2. CASE ~(x >= 0)
  <2>1. (-b) * d = -(b * d) /\ (-a) * d = -(a * d) /\ a * d \in Int /\ b * d \in Int
    BY Products
  <2>2. (-b) * d <= -x /\ -x <= (-a) * d
    BY <2>1
  <2>3. -b <= (-x) \div d /\ (-x) \div d <= -a /\ (-x) \div d \in Int
    BY <2>2, Division, DivisionBetween
  <2>4. Truncate(x, d) = -((-x) \div d)
    BY <1>2 DEF Truncate
  <2> QED BY <2>3, <2>4
<1> QED BY <1>1, <1>2

LEMMA TruncateAbove ==
  ASSUME NEW x \in Int, NEW d \in Nat \ {0}, NEW a \in Int, a < 0, a * d < x
  PROVE  Truncate(x, d) > a
<1>1. CASE x >= 0
  <2>1. x \div d \in Int /\ 0 <= x \div d
    <3>1. 0 * d <= x /\ x \in Int /\ 0 \in Int
      BY <1>1
    <3>2. x <= x * d
      BY <1>1
    <3> QED BY <3>1, <3>2, DivisionBetween, Division
  <2> QED BY <1>1, <2>1 DEF Truncate
<1>2. CASE x < 0
  <2> DEFINE y == -x
             q == y \div d
             m == -a
  <2>1. y \in Int /\ m \in Int /\ y < m * d
    <3>1. m * d = -(a * d) /\ a * d \in Int
      BY Products
    <3> QED BY <3>1
  <2> HIDE DEF m, y
  <2>2. q \in Int /\ q * d <= y
    BY <2>1, Division
  <2> HIDE DEF q
  <2>3. q * d < m * d
    BY <2>1, <2>2, Products
  <2>4. q < m
    BY <2>1, <2>2, <2>3, Multiply
  <2>5. Truncate(x, d) = -q
    BY <1>2 DEF Truncate, q, y
  <2> QED BY <2>2, <2>4, <2>5 DEF m
<1> QED BY <1>1, <1>2

LEMMA LineType ==
  ASSUME NEW l \in Segment, l.slope \in Ratio, NEW k \in Int, NEW down \in BOOLEAN
  PROVE  Line(l, k, down) \in Int
<1> DEFINE num == l.slope[1] * (k - l.k0) + l.i0 * l.slope[2]
           den == l.slope[2]
<1>1. num \in Int /\ den \in Nat \ {0}
  BY Products DEF Segment, Ratio
<1> HIDE DEF num, den
<1>2. num \div den \in Int /\ (-num) \div den \in Int
  BY <1>1, Division
<1>3. Truncate(num, den) \in Int
  BY <1>2 DEF Truncate
<1> QED BY <1>2, <1>3 DEF Line, num, den

(* A line whose slope keeps within eps of a key passes within eps of it,   *)
(* or within eps and one if doubles fall short.                            *)
LEMMA LineNear ==
  ASSUME NEW l \in Segment, l.slope \in Ratio, NEW k \in Int, NEW down \in BOOLEAN,
         NEW eps \in Nat, NEW j \in Int, k - l.k0 > 0,
         AtMost(<<j - eps, k - l.k0>>, l.slope),
         AtMost(l.slope, <<j + eps, k - l.k0>>)
  PROVE  /\ Line(l, k, down) <= l.i0 + j + eps
         /\ Line(l, k, down) >= l.i0 + j - eps - (IF down THEN 1 ELSE 0)
<1> DEFINE x == l.slope[1] * (k - l.k0)
           num == x + l.i0 * l.slope[2]
           den == l.slope[2]
           a == l.i0 + (j - eps)
           b == l.i0 + (j + eps)
<1>1. /\ den \in Nat \ {0} /\ l.slope[1] \in Int /\ l.i0 \in Int /\ l.k0 \in Int
      /\ a \in Int /\ b \in Int /\ k - l.k0 \in Int
  BY DEF Segment, Ratio
<1>2. (j - eps) * den <= x /\ x <= (j + eps) * den
  BY DEF AtMost
<1>3. /\ x \in Int /\ l.i0 * den \in Int
      /\ (j - eps) * den \in Int /\ (j + eps) * den \in Int
  BY <1>1, Products
<1>4. a * den = l.i0 * den + (j - eps) * den /\ b * den = l.i0 * den + (j + eps) * den
  BY <1>1, Products
<1>5. num \in Int /\ a * den <= num /\ num <= b * den
  BY <1>2, <1>3, <1>4
<1>6. Line(l, k, down) = IF down /\ num > 0 /\ num % den = 0
                            THEN num \div den - 1 ELSE Truncate(num, den)
  BY DEF Line
<1> HIDE DEF num, den, a, b
<1>7. a <= Truncate(num, den) /\ Truncate(num, den) <= b /\ Truncate(num, den) \in Int
  BY <1>1, <1>5, TruncateBetween
<1>8. a <= num \div den /\ num \div den <= b /\ num \div den \in Int
  BY <1>1, <1>5, DivisionBetween, Division
<1>9. /\ Line(l, k, down) <= b
      /\ Line(l, k, down) >= a - (IF down THEN 1 ELSE 0)
  BY <1>1, <1>6, <1>7, <1>8
<1> QED BY <1>1, <1>9 DEF a, b

-----------------------------------------------------------------------------
(* A segment that calibration can be made over.                            *)
Calibratable(l, arr, n) ==
  /\ l \in Segment /\ l.slope \in Ratio
  /\ 0 <= l.pos_lo /\ l.pos_lo < l.pos_hi /\ l.pos_hi <= n

(* A prediction stays in the segment, so errors are smaller than it.       *)
LEMMA ErrorBounded ==
  ASSUME NEW n \in Nat, NEW arr \in [0..n-1 -> Int], NEW down \in BOOLEAN,
         NEW l, Calibratable(l, arr, n), NEW i \in l.pos_lo..l.pos_hi-1
  PROVE  /\ Error(l, arr, i, down) \in Int
         /\ -(l.pos_hi - l.pos_lo - 1) <= Error(l, arr, i, down)
         /\ Error(l, arr, i, down) <= l.pos_hi - l.pos_lo - 1
<1>1. l.pos_lo \in Int /\ l.pos_hi \in Int /\ arr[i] \in Int
  BY DEF Calibratable, Segment
<1>2. Line(l, arr[i], down) \in Int
  BY <1>1, LineType DEF Calibratable
<1>3. 0 <= l.pos_lo /\ l.pos_lo < l.pos_hi
  BY DEF Calibratable
<1> DEFINE p == Line(l, arr[i], down)
<1>4. Error(l, arr, i, down) = Clamp(p, l.pos_lo, l.pos_hi - 1) - i
  BY DEF Error, Predict
<1> HIDE DEF p
<1> DEFINE lo == l.pos_lo
           hi == l.pos_hi
<1>5. lo \in Int /\ hi \in Int /\ p \in Int /\ i \in lo..hi-1 /\ lo < hi
  BY <1>1, <1>2, <1>3 DEF p
<1>6. Error(l, arr, i, down) = Clamp(p, lo, hi - 1) - i
  BY <1>4
<1> HIDE DEF lo, hi
<1>7. Clamp(p, lo, hi - 1) \in lo..hi-1
  BY ONLY <1>5 DEF Clamp
<1>8. /\ Clamp(p, lo, hi - 1) - i \in Int
      /\ -(hi - lo - 1) <= Clamp(p, lo, hi - 1) - i
      /\ Clamp(p, lo, hi - 1) - i <= hi - lo - 1
  BY ONLY <1>5, <1>7
<1> QED BY <1>6, <1>8 DEF lo, hi

LEMMA MaxAbsErrorBounded ==
  ASSUME NEW n \in Nat, NEW arr \in [0..n-1 -> Int], NEW down \in BOOLEAN,
         NEW l, Calibratable(l, arr, n)
  PROVE  /\ MaxAbsError(l, arr, down) \in 0..l.pos_hi-l.pos_lo-1
         /\ \A i \in l.pos_lo..l.pos_hi-1 :
              /\ Error(l, arr, i, down) <= MaxAbsError(l, arr, down)
              /\ -Error(l, arr, i, down) <= MaxAbsError(l, arr, down)
<1> DEFINE E(i) == Error(l, arr, i, down)
           errors == {E(i) : i \in l.pos_lo..l.pos_hi-1}
           all == errors \cup {-e : e \in errors}
           w == l.pos_hi - l.pos_lo - 1
<1>1. w \in Nat /\ l.pos_lo \in l.pos_lo..l.pos_hi-1
  BY DEF Calibratable, Segment
<1>2. \A i \in l.pos_lo..l.pos_hi-1 : E(i) \in Int /\ -w <= E(i) /\ E(i) <= w
  BY ErrorBounded
<1> HIDE DEF E, w
<1>3. all \subseteq -w..w
  BY <1>1, <1>2
<1>4. \A i \in l.pos_lo..l.pos_hi-1 : E(i) \in all /\ -E(i) \in all
  OBVIOUS
<1> HIDE DEF all
<1>5. all # {} /\ \A y \in all : y \in Int /\ y <= w
  BY <1>1, <1>3, <1>4
<1>6. Max(all) \in all /\ \A y \in all : y <= Max(all)
  <2> DEFINE v == -w
  <2>1. v \in Int /\ w \in Int /\ all \subseteq v..w
    BY <1>1, <1>3
  <2> HIDE DEF v
  <2> QED BY ONLY <1>5, <2>1, MaxOfInterval
<1>7. \A i \in l.pos_lo..l.pos_hi-1 : E(i) <= Max(all) /\ -E(i) <= Max(all)
  BY <1>4, <1>6
<1>8. Max(all) \in 0..w
  <2>1. Max(all) \in Int /\ Max(all) <= w
    BY <1>5, <1>6
  <2>2. E(l.pos_lo) \in Int /\ E(l.pos_lo) <= Max(all) /\ -E(l.pos_lo) <= Max(all)
    BY <1>1, <1>2, <1>7
  <2> QED BY <1>1, <2>1, <2>2
<1> QED BY <1>7, <1>8 DEF MaxAbsError, all, E, w

LEMMA MeanErrorBounded ==
  ASSUME NEW n \in Nat, NEW arr \in [0..n-1 -> Int], NEW down \in BOOLEAN,
         NEW l, Calibratable(l, arr, n), NEW a \in Int, NEW b \in Int,
         \A i \in l.pos_lo..l.pos_hi-1 :
           a <= Error(l, arr, i, down) /\ Error(l, arr, i, down) <= b
  PROVE  /\ MeanError(l, arr, down) \in a..b
         /\ a < 0 /\ (\E i \in l.pos_lo..l.pos_hi-1 : Error(l, arr, i, down) > a)
              => MeanError(l, arr, down) > a
<1> DEFINE E(i) == Error(l, arr, i, down)
           S == l.pos_lo..l.pos_hi-1
           w == l.pos_hi - l.pos_lo - 1
           f == [i \in S |-> E(i)]
           Equation(g) == g = [s \in SUBSET S |->
             IF s = {} THEN 0 ELSE E(Taken(s)) + g[s \ {Taken(s)}]]
           sum == CHOOSE g : Equation(g)
<1>1. MapThenSumSet(LAMBDA i : Error(l, arr, i, down), S) = sum[S]
  BY DEF MapThenSumSet, MapThenFoldSet, Taken
<1>2. /\ w \in Nat /\ l.pos_lo \in Int /\ l.pos_hi \in Int /\ l.pos_hi - 1 \in Int
      /\ l.pos_lo < l.pos_hi /\ l.pos_hi - l.pos_lo = w + 1
  <2>1. /\ l \in Segment /\ l.pos_lo < l.pos_hi
    BY DEF Calibratable
  <2>2. l.pos_lo \in Int /\ l.pos_hi \in Int
    BY <2>1 DEF Segment
  <2> QED BY ONLY <2>1, <2>2
<1>3. \A i \in S : E(i) \in Int /\ a <= E(i) /\ E(i) <= b
  BY ErrorBounded
<1>4. IsFiniteSet(S) /\ Cardinality(S) = w + 1
  <2> DEFINE first == l.pos_lo
             last == l.pos_hi - 1
  <2>1. /\ first \in Int /\ last \in Int /\ first <= last
        /\ last - first + 1 = w + 1 /\ S = first..last
    BY <1>2
  <2> HIDE DEF first, last, S, w
  <2>2. /\ IsFiniteSet(first..last)
        /\ Cardinality(first..last) = IF first > last THEN 0 ELSE last - first + 1
    BY ONLY <2>1, FS_Interval
  <2> QED BY <2>1, <2>2
<1> HIDE DEF E, S, w
<1>5. f \in [S -> Int] /\ \A i \in S : f[i] = E(i)
  BY <1>3
<1> HIDE DEF f
<1>6. PICK g \in [SUBSET S -> Int] : IsSum(g, f, S)
  BY <1>4, <1>5, SumExists
<1>7. \A s \in SUBSET S : s # {} => Taken(s) \in S
  BY TakenIsMember
<1>8. Equation(g)
  <2>1. \A s \in SUBSET S :
          g[s] = IF s = {} THEN 0 ELSE E(Taken(s)) + g[s \ {Taken(s)}]
    BY <1>5, <1>6, <1>7 DEF IsSum
  <2> QED BY <2>1
<1>9. Equation(sum)
  <2> HIDE DEF Equation
  <2> QED BY <1>8
<1> HIDE DEF sum
<1>10. IsSum(sum, f, S)
  BY <1>5, <1>7, <1>9 DEF IsSum
<1> DEFINE x == sum[S]
           d == w + 1
<1> HIDE DEF x, d
<1>11. /\ x \in Int /\ a * d <= x /\ x <= b * d
       /\ (\E i \in S : E(i) > a) => x > a * d
  <2>1. \A i \in S : a <= f[i] /\ f[i] <= b
    BY <1>3, <1>5
  <2> HIDE DEF IsSum
  <2>2. /\ sum[S] \in Int /\ a * (w + 1) <= sum[S] /\ sum[S] <= b * (w + 1)
        /\ (\E i \in S : f[i] > a) => sum[S] > a * (w + 1)
    BY <1>4, <1>5, <1>10, <2>1, SumBounded
  <2> QED BY <1>5, <2>2 DEF x, d
<1>12. d \in Nat \ {0}
  BY <1>2 DEF d
<1>13. Truncate(x, d) \in a..b
  BY <1>11, <1>12, TruncateBetween
<1>14. ASSUME a < 0, x > a * d PROVE Truncate(x, d) > a
  BY <1>11, <1>12, <1>14, TruncateAbove
<1>15. MeanError(l, arr, down) = Truncate(x, d)
  BY <1>1, <1>2 DEF MeanError, S, x, d
<1> QED BY <1>11, <1>13, <1>14, <1>15 DEF E, S

(* BTSC leaves part and line of a segment alone; its bias is smaller than  *)
(* the segment and its window not larger.                                  *)
LEMMA CalibrateFacts ==
  ASSUME NEW n \in Nat, NEW arr \in [0..n-1 -> Int], NEW down \in BOOLEAN,
         NEW l, Calibratable(l, arr, n)
  PROVE  LET c == Calibrate(l, arr, down)
         IN /\ c \in Segment
            /\ c.slope = l.slope /\ c.k0 = l.k0 /\ c.i0 = l.i0
            /\ c.pos_lo = l.pos_lo /\ c.pos_hi = l.pos_hi
            /\ c.seg_errs = l.seg_errs
            /\ c.bias \in -(l.pos_hi - l.pos_lo - 1)..(l.pos_hi - l.pos_lo - 1)
            /\ c.seg_eps \in 1..l.pos_hi-l.pos_lo
<1> DEFINE m == MeanError(l, arr, down)
           x == MaxAbsError(l, arr, down)
<1>1. m \in -(l.pos_hi - l.pos_lo - 1)..(l.pos_hi - l.pos_lo - 1)
  <2> DEFINE w == l.pos_hi - l.pos_lo - 1
             v == -w
  <2>1. /\ w \in Int /\ v \in Int
        /\ \A i \in l.pos_lo..l.pos_hi-1 :
             v <= Error(l, arr, i, down) /\ Error(l, arr, i, down) <= w
    <3>1. l.pos_lo \in Int /\ l.pos_hi \in Int
      BY DEF Calibratable, Segment
    <3> QED BY <3>1, ErrorBounded
  <2> HIDE DEF v, w
  <2>2. m \in v..w
    BY <2>1, MeanErrorBounded
  <2> QED BY <2>2 DEF v, w
<1>2. x \in 0..l.pos_hi-l.pos_lo-1
  BY MaxAbsErrorBounded
<1>3. l.pos_hi \in Int /\ l.pos_lo \in Int /\ l \in Segment
  BY DEF Calibratable, Segment
<1> HIDE DEF m, x
<1>4. -m \in -(l.pos_hi - l.pos_lo - 1)..(l.pos_hi - l.pos_lo - 1)
  BY <1>1, <1>3
<1>5. x + 1 \in 1..l.pos_hi-l.pos_lo
  BY <1>2, <1>3
<1>6. Calibrate(l, arr, down) = [l EXCEPT !.bias = -m, !.seg_eps = x + 1]
  BY DEF Calibrate, m, x
<1>7. -m \in Int /\ x + 1 \in Int
  BY <1>3, <1>4, <1>5
<1> QED BY <1>3, <1>4, <1>5, <1>6, <1>7 DEF Segment

-----------------------------------------------------------------------------
LEMMA SegmentTypes ==
  ASSUME NEW l \in Segment
  PROVE  /\ l.k0 \in Int /\ l.i0 \in Int /\ l.pos_lo \in Int /\ l.pos_hi \in Int
         /\ l.bias \in Int /\ l.seg_eps \in Int /\ l.seg_errs \in Int
         /\ l.slope \in Int \X Int
BY DEF Segment

(* The parts of a tiling lie in order between its ends.                    *)
LEMMA TilesOrdered ==
  ASSUME NEW segs \in Seq(Segment), NEW lo \in Int, NEW hi \in Int,
         Tiles(segs, lo, hi), NEW s \in 1..Len(segs)
  PROVE  /\ lo <= segs[s].pos_lo /\ segs[s].pos_hi <= hi
         /\ \A t \in s+1..Len(segs) : segs[s].pos_hi <= segs[t].pos_lo
<1> DEFINE n == Len(segs)
           Up == {t \in 1..n : lo <= segs[t].pos_lo}
           Down(u) == {t \in u+1..n : segs[u].pos_hi <= segs[t].pos_lo}
<1>1. /\ n \in Nat /\ n >= 1
      /\ \A t \in 1..n : segs[t].pos_lo \in Int /\ segs[t].pos_hi \in Int
  <2>1. n \in Nat /\ n >= 1 /\ \A t \in 1..n : segs[t] \in Segment
    OBVIOUS
  <2> QED BY <2>1, SegmentTypes
<1>2. /\ segs[1].pos_lo = lo /\ segs[n].pos_hi = hi
      /\ \A t \in 1..n : segs[t].pos_lo < segs[t].pos_hi
      /\ \A t \in 1..n-1 : segs[t].pos_hi = segs[t+1].pos_lo
  BY <1>1 DEF Tiles
<1> HIDE DEF n
<1>3. 1..n \subseteq Up
  <2>1. 1 \in Up /\ 1 \in Int /\ n \in Int
    BY <1>1, <1>2
  <2>2. ASSUME NEW t \in 1+1..n, t - 1 \in Up PROVE t \in Up
    <3>1. t - 1 \in 1..n-1 /\ (t - 1) + 1 = t
      BY <1>1
    <3>2. segs[t-1].pos_hi = segs[t].pos_lo /\ segs[t-1].pos_lo < segs[t-1].pos_hi
      BY <1>1, <1>2, <3>1
    <3> QED BY <1>1, <2>2, <3>2
  <2> HIDE DEF Up
  <2> QED BY ONLY <2>1, <2>2, IntervalInduction
<1>4. ASSUME NEW u \in 1..n-1 PROVE u+1..n \subseteq Down(u)
  <2> DEFINE first == u + 1
             D == Down(u)
  <2>1. first \in D /\ first \in Int /\ n \in Int
    <3>1. u + 1 \in u+1..n /\ u + 1 \in Int /\ n \in Int
      BY <1>1
    <3>2. segs[u].pos_hi = segs[u+1].pos_lo /\ segs[u].pos_hi <= segs[u].pos_hi
      BY <1>1, <1>2
    <3> QED BY <3>1, <3>2
  <2>2. ASSUME NEW t \in first+1..n, t - 1 \in D PROVE t \in D
    <3>1. t - 1 \in 1..n-1 /\ (t - 1) + 1 = t /\ t \in u+1..n
      BY <1>1
    <3>2. segs[t-1].pos_hi = segs[t].pos_lo /\ segs[t-1].pos_lo < segs[t-1].pos_hi
      BY <1>1, <1>2, <3>1
    <3>3. segs[u].pos_hi <= segs[t-1].pos_lo /\ segs[u].pos_hi \in Int
      BY <1>1, <2>2
    <3>4. segs[t-1].pos_lo \in Int /\ segs[t-1].pos_hi \in Int
      BY <1>1, <3>1
    <3> QED BY <3>1, <3>2, <3>3, <3>4
  <2> HIDE DEF first, D
  <2>3. first..n \subseteq D
    BY ONLY <2>1, <2>2, IntervalInduction
  <2> QED BY <2>3 DEF first, D
<1>5. \A t \in s+1..n : segs[s].pos_hi <= segs[t].pos_lo
  <2>1. CASE s = n
    BY <1>1, <2>1
  <2>2. CASE s # n
    <3>1. s \in 1..n-1
      BY <1>1, <2>2 DEF n
    <3> QED BY <1>4, <3>1
  <2> QED BY <2>1, <2>2
<1>6. segs[s].pos_hi <= hi
  <2>1. CASE s = n
    BY <1>1, <1>2, <2>1
  <2>2. CASE s # n
    <3>1. n \in s+1..n /\ s \in 1..n
      BY <1>1, <2>2 DEF n
    <3>2. segs[s].pos_hi <= segs[n].pos_lo /\ segs[n].pos_lo < hi
      BY <1>1, <1>2, <1>5, <3>1
    <3> QED BY <1>1, <1>2, <3>1, <3>2
  <2> QED BY <2>1, <2>2
<1> QED BY <1>3, <1>5, <1>6 DEF n

(* Every position between its ends is in one of them.                      *)
LEMMA TilesCover ==
  ASSUME NEW segs \in Seq(Segment), NEW lo \in Int, NEW hi \in Int,
         Tiles(segs, lo, hi), NEW p \in lo..hi-1
  PROVE  \E s \in 1..Len(segs) : p \in segs[s].pos_lo..segs[s].pos_hi-1
<1> DEFINE n == Len(segs)
           T == {t \in 1..n : segs[t].pos_lo <= p}
<1>1. /\ n \in Nat
      /\ \A t \in 1..n : segs[t].pos_lo \in Int /\ segs[t].pos_hi \in Int
  <2>1. n \in Nat /\ \A t \in 1..n : segs[t] \in Segment
    OBVIOUS
  <2> QED BY <2>1, SegmentTypes
<1>2. n >= 1 /\ 1 \in T /\ T \subseteq 1..n
  BY <1>1 DEF Tiles
<1>3. Max(T) \in T /\ \A t \in T : t <= Max(T)
  <2>1. 1 \in Int /\ n \in Int /\ T # {}
    BY <1>1, <1>2
  <2> HIDE DEF T, n
  <2> QED BY <1>2, <2>1, MaxOfInterval
<1> DEFINE s == Max(T)
<1>4. s \in 1..n /\ segs[s].pos_lo <= p /\ \A t \in 1..n : segs[t].pos_lo <= p => t <= s
  BY <1>3
<1> HIDE DEF s, T
<1>5. p < segs[s].pos_hi
  <2>1. CASE s = n
    BY <1>1, <1>2, <2>1 DEF Tiles
  <2>2. CASE s # n
    <3>1. s \in 1..n-1 /\ s + 1 \in 1..n /\ ~(s + 1 <= s)
      BY <1>1, <1>4, <2>2
    <3>2. segs[s].pos_hi = segs[s+1].pos_lo
      BY <3>1 DEF Tiles
    <3>3. ~(segs[s+1].pos_lo <= p)
      BY <1>4, <3>1
    <3> QED BY <1>1, <3>1, <3>2, <3>3
  <2> QED BY <2>1, <2>2
<1> QED BY <1>1, <1>4, <1>5

(* One tiling after another.                                               *)
LEMMA TilesConcat ==
  ASSUME NEW a \in Seq(Segment), NEW b \in Seq(Segment), NEW lo \in Int,
         NEW m \in Int, NEW hi \in Int, Tiles(a, lo, m), Tiles(b, m, hi)
  PROVE  a \o b \in Seq(Segment) /\ Tiles(a \o b, lo, hi)
<1> DEFINE c == a \o b
           p == Len(a)
           q == Len(b)
<1>1. /\ p \in Nat /\ q \in Nat /\ c \in Seq(Segment) /\ Len(c) = p + q
      /\ \A s \in 1..p : c[s] = a[s]
      /\ \A s \in p+1..p+q : c[s] = b[s-p]
  OBVIOUS
<1> HIDE DEF c
<1>2. Len(c) = 0 => lo = hi
  BY <1>1 DEF Tiles
<1>3. Len(c) # 0 => c[1].pos_lo = lo /\ c[Len(c)].pos_hi = hi
  <2>1. CASE p = 0 /\ q # 0
    BY <1>1, <2>1 DEF Tiles
  <2>2. CASE p # 0 /\ q = 0
    BY <1>1, <2>2 DEF Tiles
  <2>3. CASE p # 0 /\ q # 0
    <3>1. 1 \in 1..p /\ p + q \in p+1..p+q /\ (p + q) - p = q
      BY <1>1, <2>3
    <3>2. c[1] = a[1] /\ c[p+q] = b[q]
      BY <1>1, <3>1
    <3> QED BY <1>1, <2>3, <3>2 DEF Tiles
  <2> QED BY <1>1, <2>1, <2>2, <2>3
<1>4. ASSUME NEW s \in 1..Len(c) PROVE c[s].pos_lo < c[s].pos_hi
  <2>1. CASE s \in 1..p
    BY <1>1, <2>1 DEF Tiles
  <2>2. CASE s \in p+1..p+q
    <3>1. s - p \in 1..q /\ c[s] = b[s-p]
      BY <1>1, <2>2
    <3> QED BY <3>1 DEF Tiles
  <2> QED BY <1>1, <2>1, <2>2
<1>5. ASSUME NEW s \in 1..Len(c)-1 PROVE c[s].pos_hi = c[s+1].pos_lo
  <2>1. CASE s \in 1..p-1
    <3>1. c[s] = a[s] /\ c[s+1] = a[s+1]
      BY <1>1, <2>1
    <3> QED BY <2>1, <3>1 DEF Tiles
  <2>2. CASE s = p
    <3>1. p # 0 /\ q # 0 /\ s + 1 \in p+1..p+q /\ (s + 1) - p = 1 /\ s \in 1..p
      BY <1>1, <2>2
    <3>2. c[s] = a[p] /\ c[s+1] = b[1]
      BY <1>1, <2>2, <3>1
    <3> QED BY <3>1, <3>2 DEF Tiles
  <2>3. CASE s \in p+1..p+q-1
    <3>1. s - p \in 1..q-1 /\ c[s] = b[s-p] /\ c[s+1] = b[(s+1)-p] /\ (s+1)-p = (s-p)+1
      BY <1>1, <2>3
    <3> QED BY <3>1 DEF Tiles
  <2> QED BY <1>1, <2>1, <2>2, <2>3
<1> QED BY <1>1, <1>2, <1>3, <1>4, <1>5 DEF Tiles, c

(* Pieces that tile consecutive parts tile the whole when flattened.       *)
LEMMA FlattenTiles ==
  ASSUME NEW pieces \in Seq(Seq(Segment)), Len(pieces) >= 1,
         NEW cut \in [0..Len(pieces) -> Int],
         \A i \in 1..Len(pieces) : Tiles(pieces[i], cut[i-1], cut[i])
  PROVE  /\ FlattenSeq(pieces) \in Seq(Segment)
         /\ Tiles(FlattenSeq(pieces), cut[0], cut[Len(pieces)])
<1> DEFINE n == Len(pieces)
<1>1. PICK flat \in [1..n -> Seq(Segment)] :
        /\ FlattenSeq(pieces) = flat[n] /\ flat[1] = pieces[1]
        /\ \A i \in 2..n : flat[i] = flat[i-1] \o pieces[i]
  BY Flattening
<1>2. /\ n \in Nat /\ n >= 1 /\ n \in Int /\ 1 \in Int /\ n \in 1..n
      /\ \A i \in 1..n : pieces[i] \in Seq(Segment)
  OBVIOUS
<1>0. \A i \in 0..n : cut[i] \in Int
  OBVIOUS
<1> HIDE DEF n
<1> DEFINE T == {i \in 1..n : Tiles(flat[i], cut[0], cut[i])}
<1>3. 1 \in T
  BY <1>1, <1>2 DEF n
<1>4. ASSUME NEW i \in 1+1..n, i - 1 \in T PROVE i \in T
  <2>0. i \in 2..n /\ i \in 1..n /\ i - 1 \in 1..n /\ i - 1 \in 0..n /\ i \in 0..n /\ 0 \in 0..n
    BY <1>2
  <2>1. /\ flat[i-1] \in Seq(Segment) /\ pieces[i] \in Seq(Segment)
        /\ cut[0] \in Int /\ cut[i-1] \in Int /\ cut[i] \in Int
    BY <1>0, <1>2, <2>0
  <2>2. Tiles(flat[i-1], cut[0], cut[i-1]) /\ Tiles(pieces[i], cut[i-1], cut[i])
    BY <1>4, <2>0 DEF n
  <2>3. Tiles(flat[i-1] \o pieces[i], cut[0], cut[i])
    BY <2>1, <2>2, TilesConcat
  <2> QED BY <1>1, <2>0, <2>3
<1>5. 1..n \subseteq T
  <2> HIDE DEF T
  <2> QED BY ONLY <1>2, <1>3, <1>4, IntervalInduction
<1>6. flat[n] \in Seq(Segment) /\ Tiles(flat[n], cut[0], cut[n])
  BY <1>2, <1>5
<1> QED BY <1>1, <1>6 DEF n

(* What is in the pieces, and nothing else, is in the flattened sequence.  *)
LEMMA FlattenMembers ==
  ASSUME NEW A, NEW pieces \in Seq(Seq(A)), Len(pieces) >= 1
  PROVE  /\ FlattenSeq(pieces) \in Seq(A)
         /\ \A i \in 1..Len(pieces) : \A s \in 1..Len(pieces[i]) :
              \E t \in 1..Len(FlattenSeq(pieces)) : FlattenSeq(pieces)[t] = pieces[i][s]
         /\ \A t \in 1..Len(FlattenSeq(pieces)) :
              \E i \in 1..Len(pieces) : \E s \in 1..Len(pieces[i]) :
                FlattenSeq(pieces)[t] = pieces[i][s]
<1> DEFINE n == Len(pieces)
<1>1. PICK flat \in [1..n -> Seq(A)] :
        /\ FlattenSeq(pieces) = flat[n] /\ flat[1] = pieces[1]
        /\ \A i \in 2..n : flat[i] = flat[i-1] \o pieces[i]
  BY Flattening
<1>2. /\ n \in Nat /\ n >= 1 /\ n \in Int /\ 1 \in Int /\ n \in 1..n
      /\ \A i \in 1..n : pieces[i] \in Seq(A)
  OBVIOUS
<1> DEFINE Has(f, x) == \E t \in 1..Len(f) : f[t] = x
           T == {m \in 1..n :
                   /\ \A i \in 1..m : \A s \in 1..Len(pieces[i]) : Has(flat[m], pieces[i][s])
                   /\ \A t \in 1..Len(flat[m]) : \E i \in 1..m : Has(pieces[i], flat[m][t])}
<1> HIDE DEF n
<1>3. 1 \in T
  BY <1>1, <1>2
<1>4. ASSUME NEW m \in 1+1..n, m - 1 \in T PROVE m \in T
  <2> DEFINE a == flat[m-1]
             b == pieces[m]
             c == flat[m]
  <2>0. m - 1 \in 1..n /\ m \in 1..n /\ m \in 2..n
    BY <1>2
  <2>1. m - 1 \in 1..n /\ m \in 1..n /\ a \in Seq(A) /\ b \in Seq(A) /\ c = a \o b
    BY <1>1, <1>2, <2>0
  <2>2. /\ Len(a) \in Nat /\ Len(b) \in Nat /\ Len(c) = Len(a) + Len(b)
        /\ \A s \in 1..Len(a) : c[s] = a[s]
        /\ \A s \in Len(a)+1..Len(a)+Len(b) : c[s] = b[s - Len(a)]
    <3> HIDE DEF a, b, c
    <3> QED BY <2>1
  <2>3. /\ \A i \in 1..m-1 : \A s \in 1..Len(pieces[i]) : Has(a, pieces[i][s])
        /\ \A t \in 1..Len(a) : \E i \in 1..m-1 : Has(pieces[i], a[t])
    BY <1>4
  <2> HIDE DEF a, c
  <2>4. ASSUME NEW x, Has(a, x) PROVE Has(c, x)
    BY <2>2, <2>4
  <2>5. ASSUME NEW s \in 1..Len(b) PROVE Has(c, b[s])
    <3>1. Len(a) + s \in Len(a)+1..Len(a)+Len(b) /\ (Len(a) + s) - Len(a) = s
      BY <2>2
    <3>2. c[Len(a) + s] = b[s] /\ Len(a) + s \in 1..Len(c)
      BY <2>2, <3>1
    <3> QED BY <3>2
  <2>6. ASSUME NEW i \in 1..m, NEW s \in 1..Len(pieces[i]) PROVE Has(c, pieces[i][s])
    <3>1. CASE i = m
      BY <2>5, <3>1
    <3>2. CASE i \in 1..m-1
      <4> HIDE DEF Has
      <4> QED BY <2>3, <2>4, <3>2
    <3> QED BY <2>1, <3>1, <3>2
  <2>7. ASSUME NEW t \in 1..Len(c) PROVE \E i \in 1..m : Has(pieces[i], c[t])
    <3>1. CASE t \in 1..Len(a)
      <4>1. c[t] = a[t] /\ \E i \in 1..m-1 : Has(pieces[i], a[t])
        BY <2>2, <2>3, <3>1
      <4>2. \A i \in 1..m-1 : i \in 1..m
        BY <2>1
      <4> HIDE DEF Has
      <4> QED BY <4>1, <4>2
    <3>2. CASE t \in Len(a)+1..Len(a)+Len(b)
      <4>1. t - Len(a) \in 1..Len(b) /\ c[t] = b[t - Len(a)] /\ m \in 1..m
        BY <2>1, <2>2, <3>2
      <4> QED BY <4>1
    <3> QED BY <2>2, <3>1, <3>2
  <2> HIDE DEF Has
  <2> QED BY <2>1, <2>6, <2>7 DEF c
<1>5. 1..n \subseteq T
  <2> HIDE DEF T
  <2> QED BY ONLY <1>2, <1>3, <1>4, IntervalInduction
<1>6. n \in T
  <2> HIDE DEF T
  <2> QED BY <1>2, <1>5
<1>7. /\ \A i \in 1..n : \A s \in 1..Len(pieces[i]) : Has(flat[n], pieces[i][s])
      /\ \A t \in 1..Len(flat[n]) : \E i \in 1..n : Has(pieces[i], flat[n][t])
  <2> HIDE DEF Has
  <2> QED BY <1>6
<1>8. /\ \A i \in 1..n : \A s \in 1..Len(pieces[i]) :
             \E t \in 1..Len(flat[n]) : flat[n][t] = pieces[i][s]
      /\ \A t \in 1..Len(flat[n]) :
             \E i \in 1..n : \E s \in 1..Len(pieces[i]) : flat[n][t] = pieces[i][s]
  BY <1>7
<1>9. flat[n] \in Seq(A) /\ FlattenSeq(pieces) = flat[n]
  BY <1>1, <1>2
<1> QED BY <1>8, <1>9 DEF n

-----------------------------------------------------------------------------
(* AFR's search for an epsilon ends between one and where it starts.       *)
LEMMA ChooseEpsBounded ==
  ASSUME NEW arr, NEW from \in Nat \ {0}
  PROVE  ChooseEps(arr, from) \in 1..from
<1> DEFINE Stop(e) == e <= 2 \/ Len(pgm_build(arr, e)) >= TargetSegs(arr)
           next(e) == Max({2, e \div 2})
           Body(f, e) == IF Stop(e) THEN e ELSE f[next(e)]
           Equation(f) == f = [e \in 1..from |-> Body(f, e)]
           try == CHOOSE f : Equation(f)
<1>1. ChooseEps(arr, from) = try[from]
  BY DEF ChooseEps
<1>2. ASSUME NEW e \in 1..from, ~Stop(e) PROVE next(e) \in 1..e-1
  <2>1. e > 2 /\ e \in Int
    BY <1>2
  <2>2. e \div 2 \in Int /\ e \div 2 < e
    BY <2>1
  <2>3. next(e) = IF 2 >= e \div 2 THEN 2 ELSE e \div 2
    BY <2>2, MaxOfTwo
  <2> QED BY <2>1, <2>2, <2>3
<1> HIDE DEF Stop, next
<1> DEFINE Upto(f, m) == \A e \in 1..m : f[e] = Body(f, e)
           T == {m \in 1..from : \E f \in [1..m -> 1..from] : Upto(f, m)}
<1>3. 1 \in T
  <2> DEFINE f == [e \in 1..1 |-> 1]
  <2>1. f \in [1..1 -> 1..from] /\ f[1] = 1
    OBVIOUS
  <2>2. Stop(1)
    BY DEF Stop
  <2> HIDE DEF f
  <2>3. Upto(f, 1)
    BY <2>1, <2>2
  <2> HIDE DEF Upto
  <2> QED BY <2>1, <2>3
<1>4. ASSUME NEW m \in 1+1..from, m - 1 \in T PROVE m \in T
  <2>1. PICK f \in [1..m-1 -> 1..from] : Upto(f, m-1)
    BY <1>4
  <2> DEFINE g == [e \in 1..m |-> IF e = m THEN Body(f, m) ELSE f[e]]
  <2>2. Body(f, m) \in 1..from
    BY <1>2
  <2>3. g \in [1..m -> 1..from] /\ g[m] = Body(f, m) /\ \A e \in 1..m-1 : g[e] = f[e]
    <3> HIDE DEF Body
    <3> QED BY <2>2
  <2> HIDE DEF g
  <2>4. ASSUME NEW e \in 1..m PROVE g[e] = Body(g, e)
    <3>1. ~Stop(e) => next(e) \in 1..m-1
      BY <1>2
    <3>2. Body(g, e) = Body(f, e)
      BY <2>3, <3>1
    <3>3. CASE e = m
      BY <2>3, <3>2, <3>3
    <3>4. CASE e \in 1..m-1
      BY <2>1, <2>3, <3>2, <3>4
    <3> QED BY <3>3, <3>4
  <2>5. Upto(g, m)
    BY <2>4
  <2> HIDE DEF Upto
  <2> QED BY <2>3, <2>5
<1>5. 1..from \subseteq T
  <2>1. 1 \in Int /\ from \in Int
    OBVIOUS
  <2> HIDE DEF T
  <2> QED BY ONLY <1>3, <1>4, <2>1, IntervalInduction
<1>6. PICK f \in [1..from -> 1..from] : Upto(f, from)
  <2>1. from \in 1..from
    OBVIOUS
  <2>2. from \in T
    <3> HIDE DEF T
    <3> QED BY <1>5, <2>1
  <2> HIDE DEF Upto
  <2> QED BY <2>2
<1>7. Equation(f)
  <2> HIDE DEF Body
  <2> QED BY <1>6
<1>8. Equation(try)
  <2> HIDE DEF Equation
  <2> QED BY <1>7
<1> HIDE DEF try
<1>9. \A e \in 1..from : try[e] = Body(try, e)
  <2> HIDE DEF Body
  <2> QED BY <1>8
<1> DEFINE U == {m \in Nat : m \in 1..from => try[m] \in 1..from}
<1>10. ASSUME NEW m \in Nat, \A x \in 0..m-1 : x \in U PROVE m \in U
  <2>1. SUFFICES ASSUME m \in 1..from PROVE try[m] \in 1..from
    OBVIOUS
  <2>2. CASE Stop(m)
    BY <1>9, <2>1, <2>2
  <2>3. CASE ~Stop(m)
    <3>1. next(m) \in 1..m-1
      BY <1>2, <2>1, <2>3
    <3>2. next(m) \in 0..m-1 /\ next(m) \in 1..from
      <4>1. m \in Nat /\ from \in Nat /\ 1 <= m /\ m <= from
        BY <2>1
      <4> DEFINE x == next(m)
      <4>2. x \in 1..m-1
        BY <3>1
      <4> HIDE DEF x
      <4>3. x \in 0..m-1 /\ x \in 1..from
        BY ONLY <4>1, <4>2
      <4> QED BY <4>3 DEF x
    <3>3. try[next(m)] \in 1..from
      BY <1>10, <3>2
    <3> QED BY <1>9, <2>1, <2>3, <3>3
  <2> QED BY <2>2, <2>3
<1>11. \A m \in Nat : m \in U
  <2> HIDE DEF U
  <2> QED BY ONLY <1>10, StrongInduction
<1> QED BY <1>1, <1>11

-----------------------------------------------------------------------------
(* Segments in the places of others, moved by o.                           *)
LEMMA TilesMoved ==
  ASSUME NEW a \in Seq(Segment), NEW b \in Seq(Segment), NEW lo \in Int,
         NEW hi \in Int, NEW o \in Int, Tiles(a, lo, hi), Len(b) = Len(a),
         \A s \in 1..Len(a) : /\ b[s].pos_lo = a[s].pos_lo + o
                              /\ b[s].pos_hi = a[s].pos_hi + o
  PROVE  Tiles(b, lo + o, hi + o)
<1> DEFINE n == Len(a)
<1>1. /\ n \in Nat
      /\ \A s \in 1..n : a[s].pos_lo \in Int /\ a[s].pos_hi \in Int
  <2>1. n \in Nat /\ \A s \in 1..n : a[s] \in Segment
    OBVIOUS
  <2> QED BY <2>1, SegmentTypes
<1>2. /\ n = 0 => lo = hi
      /\ n # 0 => a[1].pos_lo = lo /\ a[n].pos_hi = hi
      /\ \A s \in 1..n : a[s].pos_lo < a[s].pos_hi
      /\ \A s \in 1..n-1 : a[s].pos_hi = a[s+1].pos_lo
  BY DEF Tiles
<1>3. \A s \in 1..n : b[s].pos_lo = a[s].pos_lo + o /\ b[s].pos_hi = a[s].pos_hi + o
  OBVIOUS
<1> HIDE DEF n
<1>4. n # 0 => b[1].pos_lo = lo + o /\ b[n].pos_hi = hi + o
  BY <1>1, <1>2, <1>3
<1>5. ASSUME NEW s \in 1..n PROVE b[s].pos_lo < b[s].pos_hi
  <2>1. b[s].pos_lo = a[s].pos_lo + o /\ b[s].pos_hi = a[s].pos_hi + o
    BY ONLY <1>3, s \in 1..n
  <2>2. a[s].pos_lo < a[s].pos_hi /\ a[s].pos_lo \in Int /\ a[s].pos_hi \in Int
    BY ONLY <1>1, <1>2, s \in 1..n
  <2> QED BY <2>1, <2>2
<1>6. \A s \in 1..n-1 : b[s].pos_hi = b[s+1].pos_lo
  <2>1. \A s \in 1..n-1 : s \in 1..n /\ s + 1 \in 1..n
    BY <1>1
  <2> QED BY <1>1, <1>2, <1>3, <2>1
<1>7. Len(b) = n /\ (n = 0 => lo + o = hi + o)
  BY <1>2 DEF n
<1> QED BY <1>4, <1>5, <1>6, <1>7 DEF Tiles

(* A built segment can be calibrated.                                      *)
LEMMA FitsCalibratable ==
  ASSUME NEW n \in Nat, NEW arr, NEW eps, NEW segs \in Seq(Segment),
         Tiles(segs, 0, n), NEW s \in 1..Len(segs), Fits(arr, eps, n, segs[s])
  PROVE  Calibratable(segs[s], arr, n)
BY DEF Fits, Calibratable, Tiles

(* Segments after BTSC: their parts and lines are those before it.         *)
Calibrated(c, segs, n) ==
  /\ c \in Seq(Segment) /\ Len(c) = Len(segs) /\ Tiles(c, 0, n)
  /\ \A s \in 1..Len(segs) :
       /\ c[s].slope = segs[s].slope /\ c[s].k0 = segs[s].k0
       /\ c[s].i0 = segs[s].i0
       /\ c[s].pos_lo = segs[s].pos_lo /\ c[s].pos_hi = segs[s].pos_hi
       /\ c[s].seg_errs = segs[s].seg_errs
       /\ c[s].bias \in -n..n /\ c[s].seg_eps \in 1..n

LEMMA CalibrateAllFacts ==
  ASSUME NEW n \in Nat, NEW arr \in [0..n-1 -> Int], NEW down \in BOOLEAN,
         NEW eps, NEW segs, Segments(arr, eps, n, segs)
  PROVE  Calibrated(CalibrateAll(segs, arr, down), segs, n)
<1> DEFINE c == CalibrateAll(segs, arr, down)
           m == Len(segs)
<1>0. /\ segs \in Seq(Segment) /\ Tiles(segs, 0, n)
      /\ \A s \in 1..Len(segs) : Fits(arr, eps, n, segs[s])
  BY DEF Segments
<1>1. m \in Nat /\ DOMAIN segs = 1..m
  BY <1>0
<1>2. c = [s \in 1..m |-> Calibrate(segs[s], arr, down)]
  BY <1>1 DEF CalibrateAll
<1> HIDE DEF c, m
<1>3. ASSUME NEW s \in 1..m
      PROVE  /\ c[s] \in Segment
             /\ c[s].slope = segs[s].slope /\ c[s].k0 = segs[s].k0
             /\ c[s].i0 = segs[s].i0
             /\ c[s].pos_lo = segs[s].pos_lo /\ c[s].pos_hi = segs[s].pos_hi
             /\ c[s].seg_errs = segs[s].seg_errs
             /\ c[s].bias \in -n..n /\ c[s].seg_eps \in 1..n
  <2> DEFINE l == segs[s]
  <2>1. l \in Segment /\ Calibratable(l, arr, n)
    <3>1. s \in 1..Len(segs) /\ l \in Segment /\ Fits(arr, eps, n, segs[s])
      BY <1>0 DEF m
    <3> QED BY <1>0, <3>1, FitsCalibratable
  <2>2. c[s] = Calibrate(l, arr, down)
    BY <1>2
  <2> HIDE DEF l
  <2>3. /\ l.pos_lo \in Int /\ l.pos_hi \in Int
        /\ 0 <= l.pos_lo /\ l.pos_lo < l.pos_hi /\ l.pos_hi <= n
    BY <2>1, SegmentTypes DEF Calibratable
  <2>4. /\ c[s] \in Segment
        /\ c[s].slope = l.slope /\ c[s].k0 = l.k0 /\ c[s].i0 = l.i0
        /\ c[s].pos_lo = l.pos_lo /\ c[s].pos_hi = l.pos_hi
        /\ c[s].seg_errs = l.seg_errs
        /\ c[s].bias \in -(l.pos_hi - l.pos_lo - 1)..(l.pos_hi - l.pos_lo - 1)
        /\ c[s].seg_eps \in 1..l.pos_hi-l.pos_lo
    BY <2>1, <2>2, CalibrateFacts
  <2>5. c[s].bias \in -n..n /\ c[s].seg_eps \in 1..n
    <3> DEFINE b == c[s].bias
               e == c[s].seg_eps
               w == l.pos_hi - l.pos_lo
    <3>1. w \in Nat /\ w <= n
      BY <2>3
    <3>2. b \in -(w - 1)..(w - 1) /\ e \in 1..w
      BY <2>4
    <3> HIDE DEF b, e, w
    <3>3. b \in -n..n /\ e \in 1..n
      BY ONLY <3>1, <3>2
    <3> QED BY <3>3 DEF b, e
  <2> QED BY <2>4, <2>5 DEF l
<1>4. c \in Seq(Segment) /\ Len(c) = m /\ DOMAIN c = 1..m
  <2>1. c \in [1..m -> Segment]
    BY <1>2, <1>3
  <2> QED BY <1>1, <2>1
<1>5. Tiles(c, 0, n)
  <2>1. \A s \in 1..m : c[s].pos_lo = segs[s].pos_lo + 0 /\ c[s].pos_hi = segs[s].pos_hi + 0
    <3>1. \A s \in 1..m : segs[s] \in Segment
      BY <1>0 DEF m
    <3>2. \A s \in 1..m : segs[s].pos_lo \in Int /\ segs[s].pos_hi \in Int
      BY <3>1, SegmentTypes
    <3> QED BY <1>3, <3>2
  <2>2. Tiles(c, 0 + 0, n + 0)
    <3> DEFINE z == 0
    <3>1. z \in Int /\ n \in Int /\ Tiles(segs, z, n) /\ Len(c) = Len(segs)
      BY <1>0, <1>4 DEF m
    <3>2. \A s \in 1..Len(segs) : c[s].pos_lo = segs[s].pos_lo + z /\ c[s].pos_hi = segs[s].pos_hi + z
      BY <2>1 DEF m
    <3> HIDE DEF z
    <3>3. Tiles(c, z + z, n + z)
      BY <1>0, <1>4, <3>1, <3>2, TilesMoved
    <3> QED BY <3>3 DEF z
  <2>3. 0 + 0 = 0 /\ n + 0 = n
    OBVIOUS
  <2> QED BY <2>2, <2>3
<1> QED BY <1>3, <1>4, <1>5 DEF Calibrated, c, m

-----------------------------------------------------------------------------
(* The line of a segment at its keys: exact, up to rounding, at the first  *)
(* and near at the keys that differ from it.                               *)
LEMMA LineAtFirst ==
  ASSUME NEW l \in Segment, l.slope \in Ratio, l.i0 >= 0, NEW down \in BOOLEAN
  PROVE  Line(l, l.k0, down) \in {l.i0, l.i0 - 1}
<1> DEFINE x == l.i0
           d == l.slope[2]
           num == l.slope[1] * (l.k0 - l.k0) + l.i0 * l.slope[2]
<1>1. /\ x \in Nat /\ d \in Nat \ {0} /\ l.slope[1] \in Int /\ l.k0 \in Int
  BY SegmentTypes DEF Ratio
<1>2. num = x * d
  <2>1. l.k0 - l.k0 = 0 /\ l.slope[1] * 0 = 0 /\ x * d \in Int
    BY <1>1
  <2> QED BY <2>1
<1>3. Line(l, l.k0, down) = IF down /\ num > 0 /\ num % d = 0
                               THEN num \div d - 1 ELSE Truncate(num, d)
  BY DEF Line
<1> HIDE DEF x, d, num
<1>4. num \in Int /\ num >= 0 /\ x * d <= num /\ num <= x * d
  BY <1>1, <1>2
<1>5. num \div d = x
  <2>1. x <= num \div d /\ num \div d <= x /\ num \div d \in Int
    BY <1>1, <1>4, DivisionBetween, Division
  <2> QED BY <1>1, <2>1
<1>6. Truncate(num, d) = x
  BY <1>4, <1>5 DEF Truncate
<1> QED BY <1>3, <1>5, <1>6 DEF x

LEMMA LineAtKey ==
  ASSUME NEW n \in Nat, NEW arr \in [0..n-1 -> Int], Ascending(arr, n),
         NEW eps \in Nat, NEW down \in BOOLEAN,
         NEW l, Calibratable(l, arr, n), Fits(arr, eps, n, l),
         NEW i \in l.pos_lo..l.pos_hi-1
  PROVE  /\ Line(l, arr[i], down) \in Int
         /\ arr[i] = arr[l.pos_lo] =>
              Line(l, arr[i], down) \in {l.pos_lo, l.pos_lo - 1}
         /\ arr[i] # arr[l.pos_lo] =>
              Line(l, arr[i], down) \in i-eps-1..i+eps
<1>1. /\ l \in Segment /\ l.slope \in Ratio
      /\ 0 <= l.pos_lo /\ l.pos_lo < l.pos_hi /\ l.pos_hi <= n
      /\ l.i0 = l.pos_lo /\ l.k0 = arr[l.pos_lo]
      /\ WithinCone(arr, eps, l.slope, l.pos_lo, l.pos_hi)
  BY DEF Calibratable, Fits
<1>2. l.pos_lo \in Int /\ l.pos_hi \in Int
  BY <1>1, SegmentTypes
<1>3. i \in 0..n-1 /\ l.pos_lo \in 0..n-1 /\ l.pos_lo <= i /\ i \in Int
  BY <1>1, <1>2
<1>4. arr[i] \in Int /\ arr[l.pos_lo] \in Int /\ arr[l.pos_lo] <= arr[i]
  BY <1>3 DEF Ascending
<1>5. Line(l, arr[i], down) \in Int
  BY <1>1, <1>4, LineType
<1>6. CASE arr[i] = arr[l.pos_lo]
  <2>1. Line(l, l.k0, down) \in {l.i0, l.i0 - 1}
    BY <1>1, LineAtFirst
  <2> QED BY <1>1, <1>5, <1>6, <2>1
<1>7. CASE arr[i] # arr[l.pos_lo]
  <2> DEFINE j == i - l.pos_lo
             k == arr[i]
             p == Line(l, k, down)
  <2>1. /\ AtMost(<<j - eps, k - l.k0>>, l.slope)
        /\ AtMost(l.slope, <<j + eps, k - l.k0>>)
    BY <1>1, <1>7 DEF WithinCone
  <2>2. j \in Int /\ k \in Int /\ k - l.k0 > 0 /\ l.i0 + j = i /\ l.i0 \in Int
    BY <1>1, <1>2, <1>3, <1>4, <1>7
  <2> HIDE DEF j, k
  <2>3. /\ p <= l.i0 + j + eps
        /\ p >= l.i0 + j - eps - (IF down THEN 1 ELSE 0)
    BY <1>1, <2>1, <2>2, LineNear
  <2>4. p \in Int
    BY <1>5 DEF k
  <2> HIDE DEF p
  <2>5. p >= i - eps - 1
    <3>1. CASE down
      BY <1>3, <2>2, <2>3, <2>4, <3>1
    <3>2. CASE ~down
      BY <1>3, <2>2, <2>3, <2>4, <3>2
    <3> QED BY <3>1, <3>2
  <2>6. p \in i-eps-1..i+eps
    BY <1>3, <2>2, <2>3, <2>4, <2>5
  <2> QED BY <1>7, <2>6 DEF p, k
<1> QED BY <1>5, <1>6, <1>7

(* The window of a segment reaches position i from the prediction p: the   *)
(* search looks at the position behind the window as well.                 *)
Reaches(l, i, p) == p - l.seg_eps <= i /\ i <= p + l.seg_eps + 1

(* A segment that was not calibrated reaches the first of its keys, and    *)
(* every key that differs from it.                                         *)
LEMMA PlainWindow ==
  ASSUME NEW n \in Nat, NEW arr \in [0..n-1 -> Int], Ascending(arr, n),
         NEW eps \in Nat \ {0}, NEW down \in BOOLEAN,
         NEW l, Calibratable(l, arr, n), Fits(arr, eps, n, l),
         NEW i \in l.pos_lo..l.pos_hi-1, arr[i] = arr[l.pos_lo] => i = l.pos_lo
  PROVE  Reaches(l, i, PredictBiased(l, arr[i], down))
<1> DEFINE p == Line(l, arr[i], down)
<1>1. /\ p \in Int /\ l.pos_lo \in Int /\ l.pos_hi \in Int /\ l.pos_lo < l.pos_hi
      /\ l.bias = 0 /\ l.seg_eps = eps
  BY LineAtKey, SegmentTypes DEF Calibratable, Fits
<1>2. (i = l.pos_lo /\ p \in {l.pos_lo, l.pos_lo - 1}) \/ p \in i-eps-1..i+eps
  BY LineAtKey
<1>3. PredictBiased(l, arr[i], down) = Clamp(p + 0, l.pos_lo, l.pos_hi - 1)
  BY <1>1 DEF PredictBiased
<1> HIDE DEF p
<1> QED BY <1>1, <1>2, <1>3 DEF Clamp, Reaches

(* A calibrated segment reaches its keys when epsilon is at most two.  The *)
(* window is one larger than M, the largest error without the bias.  The   *)
(* bias moves a prediction by the mean error, which lies above -M, since   *)
(* the first key of the segment has no error, and is at most two, since no *)
(* error is above two: what the bias adds is within the position to spare. *)
LEMMA CalibratedWindow ==
  ASSUME NEW n \in Nat, NEW arr \in [0..n-1 -> Int], Ascending(arr, n),
         NEW eps \in 1..2, NEW down \in BOOLEAN,
         NEW l, Calibratable(l, arr, n), Fits(arr, eps, n, l),
         NEW i \in l.pos_lo..l.pos_hi-1, arr[i] = arr[l.pos_lo] => i = l.pos_lo
  PROVE  LET c == Calibrate(l, arr, down)
         IN Reaches(c, i, PredictBiased(c, arr[i], down))
<1> DEFINE lo == l.pos_lo
           hi == l.pos_hi
           P(j) == Line(l, arr[j], down)
           E(j) == Error(l, arr, j, down)
           M == MaxAbsError(l, arr, down)
           m == MeanError(l, arr, down)
           c == Calibrate(l, arr, down)
<1>1. /\ lo \in Int /\ hi \in Int /\ lo < hi /\ eps \in Nat /\ eps <= 2
      /\ l \in Segment
  BY SegmentTypes DEF Calibratable
<1>2. \A j \in lo..hi-1 :
        /\ P(j) \in Int
        /\ arr[j] = arr[lo] => P(j) \in {lo, lo - 1}
        /\ arr[j] # arr[lo] => P(j) \in j-eps-1..j+eps
  BY <1>1, LineAtKey
<1>3. \A j \in lo..hi-1 : E(j) = Clamp(P(j), lo, hi - 1) - j
  BY DEF Error, Predict
<1>4. M \in Nat /\ \A j \in lo..hi-1 : E(j) <= M /\ -E(j) <= M
  <2>1. M \in 0..hi-lo-1 /\ \A j \in lo..hi-1 : E(j) <= M /\ -E(j) <= M
    BY MaxAbsErrorBounded
  <2> QED BY <1>1, <2>1
<1>5. /\ c.slope = l.slope /\ c.k0 = l.k0 /\ c.i0 = l.i0
      /\ c.pos_lo = lo /\ c.pos_hi = hi /\ c.bias = -m /\ c.seg_eps = M + 1
  BY <1>1 DEF Calibrate, Segment
<1> HIDE DEF lo, hi, P, M, m, c
<1>6. E(lo) = 0 /\ \A j \in lo..hi-1 : E(j) \in Int /\ E(j) <= 2
  <2>1. ASSUME NEW j \in lo..hi-1 PROVE E(j) \in Int /\ E(j) <= 2
    <3>1. E(j) = Clamp(P(j), lo, hi - 1) - j /\ j \in Int
      BY <1>1, <1>3
    <3>2. P(j) \in {lo, lo - 1} \/ P(j) \in j-eps-1..j+eps
      BY <1>2
    <3> HIDE DEF E
    <3> QED BY <1>1, <3>1, <3>2 DEF Clamp
  <2>2. E(lo) = 0
    <3>1. lo \in lo..hi-1 /\ P(lo) \in {lo, lo - 1}
      BY <1>1, <1>2
    <3>2. E(lo) = Clamp(P(lo), lo, hi - 1) - lo
      BY <1>3, <3>1
    <3> HIDE DEF E
    <3> QED BY <1>1, <3>1, <3>2 DEF Clamp
  <2> QED BY <2>1, <2>2
<1> DEFINE a == -M
           b == IF M <= 2 THEN M ELSE 2
<1>7. /\ m \in a..b
      /\ a < 0 => m > a
  <2>1. a \in Int /\ b \in Int /\ \A j \in lo..hi-1 : a <= E(j) /\ E(j) <= b
    BY <1>4, <1>6
  <2>2. lo \in lo..hi-1 /\ (a < 0 => E(lo) > a)
    BY <1>1, <1>6
  <2> HIDE DEF a, b
  <2>3. /\ m \in a..b
        /\ a < 0 /\ (\E j \in lo..hi-1 : E(j) > a) => m > a
    BY <2>1, MeanErrorBounded DEF m, lo, hi
  <2> QED BY <2>2, <2>3
<1> DEFINE p == P(i)
           q == Clamp(p - m, lo, hi - 1)
<1>8. PredictBiased(c, arr[i], down) = q
  <2>1. Line(c, arr[i], down) = p
    BY <1>5 DEF Line, P
  <2>2. p + (-m) = p - m
    BY <1>2, <1>7 DEF lo, hi
  <2> QED BY <1>5, <2>1, <2>2 DEF PredictBiased
<1>9. /\ i \in lo..hi-1 /\ p \in Int
      /\ (i = lo /\ p \in {lo, lo - 1}) \/ p \in i-eps-1..i+eps
  BY <1>2 DEF lo, hi
<1>10. /\ Clamp(p, lo, hi - 1) - i <= M /\ -(Clamp(p, lo, hi - 1) - i) <= M
  BY <1>3, <1>4, <1>9
<1> HIDE DEF p
<1>11. m \in Int /\ m <= M /\ m <= 2 /\ -m <= M /\ (M >= 1 => -m <= M - 1)
  BY <1>4, <1>7
<1>12. q - (M + 1) <= i /\ i <= q + (M + 1) + 1
  BY <1>1, <1>4, <1>9, <1>10, <1>11 DEF Clamp
<1> QED BY <1>5, <1>8, <1>12 DEF Reaches, c

-----------------------------------------------------------------------------
(* The leaves of an index.                                                 *)

(* A leaf of the index over the keys a of n positions, built with eps.     *)
LeafOK(a, eps, l) ==
  /\ l.slope \in Ratio /\ l.k0 = a[l.pos_lo]
  /\ 0 <= l.i0 /\ l.i0 <= l.pos_lo
  /\ WithinCone(a, eps, l.slope, l.pos_lo, l.pos_hi)
  /\ l.bias \in -MaxKeys..MaxKeys
  /\ l.seg_eps \in 1..MaxKeys + Epsilon + 4
  /\ l.seg_errs \in 0..MaxErrs

LeavesOK(a, eps, segs) ==
  /\ segs \in Seq(Segment) /\ Len(segs) >= 1 /\ Tiles(segs, 0, Size(a))
  /\ \A s \in 1..Len(segs) : LeafOK(a, eps, segs[s])

(* The inductive invariant.                                                *)
WindowsInv ==
  /\ IsArray(keys)
  /\ IF keys = <<>> THEN leaves = <<>>
     ELSE LeavesOK(keys, cached_eps, leaves) /\ cached_eps \in 1..Epsilon
  /\ cached_eps \in 1..64 /\ queries \in 0..DecayEvery-1
  /\ short \in BOOLEAN /\ fresh \in BOOLEAN

-----------------------------------------------------------------------------
LEMMA ArrayFacts ==
  ASSUME NEW a, IsArray(a)
  PROVE  /\ Size(a) \in 0..MaxKeys /\ Size(a) \in Nat /\ MaxKeys \in Nat
         /\ a \in [0..Size(a)-1 -> Nat] /\ a \in [0..Size(a)-1 -> Int]
         /\ Ascending(a, Size(a)) /\ DOMAIN a = 0..Size(a)-1
         /\ a # <<>> => Size(a) >= 1
<1>1. PICK n \in 0..MaxKeys : a \in [0..n-1 -> Nat]
  BY DEF IsArray
<1>2. MaxKeys \in Nat /\ n \in Nat
  BY <1>1, BoundsAssumption
<1>3. Size(a) = n
  BY <1>1, <1>2, SizeOfArray
<1>4. a # <<>> => n >= 1
  <2>1. SUFFICES ASSUME n = 0 PROVE a = <<>>
    BY <1>2
  <2>2. a = [i \in {} |-> a[i]]
    BY <1>1, <2>1
  <2> QED BY <2>2
<1> QED BY <1>1, <1>2, <1>3, <1>4 DEF IsArray, Ascending

(* A full build makes good leaves.                                         *)
LEMMA BuiltLeavesOK ==
  ASSUME NEW a, IsArray(a), a # <<>>, NEW eps \in 1..Epsilon, short \in BOOLEAN
  PROVE  LeavesOK(a, eps, BuildLeaves(a, eps, short))
<1> DEFINE n == Size(a)
           segs == pgm_build(a, eps)
           c == CalibrateAll(segs, a, short)
<1>1. /\ n \in 0..MaxKeys /\ n \in Nat \ {0} /\ MaxKeys \in Nat /\ Epsilon \in 1..64
      /\ eps \in Nat /\ a \in [0..n-1 -> Int] /\ Ascending(a, n)
      /\ MaxErrs \in Nat
  BY ArrayFacts, BoundsAssumption
<1> HIDE DEF n
<1>0. Segments(a, eps, n, segs)
  BY <1>1, PgmBuildFits
<1>2. /\ segs \in Seq(Segment) /\ Len(segs) >= 1 /\ Tiles(segs, 0, n)
      /\ \A s \in 1..Len(segs) : Fits(a, eps, n, segs[s])
  BY <1>0 DEF Segments
<1> HIDE DEF segs
<1>3. \A s \in 1..Len(segs) : 0 <= segs[s].pos_lo /\ segs[s].pos_lo \in Int
  BY <1>1, <1>2, TilesOrdered, SegmentTypes
<1>4. CASE Len(segs) > 1
  <2>1. BuildLeaves(a, eps, short) = c
    BY <1>4 DEF BuildLeaves, segs
  <2>2. /\ c \in Seq(Segment) /\ Len(c) = Len(segs) /\ Tiles(c, 0, n)
        /\ \A s \in 1..Len(segs) :
             /\ c[s].slope = segs[s].slope /\ c[s].k0 = segs[s].k0
             /\ c[s].i0 = segs[s].i0
             /\ c[s].pos_lo = segs[s].pos_lo /\ c[s].pos_hi = segs[s].pos_hi
             /\ c[s].seg_errs = segs[s].seg_errs
             /\ c[s].bias \in -n..n /\ c[s].seg_eps \in 1..n
    BY <1>0, <1>1, CalibrateAllFacts DEF Calibrated
  <2> HIDE DEF c
  <2>3. ASSUME NEW s \in 1..Len(segs) PROVE LeafOK(a, eps, c[s])
    <3>1. Fits(a, eps, n, segs[s])
      BY <1>2
    <3>2. /\ c[s].slope \in Ratio /\ c[s].k0 = a[c[s].pos_lo]
          /\ c[s].i0 = c[s].pos_lo /\ 0 <= c[s].i0 /\ c[s].i0 <= c[s].pos_lo
          /\ WithinCone(a, eps, c[s].slope, c[s].pos_lo, c[s].pos_hi)
          /\ c[s].seg_errs = 0
      BY <1>3, <2>2, <3>1 DEF Fits
    <3>3. c[s].bias \in -MaxKeys..MaxKeys /\ c[s].seg_eps \in 1..MaxKeys + Epsilon + 4
      <4>1. c[s].bias \in -n..n /\ c[s].seg_eps \in 1..n
        BY <2>2
      <4> QED BY <1>1, <4>1
    <3> QED BY <1>1, <3>2, <3>3 DEF LeafOK
  <2> QED BY <1>2, <2>1, <2>2, <2>3 DEF LeavesOK, n
<1>5. CASE ~(Len(segs) > 1)
  <2>1. BuildLeaves(a, eps, short) = segs
    BY <1>5 DEF BuildLeaves, segs
  <2>2. ASSUME NEW s \in 1..Len(segs) PROVE LeafOK(a, eps, segs[s])
    <3>1. /\ segs[s].slope \in Ratio /\ segs[s].k0 = a[segs[s].pos_lo]
          /\ 0 <= segs[s].i0 /\ segs[s].i0 <= segs[s].pos_lo
          /\ WithinCone(a, eps, segs[s].slope, segs[s].pos_lo, segs[s].pos_hi)
          /\ segs[s].seg_errs = 0 /\ segs[s].bias = 0 /\ segs[s].seg_eps = eps
      BY <1>2, <1>3 DEF Fits
    <3>2. segs[s].bias \in -MaxKeys..MaxKeys /\ segs[s].seg_eps \in 1..MaxKeys + Epsilon + 4
      BY <1>1, <3>1
    <3> QED BY <1>1, <3>1, <3>2 DEF LeafOK
  <2> QED BY <1>2, <2>1, <2>2 DEF LeavesOK, n
<1> QED BY <1>4, <1>5

LEMMA RebuildInv ==
  ASSUME WindowsInv, NEW a, IsArray(a), a # <<>>, NEW from \in 1..Epsilon,
         Rebuild(a, from)
  PROVE  WindowsInv'
<1>1. /\ keys' = a /\ cached_eps' = ChooseEps(a, from)
      /\ leaves' = BuildLeaves(a, cached_eps', short)
      /\ queries' = 0 /\ fresh' = TRUE /\ short' = short
  BY DEF Rebuild
<1>2. from \in Nat \ {0} /\ Epsilon \in 1..64 /\ DecayEvery \in Nat \ {0}
  BY BoundsAssumption
<1>3. cached_eps' \in 1..Epsilon
  <2>1. cached_eps' \in 1..from
    BY <1>1, <1>2, ChooseEpsBounded
  <2> QED BY <1>2, <2>1
<1>4. short \in BOOLEAN
  BY DEF WindowsInv
<1>5. LeavesOK(keys', cached_eps', leaves')
  <2> DEFINE e == cached_eps'
  <2>1. e \in 1..Epsilon
    BY <1>3
  <2> HIDE DEF e
  <2>2. LeavesOK(a, e, BuildLeaves(a, e, short))
    BY <1>4, <2>1, BuiltLeavesOK
  <2> QED BY <1>1, <2>2 DEF e
<1>6. 0 \in 0..DecayEvery-1 /\ cached_eps' \in 1..64
  BY <1>2, <1>3
<1> QED BY <1>1, <1>3, <1>4, <1>5, <1>6 DEF WindowsInv

-----------------------------------------------------------------------------
(* The keys below k of a sorted array are its first ones.                  *)
LEMMA BelowIsPrefix ==
  ASSUME NEW n \in Nat, NEW a \in [0..n-1 -> Nat], Ascending(a, n), NEW k \in Nat
  PROVE  LET at == Cardinality({i \in DOMAIN a : a[i] < k})
         IN /\ at \in 0..n
            /\ \A i \in 0..n-1 : a[i] < k <=> i < at
<1> DEFINE T == {i \in 0..n : i = n \/ a[i] >= k}
<1>1. n \in T /\ T \subseteq Nat
  OBVIOUS
<1>2. PICK m \in T : \A y \in T : m <= y
  BY <1>1, LeastNat
<1>3. m \in 0..n /\ (m = n \/ a[m] >= k)
  BY <1>2
<1>4. ASSUME NEW i \in 0..n-1 PROVE a[i] < k <=> i < m
  <2>1. CASE i < m
    <3>1. i \notin T
      BY <1>2, <2>1
    <3> QED BY <2>1, <3>1
  <2>2. CASE i >= m
    <3>1. m \in 0..n-1 /\ a[m] >= k /\ a[m] <= a[i]
      BY <1>3, <2>2 DEF Ascending
    <3>2. a[m] \in Nat /\ a[i] \in Nat /\ i \in Int /\ m \in Int
      BY <3>1
    <3> QED BY <2>2, <3>1, <3>2
  <2> QED BY <1>3, <2>1, <2>2
<1>5. {i \in DOMAIN a : a[i] < k} = 0..m-1
  BY <1>3, <1>4
<1>6. Cardinality(0..m-1) = m
  BY <1>3, FS_Interval
<1> QED BY <1>3, <1>4, <1>5, <1>6

(* flush_buffer() leaves a sorted array, longer by one.                    *)
LEMMA MergeIsArray ==
  ASSUME NEW a, IsArray(a), Size(a) < MaxKeys, NEW k \in Nat
  PROVE  IsArray(Merge(a, k)) /\ Merge(a, k) # <<>>
<1> DEFINE n == Size(a)
           at == Cardinality({i \in DOMAIN a : a[i] < k})
           b == [i \in 0..n |-> IF i < at THEN a[i] ELSE IF i = at THEN k ELSE a[i-1]]
<1>1. /\ n \in 0..MaxKeys /\ n \in Nat /\ MaxKeys \in Nat /\ n < MaxKeys
      /\ a \in [0..n-1 -> Nat] /\ Ascending(a, n)
  BY ArrayFacts
<1>2. at \in 0..n /\ \A i \in 0..n-1 : a[i] < k <=> i < at
  BY <1>1, BelowIsPrefix
<1>3. Merge(a, k) = b
  BY DEF Merge
<1> HIDE DEF n, at
<1>4. ASSUME NEW i \in 0..n
      PROVE  /\ b[i] \in Nat
             /\ i < at => i \in 0..n-1 /\ b[i] = a[i] /\ b[i] < k
             /\ i = at => b[i] = k
             /\ i > at => i - 1 \in 0..n-1 /\ b[i] = a[i-1] /\ b[i] >= k
  <2>1. CASE i < at
    BY <1>1, <1>2, <2>1
  <2>2. CASE i = at
    BY <1>1, <1>2, <2>2
  <2>3. CASE i > at
    <3>1. i - 1 \in 0..n-1 /\ ~(i < at) /\ i # at /\ ~(i - 1 < at)
      BY <1>1, <1>2, <2>3
    <3>2. b[i] = a[i-1] /\ a[i-1] \in Nat /\ ~(a[i-1] < k)
      BY <1>1, <1>2, <3>1
    <3> QED BY <1>2, <2>3, <3>1, <3>2
  <2> QED BY <1>1, <1>2, <2>1, <2>2, <2>3
<1>5. b \in [0..n -> Nat]
  BY <1>4
<1> HIDE DEF b
<1>6. ASSUME NEW i \in 0..n, NEW j \in 0..n, i <= j PROVE b[i] <= b[j]
  <2>1. i \in Nat /\ j \in Nat /\ at \in Nat /\ b[i] \in Nat /\ b[j] \in Nat
    BY <1>1, <1>2, <1>4
  <2>2. CASE j < at
    <3>1. i < at
      BY <1>6, <2>1, <2>2
    <3>2. b[i] = a[i] /\ b[j] = a[j] /\ i \in 0..n-1 /\ j \in 0..n-1
      BY <1>4, <2>2, <3>1
    <3> QED BY <1>1, <1>6, <3>2 DEF Ascending
  <2>3. CASE i > at
    <3>1. j > at
      BY <1>6, <2>1, <2>3
    <3>2. b[i] = a[i-1] /\ b[j] = a[j-1] /\ i - 1 \in 0..n-1 /\ j - 1 \in 0..n-1
      BY <1>4, <2>3, <3>1
    <3>3. i - 1 <= j - 1
      BY <1>6, <2>1
    <3> QED BY <1>1, <3>2, <3>3 DEF Ascending
  <2>4. CASE i <= at /\ at <= j
    <3>1. b[i] <= k /\ k <= b[j]
      BY <1>4, <2>1, <2>4
    <3> QED BY <2>1, <3>1
  <2> QED BY <2>1, <2>2, <2>3, <2>4
<1>7. n + 1 \in 0..MaxKeys /\ (n + 1) - 1 = n
  BY <1>1
<1>8. IsArray(b)
  <2>1. b \in [0..(n + 1)-1 -> Nat] /\ DOMAIN b = 0..n
    BY <1>5, <1>7
  <2>2. \A i, j \in DOMAIN b : i <= j => b[i] <= b[j]
    BY <1>6, <2>1
  <2> QED BY <1>7, <2>1, <2>2 DEF IsArray
<1>9. b # <<>>
  <2>1. 0 \in DOMAIN b
    BY <1>1, <1>5
  <2> QED BY <2>1
<1> QED BY <1>3, <1>8, <1>9

-----------------------------------------------------------------------------
(* The leaf a key is routed to is a leaf.                                  *)
LEMMA OwnerIsLeaf ==
  ASSUME WindowsInv, keys # <<>>, NEW k
  PROVE  /\ Owner(k) \in 1..Len(leaves)
         /\ \A s \in 1..Len(leaves) : seg_key(s) <= k => s <= Owner(k)
         /\ Owner(k) # 1 => seg_key(Owner(k)) <= k
<1> DEFINE n == Len(leaves)
           T == {1} \cup {s \in DOMAIN leaves : seg_key(s) <= k}
<1>1. n \in Nat /\ n >= 1 /\ DOMAIN leaves = 1..n
  BY DEF WindowsInv, LeavesOK
<1>2. T \subseteq 1..n /\ T # {} /\ 1 \in Int /\ n \in Int
  BY <1>1
<1>3. Max(T) \in T /\ \A t \in T : t <= Max(T)
  <2> HIDE DEF T, n
  <2> QED BY <1>2, MaxOfInterval
<1>4. Owner(k) = Max(T)
  BY DEF Owner
<1> QED BY <1>1, <1>2, <1>3, <1>4

(* A leaf of the index, and the window around a prediction in it.          *)
LEMMA LeafFacts ==
  ASSUME WindowsInv, keys # <<>>, NEW s \in 1..Len(leaves)
  PROVE  /\ leaves[s] \in Segment /\ LeafOK(keys, cached_eps, leaves[s])
         /\ 0 <= leaves[s].pos_lo /\ leaves[s].pos_lo < leaves[s].pos_hi
         /\ leaves[s].pos_hi <= Size(keys)
<1>1. /\ leaves \in Seq(Segment) /\ Tiles(leaves, 0, Size(keys))
      /\ LeafOK(keys, cached_eps, leaves[s])
  BY DEF WindowsInv, LeavesOK
<1>2. Size(keys) \in Nat
  BY ArrayFacts DEF WindowsInv
<1>3. 0 <= leaves[s].pos_lo /\ leaves[s].pos_hi <= Size(keys)
  BY <1>1, <1>2, TilesOrdered
<1>4. leaves[s].pos_lo < leaves[s].pos_hi
  BY <1>1 DEF Tiles
<1> QED BY <1>1, <1>3, <1>4

LEMMA PredictionInLeaf ==
  ASSUME NEW l \in Segment, l.slope \in Ratio, l.pos_lo < l.pos_hi,
         NEW k \in Int, NEW b \in BOOLEAN
  PROVE  PredictBiased(l, k, b) \in l.pos_lo..l.pos_hi-1
<1> DEFINE p == Line(l, k, b)
<1>1. p \in Int
  BY LineType
<1>2. l.pos_lo \in Int /\ l.pos_hi \in Int /\ l.bias \in Int
  BY SegmentTypes
<1>3. PredictBiased(l, k, b) = Clamp(p + l.bias, l.pos_lo, l.pos_hi - 1)
  BY DEF PredictBiased
<1> HIDE DEF p
<1> QED BY <1>1, <1>2, <1>3 DEF Clamp

(* The search for a key stays in its leaf.                                 *)
LEMMA SearchFacts ==
  ASSUME WindowsInv, keys # <<>>, NEW k \in Nat
  PROVE  /\ Center(k) \in leaves[Owner(k)].pos_lo..leaves[Owner(k)].pos_hi-1
         /\ \A pos \in Hits(k) :
              /\ pos \in leaves[Owner(k)].pos_lo..leaves[Owner(k)].pos_hi-1
              /\ keys[pos] = k
<1> DEFINE l == leaves[Owner(k)]
<1>1. /\ l \in Segment /\ LeafOK(keys, cached_eps, l) /\ l.pos_lo < l.pos_hi
  BY OwnerIsLeaf, LeafFacts
<1>2. /\ l.pos_lo \in Int /\ l.pos_hi \in Int /\ l.seg_eps \in Int /\ l.slope \in Ratio
      /\ k \in Int /\ short \in BOOLEAN
  BY <1>1, SegmentTypes DEF LeafOK, WindowsInv
<1> DEFINE c == Center(k)
<1>3. c \in l.pos_lo..l.pos_hi-1
  <2> HIDE DEF l
  <2>1. PredictBiased(l, k, short) \in l.pos_lo..l.pos_hi-1
    BY <1>1, <1>2, PredictionInLeaf
  <2> QED BY <2>1 DEF Center, l
<1> HIDE DEF c
<1> DEFINE wlo == Max({l.pos_lo, c - l.seg_eps})
           past == Min({c + l.seg_eps + 1, l.pos_hi - 1})
<1>4. Hits(k) = IF keys[c] = k THEN {c} ELSE {pos \in wlo..past : keys[pos] = k}
  BY DEF Hits, c
<1> HIDE DEF l
<1>5. wlo \in Int /\ l.pos_lo <= wlo /\ past \in Int /\ past <= l.pos_hi - 1
  <2>1. c - l.seg_eps \in Int /\ c + l.seg_eps + 1 \in Int /\ l.pos_hi - 1 \in Int
    BY <1>2, <1>3
  <2> QED BY <1>2, <2>1, MaxOfTwo, MinOfTwo
<1> HIDE DEF wlo, past
<1>6. ASSUME NEW pos \in Hits(k) PROVE pos \in l.pos_lo..l.pos_hi-1 /\ keys[pos] = k
  BY <1>2, <1>3, <1>4, <1>5
<1> QED BY <1>3, <1>6 DEF l, c

-----------------------------------------------------------------------------
LEMMA InitInv == Init => WindowsInv
<1> SUFFICES ASSUME Init PROVE WindowsInv
  OBVIOUS
<1>1. MaxKeys \in Nat /\ DecayEvery \in Nat \ {0}
  BY BoundsAssumption
<1>2. IsArray(<<>>)
  <2>1. <<>> \in [0..0-1 -> Nat] /\ 0 \in 0..MaxKeys /\ DOMAIN <<>> = {}
    BY <1>1
  <2> QED BY <2>1 DEF IsArray
<1>3. IsArray(keys)
  <2>1. keys = <<>>
    BY DEF Init
  <2> QED BY ONLY <1>2, <2>1
<1>4. cached_eps \in 1..64 /\ queries \in 0..DecayEvery-1
  <2>1. cached_eps = 8 /\ queries = 0
    BY DEF Init
  <2> QED BY ONLY <1>1, <2>1
<1>5. keys = <<>> /\ leaves = <<>> /\ short \in BOOLEAN /\ fresh \in BOOLEAN
  BY DEF Init
<1> QED BY <1>3, <1>4, <1>5 DEF WindowsInv

(* A hit moves the window and the error count of a leaf, nothing else.     *)
LEMMA TrackedFacts ==
  ASSUME NEW l \in Segment, l.seg_eps \in 1..MaxKeys + Epsilon + 4,
         l.seg_errs \in 0..MaxErrs, NEW err \in 0..MaxKeys, NEW q \in Nat
  PROVE  LET t == Tracked(l, err, q)
         IN /\ t \in Segment
            /\ t.slope = l.slope /\ t.k0 = l.k0 /\ t.i0 = l.i0
            /\ t.pos_lo = l.pos_lo /\ t.pos_hi = l.pos_hi /\ t.bias = l.bias
            /\ t.seg_eps \in 1..MaxKeys + Epsilon + 4
            /\ t.seg_errs \in 0..MaxErrs
            /\ q # 0 => t.seg_eps >= l.seg_eps
<1> DEFINE e == IF err >= l.seg_eps THEN err + 4
                ELSE IF l.seg_eps > 1 /\ q = 0 THEN l.seg_eps - 1 ELSE l.seg_eps
           r == IF err > e \div 2 /\ l.seg_errs < MaxErrs
                  THEN l.seg_errs + 1 ELSE l.seg_errs
<1>1. MaxKeys \in Nat /\ Epsilon \in 1..64 /\ MaxErrs \in Nat
  BY BoundsAssumption
<1>2. e \in 1..MaxKeys + Epsilon + 4 /\ (q # 0 => e >= l.seg_eps)
  BY <1>1
<1> HIDE DEF e
<1>3. r \in 0..MaxErrs
  <2>1. CASE err > e \div 2 /\ l.seg_errs < MaxErrs
    BY <1>1, <2>1
  <2>2. CASE ~(err > e \div 2 /\ l.seg_errs < MaxErrs)
    BY <2>2
  <2> QED BY <2>1, <2>2
<1> HIDE DEF r
<1>4. Tracked(l, err, q) = [l EXCEPT !.seg_eps = e, !.seg_errs = r]
  BY DEF Tracked, e, r
<1>5. e \in Int /\ r \in Int
  BY <1>1, <1>2, <1>3
<1> QED BY <1>2, <1>3, <1>4, <1>5 DEF Segment

(* What a search may do to the leaves: nothing, or a hit in the owner.     *)
TrackedAs(segs, k, pos) ==
  LET o == Owner(k)
  IN segs = [leaves EXCEPT
               ![o] = Tracked(leaves[o], Distance(pos, Center(k)), NextQuery)]

LEMMA SearchedCases ==
  ASSUME NEW k, NEW segs \in Searched(k)
  PROVE  \/ Hits(k) = {} /\ segs = leaves
         \/ \E pos \in Hits(k) : TrackedAs(segs, k, pos)
BY DEF Searched, TrackedAs

(* A search keeps every leaf in its place, its line and its bias.          *)
Same(l, m) ==
  /\ m.slope = l.slope /\ m.k0 = l.k0 /\ m.i0 = l.i0
  /\ m.pos_lo = l.pos_lo /\ m.pos_hi = l.pos_hi /\ m.bias = l.bias

LEMMA SearchedFacts ==
  ASSUME WindowsInv, keys # <<>>, NEW k \in Nat, NEW segs \in Searched(k)
  PROVE  /\ segs \in Seq(Segment) /\ Len(segs) = Len(leaves)
         /\ \A s \in 1..Len(leaves) :
              /\ Same(leaves[s], segs[s])
              /\ segs[s].seg_eps \in 1..MaxKeys + Epsilon + 4
              /\ segs[s].seg_errs \in 0..MaxErrs
              /\ NextQuery # 0 => segs[s].seg_eps >= leaves[s].seg_eps
<1> DEFINE n == Len(leaves)
           o == Owner(k)
<1>1. /\ leaves \in Seq(Segment) /\ n \in Nat /\ o \in 1..n
      /\ MaxKeys \in Nat /\ Epsilon \in Nat
  BY OwnerIsLeaf, BoundsAssumption DEF WindowsInv, LeavesOK
<1>2. \A s \in 1..n :
        /\ leaves[s] \in Segment
        /\ leaves[s].seg_eps \in 1..MaxKeys + Epsilon + 4
        /\ leaves[s].seg_errs \in 0..MaxErrs
  BY LeafFacts DEF LeafOK
<1>3. CASE segs = leaves
  BY <1>1, <1>2, <1>3 DEF Same
<1>4. ASSUME NEW pos \in Hits(k), TrackedAs(segs, k, pos)
      PROVE  /\ segs \in Seq(Segment) /\ Len(segs) = Len(leaves)
             /\ \A s \in 1..Len(leaves) :
                  /\ Same(leaves[s], segs[s])
                  /\ segs[s].seg_eps \in 1..MaxKeys + Epsilon + 4
                  /\ segs[s].seg_errs \in 0..MaxErrs
                  /\ NextQuery # 0 => segs[s].seg_eps >= leaves[s].seg_eps
  <2> DEFINE c == Center(k)
             err == Distance(pos, c)
             t == Tracked(leaves[o], err, NextQuery)
  <2>1. err \in 0..MaxKeys
    <3>1. /\ 0 <= leaves[o].pos_lo /\ leaves[o].pos_hi <= Size(keys)
          /\ leaves[o].pos_lo \in Int /\ leaves[o].pos_hi \in Int
      BY <1>1, LeafFacts, SegmentTypes
    <3>2. c \in leaves[o].pos_lo..leaves[o].pos_hi-1 /\ pos \in leaves[o].pos_lo..leaves[o].pos_hi-1
      BY <1>4, SearchFacts
    <3>3. Size(keys) \in 0..MaxKeys
      BY ArrayFacts DEF WindowsInv
    <3> HIDE DEF c, o
    <3> QED BY <1>1, <3>1, <3>2, <3>3 DEF Distance
  <2>2. NextQuery \in Nat
    BY BoundsAssumption DEF WindowsInv, NextQuery
  <2>3. segs = [leaves EXCEPT ![o] = t]
    BY <1>4 DEF TrackedAs
  <2> HIDE DEF err
  <2>4. /\ t \in Segment /\ Same(leaves[o], t)
        /\ t.seg_eps \in 1..MaxKeys + Epsilon + 4
        /\ t.seg_errs \in 0..MaxErrs
        /\ NextQuery # 0 => t.seg_eps >= leaves[o].seg_eps
    BY <1>1, <1>2, <2>1, <2>2, TrackedFacts DEF Same
  <2> HIDE DEF t, o
  <2>5. segs \in Seq(Segment) /\ Len(segs) = n
    BY <1>1, <2>3, <2>4
  <2>6. \A s \in 1..n : segs[s] = IF s = o THEN t ELSE leaves[s]
    BY <1>1, <2>3
  <2>7. \A s \in 1..n : Same(leaves[s], leaves[s])
    BY DEF Same
  <2>8. \A s \in 1..n : leaves[s].seg_eps \in Int
    BY <1>1, <1>2
  <2> QED BY <1>2, <2>4, <2>5, <2>6, <2>7, <2>8
<1> QED BY <1>3, <1>4, SearchedCases

LEMMA SearchedOK ==
  ASSUME WindowsInv, keys # <<>>, NEW k \in Nat, NEW segs \in Searched(k)
  PROVE  LeavesOK(keys, cached_eps, segs)
<1>1. /\ leaves \in Seq(Segment) /\ Len(leaves) >= 1 /\ Tiles(leaves, 0, Size(keys))
      /\ \A s \in 1..Len(leaves) : LeafOK(keys, cached_eps, leaves[s])
  BY DEF WindowsInv, LeavesOK
<1>2. /\ segs \in Seq(Segment) /\ Len(segs) = Len(leaves)
      /\ \A s \in 1..Len(leaves) :
           /\ Same(leaves[s], segs[s])
           /\ segs[s].seg_eps \in 1..MaxKeys + Epsilon + 4
           /\ segs[s].seg_errs \in 0..MaxErrs
  BY SearchedFacts
<1>3. Len(leaves) \in Nat /\ \A s \in 1..Len(leaves)-1 : s \in 1..Len(leaves) /\ s+1 \in 1..Len(leaves)
  BY <1>1
<1>4. Tiles(segs, 0, Size(keys))
  BY <1>1, <1>2, <1>3 DEF Tiles, Same
<1>5. \A s \in 1..Len(leaves) : LeafOK(keys, cached_eps, segs[s])
  BY <1>1, <1>2 DEF LeafOK, Same
<1> QED BY <1>1, <1>2, <1>4, <1>5 DEF LeavesOK

-----------------------------------------------------------------------------
(* The slice of a leaf is a sorted array.                                  *)
LEMMA SliceFacts ==
  ASSUME WindowsInv, NEW l \in Segment, 0 <= l.pos_lo, l.pos_lo < l.pos_hi,
         l.pos_hi <= Size(keys)
  PROVE  LET n == l.pos_hi - l.pos_lo
         IN /\ n \in Nat \ {0} /\ n <= MaxKeys
            /\ Slice(l) \in [0..n-1 -> Int] /\ Ascending(Slice(l), n)
            /\ \A i \in 0..n-1 : Slice(l)[i] = keys[l.pos_lo + i]
<1> DEFINE n == l.pos_hi - l.pos_lo
           lo == l.pos_lo
           N == Size(keys)
<1>1. /\ lo \in Nat /\ l.pos_hi \in Int /\ n \in Nat \ {0}
      /\ N \in 0..MaxKeys /\ MaxKeys \in Nat
      /\ keys \in [0..N-1 -> Int] /\ Ascending(keys, N) /\ lo + n <= N
  BY SegmentTypes, ArrayFacts DEF WindowsInv
<1>2. Slice(l) = [i \in 0..n-1 |-> keys[lo + i]]
  BY DEF Slice
<1> HIDE DEF n, lo, N
<1>3. \A i \in 0..n-1 : lo + i \in 0..N-1
  BY <1>1
<1>4. Slice(l) \in [0..n-1 -> Int] /\ \A i \in 0..n-1 : Slice(l)[i] = keys[lo + i]
  BY <1>1, <1>2, <1>3
<1>5. ASSUME NEW i \in 0..n-1, NEW j \in 0..n-1, i <= j
      PROVE  Slice(l)[i] <= Slice(l)[j]
  <2>1. lo + i <= lo + j
    BY <1>1, <1>5
  <2>2. keys[lo + i] <= keys[lo + j]
    BY <1>1, <1>3, <2>1 DEF Ascending
  <2> QED BY <1>4, <2>2
<1>6. n <= MaxKeys
  BY <1>1
<1> QED BY <1>1, <1>4, <1>5, <1>6 DEF Ascending, n, lo

(* Positions lo to hi of a are found o further in b.                       *)
MovedBy(a, b, lo, hi, o) == \A i \in lo..hi-1 : b[i + o] = a[i]

(* A line that keeps within eps of a slice keeps within eps of its part of *)
(* the array, up to the distance the slice was moved by.                   *)
LEMMA WithinConeMoved ==
  ASSUME NEW a, NEW b, NEW eps \in Int, NEW m, NEW lo \in Int, NEW hi \in Int,
         NEW o \in Int, lo < hi, WithinCone(a, eps, m, lo, hi),
         MovedBy(a, b, lo, hi, o)
  PROVE  WithinCone(b, eps, m, lo + o, hi + o)
<1>0. \A i \in lo..hi-1 : b[i + o] = a[i]
  BY DEF MovedBy
<1> SUFFICES ASSUME NEW i \in lo+o..hi+o-1, b[i] # b[lo + o]
             PROVE  /\ AtMost(<<i - (lo + o) - eps, b[i] - b[lo + o]>>, m)
                    /\ AtMost(m, <<i - (lo + o) + eps, b[i] - b[lo + o]>>)
  BY DEF WithinCone
<1> DEFINE j == i - o
<1>1. j \in lo..hi-1 /\ lo \in lo..hi-1 /\ j + o = i
  OBVIOUS
<1>2. b[i] = a[j] /\ b[lo + o] = a[lo]
  BY <1>0, <1>1
<1>3. j - lo - eps = i - (lo + o) - eps /\ j - lo + eps = i - (lo + o) + eps
  OBVIOUS
<1> HIDE DEF j
<1>4. /\ AtMost(<<j - lo - eps, a[j] - a[lo]>>, m)
      /\ AtMost(m, <<j - lo + eps, a[j] - a[lo]>>)
  BY <1>1, <1>2 DEF WithinCone
<1> QED BY <1>2, <1>3, <1>4

(* The leaves that replace a leaf take its place and are good leaves.      *)
LEMMA ResegmentOK ==
  ASSUME WindowsInv, keys # <<>>, NEW l \in Segment, 0 <= l.pos_lo,
         l.pos_lo < l.pos_hi, l.pos_hi <= Size(keys)
  PROVE  LET r == Resegment(l)
         IN /\ r \in Seq(Segment) /\ Tiles(r, l.pos_lo, l.pos_hi)
            /\ \A s \in 1..Len(r) : LeafOK(keys, cached_eps, r[s])
<1> DEFINE n == l.pos_hi - l.pos_lo
           o == l.pos_lo
           a == Slice(l)
           segs == pgm_build(a, cached_eps)
           c == CalibrateAll(segs, a, short)
           r == Resegment(l)
<1>1. /\ n \in Nat \ {0} /\ n <= MaxKeys /\ a \in [0..n-1 -> Int]
      /\ Ascending(a, n) /\ \A i \in 0..n-1 : a[i] = keys[o + i]
  BY SliceFacts
<1>2. /\ o \in Nat /\ l.pos_hi = n + o /\ cached_eps \in Nat /\ short \in BOOLEAN
      /\ MaxKeys \in Nat /\ Epsilon \in Nat /\ MaxErrs \in Nat
  BY SegmentTypes, BoundsAssumption DEF WindowsInv
<1>3. r = [s \in DOMAIN c |->
             [c[s] EXCEPT !.pos_lo = c[s].pos_lo + o, !.pos_hi = c[s].pos_hi + o]]
  BY DEF Resegment
<1> HIDE DEF n, o, a, r
<1>4. Segments(a, cached_eps, n, segs)
  BY <1>1, <1>2, PgmBuildFits
<1> HIDE DEF segs
<1>5. Calibrated(c, segs, n)
  BY <1>1, <1>2, <1>4, CalibrateAllFacts
<1> HIDE DEF c
<1>6. /\ segs \in Seq(Segment) /\ Tiles(segs, 0, n)
      /\ \A s \in 1..Len(segs) : Fits(a, cached_eps, n, segs[s])
  BY <1>4 DEF Segments
<1>7. /\ c \in Seq(Segment) /\ Len(c) = Len(segs) /\ Tiles(c, 0, n)
      /\ \A s \in 1..Len(c) : c[s] \in Segment
  BY <1>5 DEF Calibrated
<1>8. /\ r \in Seq(Segment) /\ Len(r) = Len(c)
      /\ \A s \in 1..Len(c) :
           /\ r[s].slope = c[s].slope /\ r[s].k0 = c[s].k0 /\ r[s].i0 = c[s].i0
           /\ r[s].pos_lo = c[s].pos_lo + o /\ r[s].pos_hi = c[s].pos_hi + o
           /\ r[s].bias = c[s].bias /\ r[s].seg_eps = c[s].seg_eps
           /\ r[s].seg_errs = c[s].seg_errs
  <2>1. \A s \in 1..Len(c) :
          [c[s] EXCEPT !.pos_lo = c[s].pos_lo + o, !.pos_hi = c[s].pos_hi + o] \in Segment
    <3>1. ASSUME NEW x \in Segment, NEW p \in Int, NEW q \in Int
          PROVE  [x EXCEPT !.pos_lo = p, !.pos_hi = q] \in Segment
      BY DEF Segment
    <3>2. \A s \in 1..Len(c) : c[s].pos_lo + o \in Int /\ c[s].pos_hi + o \in Int
      BY <1>2, <1>7, SegmentTypes
    <3> QED BY <1>7, <3>1, <3>2
  <2>2. DOMAIN c = 1..Len(c) /\ Len(c) \in Nat
    BY <1>7
  <2>3. r \in [1..Len(c) -> Segment]
    BY <1>3, <2>1, <2>2
  <2>4. r \in Seq(Segment) /\ Len(r) = Len(c)
    BY <2>2, <2>3
  <2>5. \A s \in 1..Len(c) :
          r[s] = [c[s] EXCEPT !.pos_lo = c[s].pos_lo + o, !.pos_hi = c[s].pos_hi + o]
    BY <1>3, <2>2
  <2> QED BY <1>7, <2>4, <2>5 DEF Segment
<1>9. Tiles(r, o, n + o)
  <2>1. Tiles(r, 0 + o, n + o)
    BY <1>1, <1>2, <1>7, <1>8, TilesMoved
  <2> QED BY <1>2, <2>1
<1>10. ASSUME NEW s \in 1..Len(r) PROVE LeafOK(keys, cached_eps, r[s])
  <2> DEFINE lo == c[s].pos_lo
             hi == c[s].pos_hi
  <2>1. /\ Fits(a, cached_eps, n, segs[s])
        /\ c[s].slope = segs[s].slope /\ c[s].k0 = segs[s].k0
        /\ c[s].i0 = segs[s].i0
        /\ lo = segs[s].pos_lo /\ hi = segs[s].pos_hi
        /\ c[s].seg_errs = segs[s].seg_errs
        /\ c[s].bias \in -n..n /\ c[s].seg_eps \in 1..n
    BY <1>5, <1>6, <1>7, <1>8 DEF Calibrated
  <2>2. /\ c[s].slope \in Ratio /\ c[s].k0 = a[lo] /\ c[s].i0 = lo
        /\ 0 <= lo /\ hi <= n /\ c[s].seg_errs = 0
        /\ WithinCone(a, cached_eps, c[s].slope, lo, hi)
    BY <2>1 DEF Fits
  <2>3. lo \in Int /\ hi \in Int /\ lo < hi
    BY <1>7, <1>8, SegmentTypes DEF Tiles
  <2> HIDE DEF lo, hi
  <2>4. \A i \in lo..hi-1 : i \in 0..n-1 /\ a[i] = keys[i + o]
    <3>1. \A i \in lo..hi-1 : i \in 0..n-1 /\ o + i = i + o
      BY <1>1, <1>2, <2>2, <2>3
    <3> QED BY <1>1, <3>1
  <2>5. WithinCone(keys, cached_eps, c[s].slope, lo + o, hi + o)
    <3>1. MovedBy(a, keys, lo, hi, o)
      BY <2>4 DEF MovedBy
    <3>2. o \in Int /\ cached_eps \in Int
      BY <1>2
    <3> QED BY ONLY <2>2, <2>3, <3>1, <3>2, WithinConeMoved
  <2>6. /\ r[s].slope = c[s].slope /\ r[s].k0 = c[s].k0 /\ r[s].i0 = c[s].i0
        /\ r[s].pos_lo = lo + o /\ r[s].pos_hi = hi + o
        /\ r[s].bias = c[s].bias /\ r[s].seg_eps = c[s].seg_eps
        /\ r[s].seg_errs = c[s].seg_errs
    BY <1>8 DEF lo, hi
  <2>7. r[s].k0 = keys[r[s].pos_lo] /\ 0 <= r[s].i0 /\ r[s].i0 <= r[s].pos_lo
    BY <1>2, <2>2, <2>3, <2>4, <2>6
  <2>8. r[s].bias \in -MaxKeys..MaxKeys /\ r[s].seg_eps \in 1..MaxKeys + Epsilon + 4
    <3>1. c[s].bias \in -n..n /\ c[s].seg_eps \in 1..n
      BY <2>1
    <3> DEFINE b == c[s].bias
               e == c[s].seg_eps
    <3>2. n \in Nat /\ n <= MaxKeys /\ MaxKeys \in Nat /\ Epsilon \in Nat
      BY <1>1, <1>2
    <3>3. b \in -n..n /\ e \in 1..n
      BY <3>1
    <3> HIDE DEF b, e
    <3>4. b \in -MaxKeys..MaxKeys /\ e \in 1..MaxKeys + Epsilon + 4
      BY ONLY <3>2, <3>3
    <3> QED BY <2>6, <3>4 DEF b, e
  <2>9. r[s].seg_errs \in 0..MaxErrs
    BY <1>2, <2>2, <2>6
  <2> QED BY <2>2, <2>5, <2>6, <2>7, <2>8, <2>9 DEF LeafOK
<1> QED BY <1>2, <1>8, <1>9, <1>10 DEF r, o

-----------------------------------------------------------------------------
(* A leaf with half its error count.                                       *)
Half(l) == [l EXCEPT !.seg_errs = l.seg_errs \div 2]

LEMMA HalfFacts ==
  ASSUME NEW l \in Segment
  PROVE  /\ Half(l) \in Segment /\ Same(l, Half(l))
         /\ Half(l).seg_eps = l.seg_eps
         /\ Half(l).seg_errs = l.seg_errs \div 2
<1>1. l.seg_errs \div 2 \in Int
  BY SegmentTypes
<1> DEFINE h == l.seg_errs \div 2
<1> HIDE DEF h
<1>2. h \in Int /\ Half(l) = [l EXCEPT !.seg_errs = h]
  BY <1>1 DEF Half, h
<1>3. /\ Half(l) \in Segment /\ Same(l, Half(l))
      /\ Half(l).seg_eps = l.seg_eps /\ Half(l).seg_errs = h
  BY <1>2 DEF Segment, Same
<1> QED BY <1>3 DEF h

(* The error counts of good leaves may be halved.                          *)
LEMMA HalvedOK ==
  ASSUME NEW a, NEW eps, NEW segs, LeavesOK(a, eps, segs)
  PROVE  /\ LeavesOK(a, eps, Halved(segs)) /\ Len(Halved(segs)) = Len(segs)
         /\ \A s \in 1..Len(segs) : Halved(segs)[s] = Half(segs[s])
<1> DEFINE n == Len(segs)
           h == Halved(segs)
<1>1. /\ segs \in Seq(Segment) /\ n \in Nat /\ n >= 1 /\ Tiles(segs, 0, Size(a))
      /\ DOMAIN segs = 1..n /\ \A s \in 1..n : segs[s] \in Segment /\ LeafOK(a, eps, segs[s])
  BY DEF LeavesOK
<1>2. h = [s \in 1..n |-> Half(segs[s])]
  BY <1>1 DEF Halved, Half
<1> HIDE DEF h, n
<1>3. \A s \in 1..n :
        /\ Half(segs[s]) \in Segment /\ Same(segs[s], Half(segs[s]))
        /\ Half(segs[s]).seg_eps = segs[s].seg_eps
        /\ Half(segs[s]).seg_errs = segs[s].seg_errs \div 2
  BY <1>1, HalfFacts
<1>4. h \in Seq(Segment) /\ Len(h) = n /\ \A s \in 1..n : h[s] = Half(segs[s])
  <2>1. \A s \in 1..n : Half(segs[s]) \in Segment
    BY <1>3
  <2>2. h \in [1..n -> Segment]
    BY <1>2, <2>1
  <2> QED BY <1>1, <1>2, <2>2
<1>5. Tiles(h, 0, Size(a))
  <2>1. \A s \in 1..n-1 : s \in 1..n /\ s+1 \in 1..n
    BY <1>1
  <2>2. 1 \in 1..n /\ n \in 1..n
    BY <1>1
  <2> QED BY <1>1, <1>3, <1>4, <2>1, <2>2 DEF Tiles, Same, n
<1>6. ASSUME NEW s \in 1..n PROVE LeafOK(a, eps, h[s])
  <2>1. segs[s].seg_errs \div 2 \in 0..MaxErrs
    <3>1. segs[s].seg_errs \in 0..MaxErrs /\ MaxErrs \in Nat
      BY <1>1, BoundsAssumption DEF LeafOK
    <3> QED BY <3>1
  <2>2. /\ LeafOK(a, eps, segs[s]) /\ Same(segs[s], h[s])
        /\ h[s].seg_eps = segs[s].seg_eps /\ h[s].seg_errs \in 0..MaxErrs
    BY <1>1, <1>3, <1>4, <2>1
  <2> QED BY <2>2 DEF LeafOK, Same
<1> QED BY <1>1, <1>4, <1>5, <1>6 DEF LeavesOK, h, n

(* What a partial repair puts in the place of a leaf.                      *)
Piece(l) == IF IsHot(l) THEN Resegment(l) ELSE <<l>>

LEMMA PieceOK ==
  ASSUME WindowsInv, keys # <<>>, NEW l \in Segment, LeafOK(keys, cached_eps, l),
         0 <= l.pos_lo, l.pos_lo < l.pos_hi, l.pos_hi <= Size(keys)
  PROVE  /\ Piece(l) \in Seq(Segment) /\ Tiles(Piece(l), l.pos_lo, l.pos_hi)
         /\ \A s \in 1..Len(Piece(l)) : LeafOK(keys, cached_eps, Piece(l)[s])
<1>1. CASE IsHot(l)
  BY <1>1, ResegmentOK DEF Piece
<1>2. CASE ~IsHot(l)
  <2>1. Piece(l) = <<l>> /\ <<l>> \in Seq(Segment) /\ Len(<<l>>) = 1 /\ <<l>>[1] = l
    BY <1>2 DEF Piece
  <2> QED BY <2>1 DEF Tiles
<1> QED BY <1>1, <1>2

(* A partial repair makes good leaves, and keeps those that are not hot.   *)
LEMMA SpliceOK ==
  ASSUME WindowsInv, keys # <<>>, NEW segs, LeavesOK(keys, cached_eps, segs)
  PROVE  /\ LeavesOK(keys, cached_eps, Splice(segs))
         /\ \A s \in 1..Len(segs) : ~IsHot(segs[s]) =>
              \E t \in 1..Len(Splice(segs)) : Splice(segs)[t] = Half(segs[s])
<1> DEFINE n == Len(segs)
           pieces == [s \in DOMAIN segs |-> Piece(segs[s])]
           flat == FlattenSeq(pieces)
           cut == [i \in 0..n |-> IF i = 0 THEN 0 ELSE segs[i].pos_hi]
<1>1. /\ segs \in Seq(Segment) /\ n \in Nat /\ n >= 1 /\ DOMAIN segs = 1..n
      /\ Tiles(segs, 0, Size(keys)) /\ Size(keys) \in Int
      /\ \A s \in 1..n : segs[s] \in Segment /\ LeafOK(keys, cached_eps, segs[s])
  BY ArrayFacts DEF LeavesOK, WindowsInv
<1>2. \A s \in 1..n : /\ 0 <= segs[s].pos_lo /\ segs[s].pos_lo < segs[s].pos_hi
                      /\ segs[s].pos_hi <= Size(keys)
                      /\ segs[s].pos_lo \in Int /\ segs[s].pos_hi \in Int
  <2>1. \A s \in 1..n : 0 <= segs[s].pos_lo /\ segs[s].pos_hi <= Size(keys)
    BY <1>1, TilesOrdered
  <2> QED BY <1>1, <2>1, SegmentTypes DEF Tiles
<1>3. Splice(segs) = Halved(flat)
  BY DEF Splice, Piece
<1>4. \A s \in 1..n :
        /\ Piece(segs[s]) \in Seq(Segment)
        /\ Tiles(Piece(segs[s]), segs[s].pos_lo, segs[s].pos_hi)
        /\ \A i \in 1..Len(Piece(segs[s])) : LeafOK(keys, cached_eps, Piece(segs[s])[i])
  BY <1>1, <1>2, PieceOK
<1>5. /\ pieces \in Seq(Seq(Segment)) /\ Len(pieces) = n
      /\ \A s \in 1..n : pieces[s] = Piece(segs[s])
  <2>1. pieces \in [1..n -> Seq(Segment)]
    BY <1>1, <1>4
  <2> QED BY <1>1, <2>1
<1>6. cut \in [0..n -> Int] /\ cut[0] = 0 /\ cut[n] = Size(keys)
  <2>1. \A i \in 0..n : i # 0 => i \in 1..n
    BY <1>1
  <2>2. n # 0 /\ n \in 0..n /\ 0 \in 0..n /\ segs[n].pos_hi = Size(keys)
    BY <1>1 DEF Tiles
  <2> HIDE DEF n
  <2> QED BY <1>2, <2>1, <2>2
<1>7. \A s \in 1..n : cut[s-1] = segs[s].pos_lo /\ cut[s] = segs[s].pos_hi
  <2>1. \A s \in 1..n : s \in 0..n /\ s - 1 \in 0..n /\ s # 0
    BY <1>1
  <2>2. segs[1].pos_lo = 0
    BY <1>1 DEF Tiles
  <2>3. \A s \in 1..n : s - 1 # 0 => segs[s-1].pos_hi = segs[s].pos_lo
    <3> SUFFICES ASSUME NEW s \in 1..n, s - 1 # 0 PROVE segs[s-1].pos_hi = segs[s].pos_lo
      OBVIOUS
    <3>1. s - 1 \in 1..n-1 /\ (s - 1) + 1 = s
      BY <1>1
    <3> QED BY <1>1, <3>1 DEF Tiles
  <2>4. \A s \in 1..n : s - 1 = 0 => s = 1
    OBVIOUS
  <2> HIDE DEF n
  <2> QED BY <2>1, <2>2, <2>3, <2>4
<1> HIDE DEF pieces, cut, flat
<1>8. flat \in Seq(Segment) /\ Tiles(flat, 0, Size(keys))
  <2>1. \A i \in 1..Len(pieces) : Tiles(pieces[i], cut[i-1], cut[i])
    BY <1>4, <1>5, <1>7
  <2>2. cut \in [0..Len(pieces) -> Int] /\ Len(pieces) >= 1
    BY <1>1, <1>5, <1>6
  <2>3. flat \in Seq(Segment) /\ Tiles(flat, cut[0], cut[Len(pieces)])
    BY <1>5, <2>1, <2>2, FlattenTiles DEF flat
  <2> QED BY <1>5, <1>6, <2>3
<1>9. /\ \A i \in 1..n : \A s \in 1..Len(pieces[i]) :
           \E t \in 1..Len(flat) : flat[t] = pieces[i][s]
      /\ \A t \in 1..Len(flat) :
           \E i \in 1..n : \E s \in 1..Len(pieces[i]) : flat[t] = pieces[i][s]
  <2>1. Len(pieces) >= 1
    BY <1>1, <1>5
  <2>2. /\ \A i \in 1..Len(pieces) : \A s \in 1..Len(pieces[i]) :
             \E t \in 1..Len(FlattenSeq(pieces)) : FlattenSeq(pieces)[t] = pieces[i][s]
        /\ \A t \in 1..Len(FlattenSeq(pieces)) :
             \E i \in 1..Len(pieces) : \E s \in 1..Len(pieces[i]) :
               FlattenSeq(pieces)[t] = pieces[i][s]
    BY ONLY <1>5, <2>1, FlattenMembers
  <2> QED BY <1>5, <2>2 DEF flat
<1>10. ASSUME NEW t \in 1..Len(flat) PROVE LeafOK(keys, cached_eps, flat[t])
  <2>1. PICK i \in 1..n : \E s \in 1..Len(pieces[i]) : flat[t] = pieces[i][s]
    BY <1>9
  <2>2. PICK s \in 1..Len(Piece(segs[i])) : flat[t] = Piece(segs[i])[s]
    BY <1>5, <2>1
  <2> QED BY <1>4, <2>2
<1>11. Len(flat) >= 1
  <2>1. Len(flat) \in Nat /\ Size(keys) # 0
    BY <1>2, <1>8, <1>1
  <2> QED BY <1>8, <2>1 DEF Tiles
<1>12. LeavesOK(keys, cached_eps, flat)
  BY <1>8, <1>10, <1>11 DEF LeavesOK
<1>13. /\ LeavesOK(keys, cached_eps, Splice(segs)) /\ Len(Splice(segs)) = Len(flat)
       /\ \A t \in 1..Len(flat) : Splice(segs)[t] = Half(flat[t])
  BY <1>3, <1>12, HalvedOK
<1>14. ASSUME NEW s \in 1..n, ~IsHot(segs[s])
       PROVE  \E t \in 1..Len(Splice(segs)) : Splice(segs)[t] = Half(segs[s])
  <2>1. pieces[s] = <<segs[s]>>
    BY <1>5, <1>14 DEF Piece
  <2>2. 1 \in 1..Len(pieces[s]) /\ pieces[s][1] = segs[s]
    BY <2>1
  <2>3. PICK t \in 1..Len(flat) : flat[t] = segs[s]
    BY <1>9, <2>2
  <2> QED BY <1>13, <2>3
<1> QED BY <1>13, <1>14 DEF n

-----------------------------------------------------------------------------
LEMMA CountBounds ==
  WindowsInv => /\ NextQuery \in 0..DecayEvery-1 /\ 0 \in 0..DecayEvery-1
                /\ cached_eps \in 1..64
BY BoundsAssumption DEF WindowsInv, NextQuery

LEMMA KeysAreNat == WindowsInv => Stored \cup NewKeys \subseteq Nat
<1> SUFFICES ASSUME WindowsInv PROVE Stored \cup NewKeys \subseteq Nat
  OBVIOUS
<1>1. keys \in [0..Size(keys)-1 -> Nat]
  BY ArrayFacts DEF WindowsInv
<1> QED BY <1>1, KeysAssumption DEF Stored

LEMMA BuiltFacts ==
  ASSUME WindowsInv, keys # <<>>
  PROVE  /\ IsArray(keys) /\ LeavesOK(keys, cached_eps, leaves)
         /\ cached_eps \in 1..Epsilon
BY DEF WindowsInv

LEMMA PartialRepairInv ==
  ASSUME WindowsInv, keys # <<>>, NEW segs, LeavesOK(keys, cached_eps, segs),
         PartialRepair(segs)
  PROVE  WindowsInv'
<1>1. CASE \E s \in DOMAIN segs : IsHot(segs[s])
  <2>1. /\ leaves' = Splice(segs) /\ queries' = 0 /\ fresh' = FALSE
        /\ keys' = keys /\ cached_eps' = cached_eps /\ short' = short
    BY <1>1 DEF PartialRepair
  <2>2. LeavesOK(keys, cached_eps, Splice(segs))
    BY SpliceOK
  <2> QED BY <2>1, <2>2, BuiltFacts, CountBounds DEF WindowsInv
<1>2. CASE ~\E s \in DOMAIN segs : IsHot(segs[s])
  <2>1. Rebuild(keys, cached_eps)
    BY <1>2 DEF PartialRepair
  <2> QED BY <2>1, BuiltFacts, RebuildInv
<1> QED BY <1>1, <1>2

LEMMA ModelLookupInv ==
  ASSUME WindowsInv, NEW k \in Nat, model_lookup(k)
  PROVE  WindowsInv'
<1>1. /\ keys # <<>> /\ leaves' \in Searched(k)
      /\ queries' = IF Hits(k) # {} \/ TrackMisses THEN NextQuery ELSE queries
      /\ fresh' = (fresh /\ Hits(k) = {})
      /\ keys' = keys /\ cached_eps' = cached_eps /\ short' = short
  BY DEF model_lookup
<1>2. LeavesOK(keys, cached_eps, leaves')
  BY <1>1, SearchedOK
<1>3. queries' \in 0..DecayEvery-1
  BY <1>1, CountBounds DEF WindowsInv
<1> QED BY <1>1, <1>2, <1>3, BuiltFacts DEF WindowsInv

LEMMA LookupInv ==
  ASSUME WindowsInv, NEW k \in Nat, lookup(k)
  PROVE  WindowsInv'
<1>1. CASE model_lookup(k)
  BY <1>1, ModelLookupInv
<1>2. ASSUME keys # <<>>, NEW segs \in Searched(k), PartialRepair(segs)
      PROVE  WindowsInv'
  BY <1>2, SearchedOK, PartialRepairInv
<1>3. CASE keys # <<>> /\ Rebuild(keys, cached_eps)
  BY <1>3, BuiltFacts, RebuildInv
<1> QED BY <1>1, <1>2, <1>3 DEF lookup

LEMMA NextInv == WindowsInv /\ [Next]_vars => WindowsInv'
<1> SUFFICES ASSUME WindowsInv, [Next]_vars PROVE WindowsInv'
  OBVIOUS
<1>1. CASE build
  <2>1. PICK a \in Arrays : Rebuild(a, Epsilon)
    BY <1>1 DEF build
  <2>2. Epsilon \in 1..Epsilon
    BY BoundsAssumption
  <2> QED BY <2>1, <2>2, KeysAssumption, RebuildInv
<1>2. CASE flush_buffer
  <2>1. PICK k \in NewKeys : Rebuild(Merge(keys, k), cached_eps)
    BY <1>2 DEF flush_buffer
  <2>2. keys # <<>> /\ Size(keys) < MaxKeys /\ k \in Nat
    BY <1>2, KeysAssumption DEF flush_buffer
  <2>3. IsArray(Merge(keys, k)) /\ Merge(keys, k) # <<>>
    BY <2>2, BuiltFacts, MergeIsArray
  <2> QED BY <2>1, <2>2, <2>3, BuiltFacts, RebuildInv
<1>3. CASE force_rebuild
  BY <1>3, BuiltFacts, RebuildInv DEF force_rebuild
<1>4. CASE force_repair
  BY <1>4, BuiltFacts, PartialRepairInv DEF force_repair
<1>5. ASSUME NEW k \in Stored \cup NewKeys, lookup(k) PROVE WindowsInv'
  BY <1>5, KeysAreNat, LookupInv
<1>6. ASSUME NEW k \in Stored \cup NewKeys, lookup_hint(k) PROVE WindowsInv'
  <2>1. CASE model_lookup(k)
    BY <2>1, KeysAreNat, ModelLookupInv
  <2>2. CASE UNCHANGED vars
    BY <2>2 DEF vars, WindowsInv
  <2> QED BY <1>6, <2>1, <2>2 DEF lookup_hint
<1>7. CASE UNCHANGED vars
  BY <1>7 DEF vars, WindowsInv
<1> QED BY <1>1, <1>2, <1>3, <1>4, <1>5, <1>6, <1>7 DEF Next

(* In every reachable state the leaves are good ones for the keys.         *)
THEOREM InductiveInvariant == Spec => []WindowsInv
<1> QED BY InitInv, NextInv, PTL DEF Spec

-----------------------------------------------------------------------------
(* The types hold; in particular no window is ever empty, whatever hits,   *)
(* decays and repairs do to it.                                            *)
THEOREM TypeCorrect == Spec => []TypeOK
<1>1. WindowsInv => TypeOK
  <2> SUFFICES ASSUME WindowsInv PROVE TypeOK
    OBVIOUS
  <2>1. ASSUME NEW s \in DOMAIN leaves PROVE IsLeaf(leaves[s])
    <3>1. keys # <<>>
      BY DEF WindowsInv
    <3>2. s \in 1..Len(leaves)
      BY <3>1, BuiltFacts DEF LeavesOK
    <3> DEFINE l == leaves[s]
    <3>3. /\ l \in Segment /\ LeafOK(keys, cached_eps, l)
          /\ 0 <= l.pos_lo /\ l.pos_lo < l.pos_hi /\ l.pos_hi <= Size(keys)
      BY <3>1, <3>2, LeafFacts
    <3> HIDE DEF l
    <3>4. /\ Size(keys) \in 0..MaxKeys /\ MaxKeys \in Nat
          /\ keys \in [0..Size(keys)-1 -> Nat]
      BY <3>1, BuiltFacts, ArrayFacts
    <3>5. l.pos_lo \in Int /\ l.pos_hi \in Int /\ l.i0 \in Int
      BY <3>3, SegmentTypes
    <3>6. l.pos_lo \in 0..MaxKeys /\ l.pos_hi \in 1..MaxKeys
      BY <3>3, <3>4, <3>5
    <3>7. l.i0 \in 0..MaxKeys
      BY <3>3, <3>4, <3>5 DEF LeafOK
    <3>8. l.k0 \in Nat
      <4>1. l.pos_lo \in 0..Size(keys)-1
        BY <3>3, <3>4, <3>5
      <4> QED BY <3>3, <3>4, <4>1 DEF LeafOK
    <3>9. l.slope[1] \in Int /\ l.slope[2] \in Nat \ {0}
      BY <3>3 DEF LeafOK, Ratio
    <3> QED BY <3>3, <3>6, <3>7, <3>8, <3>9 DEF LeafOK, IsLeaf, l
  <2> QED BY <2>1 DEF WindowsInv, TypeOK
<1> QED BY <1>1, InductiveInvariant, PTL

(* However often hot leaves are segmented anew and spliced in, the leaves  *)
(* cut the keys into consecutive parts that are not empty.                 *)
THEOREM LeavesTile == Spec => []LeavesTileKeys
<1>1. WindowsInv => LeavesTileKeys
  <2> SUFFICES ASSUME WindowsInv, keys # <<>>
               PROVE  /\ leaves # <<>>
                      /\ leaves[1].pos_lo = 0
                      /\ leaves[Len(leaves)].pos_hi = Size(keys)
                      /\ \A s \in DOMAIN leaves : leaves[s].pos_lo < leaves[s].pos_hi
                      /\ \A s \in 1..Len(leaves)-1 :
                           leaves[s].pos_hi = leaves[s+1].pos_lo
    BY DEF LeavesTileKeys
  <2>1. leaves \in Seq(Segment) /\ Len(leaves) >= 1 /\ Tiles(leaves, 0, Size(keys))
    BY BuiltFacts DEF LeavesOK
  <2> QED BY <2>1 DEF Tiles
<1> QED BY <1>1, InductiveInvariant, PTL

(* The line of every leaf, of a rebuild or of a repair, passes within      *)
(* cached_eps_ of every key of the leaf that differs from its first.       *)
THEOREM LinesNear == Spec => []LinesWithinEps
<1>1. WindowsInv => LinesWithinEps
  <2> SUFFICES ASSUME WindowsInv, NEW s \in DOMAIN leaves,
                      NEW i \in leaves[s].pos_lo..leaves[s].pos_hi-1,
                      keys # <<>>, keys[i] # keys[leaves[s].pos_lo]
               PROVE  Distance(Line(leaves[s], keys[i], short)
                                 + (leaves[s].pos_lo - leaves[s].i0), i)
                        <= IF short THEN cached_eps + 1 ELSE cached_eps
    BY DEF LinesWithinEps
  <2> DEFINE l == leaves[s]
             n == Size(keys)
             p == Line(l, keys[i], short)
             j == i - l.pos_lo
  <2>1. s \in 1..Len(leaves)
    BY BuiltFacts DEF LeavesOK
  <2>2. /\ l \in Segment /\ LeafOK(keys, cached_eps, l)
        /\ 0 <= l.pos_lo /\ l.pos_lo < l.pos_hi /\ l.pos_hi <= n
    BY <2>1, LeafFacts
  <2>3. n \in Nat /\ keys \in [0..n-1 -> Nat] /\ Ascending(keys, n)
    BY BuiltFacts, ArrayFacts
  <2>4. /\ l.slope \in Ratio /\ l.k0 = keys[l.pos_lo]
        /\ WithinCone(keys, cached_eps, l.slope, l.pos_lo, l.pos_hi)
    BY <2>2 DEF LeafOK
  <2>5. /\ l.pos_lo \in Int /\ l.pos_hi \in Int /\ l.i0 \in Int
        /\ cached_eps \in Nat /\ short \in BOOLEAN
    BY <2>2, SegmentTypes, CountBounds DEF WindowsInv
  <2>6. /\ AtMost(<<i - l.pos_lo - cached_eps, keys[i] - keys[l.pos_lo]>>, l.slope)
        /\ AtMost(l.slope, <<i - l.pos_lo + cached_eps, keys[i] - keys[l.pos_lo]>>)
    BY <2>4 DEF WithinCone
  <2> HIDE DEF l, n
  <2>7. /\ keys[i] \in Nat /\ l.k0 \in Nat /\ keys[i] - l.k0 > 0
        /\ i \in Int
    <3>1. i \in l.pos_lo..l.pos_hi-1 /\ keys[i] # keys[l.pos_lo]
      BY DEF l
    <3>2. i \in 0..n-1 /\ l.pos_lo \in 0..n-1 /\ l.pos_lo <= i
      BY <2>2, <2>3, <2>5, <3>1
    <3>3. keys[l.pos_lo] <= keys[i] /\ keys[i] \in Nat /\ keys[l.pos_lo] \in Nat
      BY <2>3, <3>2 DEF Ascending
    <3> QED BY <2>4, <3>1, <3>2, <3>3
  <2>8. j \in Int
    BY <2>5, <2>7
  <2>9. AtMost(<<j - cached_eps, keys[i] - l.k0>>, l.slope) /\
        AtMost(l.slope, <<j + cached_eps, keys[i] - l.k0>>)
    BY <2>4, <2>6
  <2> HIDE DEF j
  <2>10. /\ p <= l.i0 + j + cached_eps
         /\ p >= l.i0 + j - cached_eps - (IF short THEN 1 ELSE 0)
    <3> DEFINE k == keys[i]
    <3>1. k \in Int /\ k - l.k0 > 0
      BY <2>7
    <3>2. /\ AtMost(<<j - cached_eps, k - l.k0>>, l.slope)
          /\ AtMost(l.slope, <<j + cached_eps, k - l.k0>>)
      BY <2>9
    <3> HIDE DEF k
    <3>3. /\ Line(l, k, short) <= l.i0 + j + cached_eps
          /\ Line(l, k, short) >= l.i0 + j - cached_eps - (IF short THEN 1 ELSE 0)
      BY ONLY <2>2, <2>4, <2>5, <2>8, <3>1, <3>2, LineNear
    <3> QED BY <3>3 DEF k, p
  <2>11. p \in Int
    <3>1. keys[i] \in Int
      BY <2>7
    <3> QED BY ONLY <2>2, <2>4, <2>5, <3>1, LineType DEF p
  <2> HIDE DEF p
  <2>12. Distance(p + (l.pos_lo - l.i0), i)
           <= IF short THEN cached_eps + 1 ELSE cached_eps
    <3>1. l.pos_lo + j = i
      BY <2>5, <2>7 DEF j
    <3>2. CASE short
      <4>1. p >= l.i0 + j - cached_eps - 1
        BY <2>10, <3>2
      <4>2. p <= l.i0 + j + cached_eps
        BY <2>10
      <4>3. Distance(p + (l.pos_lo - l.i0), i) <= cached_eps + 1
        BY ONLY <2>5, <2>7, <2>8, <2>11, <3>1, <4>1, <4>2 DEF Distance
      <4> QED BY <3>2, <4>3
    <3>3. CASE ~short
      <4>1. p >= l.i0 + j - cached_eps
        BY <2>5, <2>8, <2>10, <2>11, <3>3
      <4>2. p <= l.i0 + j + cached_eps
        BY <2>10
      <4>3. Distance(p + (l.pos_lo - l.i0), i) <= cached_eps
        BY ONLY <2>5, <2>7, <2>8, <2>11, <3>1, <4>1, <4>2 DEF Distance
      <4> QED BY <3>3, <4>3
    <3> QED BY <3>2, <3>3
  <2> QED BY <2>12 DEF p, l
<1> QED BY <1>1, InductiveInvariant, PTL

-----------------------------------------------------------------------------
(* Routing and search in the leaves segs of an array a.                    *)
OwnerIn(a, segs, k) ==
  Max({1} \cup {s \in DOMAIN segs : a[segs[s].pos_lo] <= k})

HitsIn(a, l, c, k) ==
  LET wlo == Max({l.pos_lo, c - l.seg_eps})
      past == Min({c + l.seg_eps + 1, l.pos_hi - 1})
  IN IF a[c] = k THEN {c} ELSE {pos \in wlo..past : a[pos] = k}

FoundIn(a, segs, k, b) ==
  LET l == segs[OwnerIn(a, segs, k)] IN HitsIn(a, l, PredictBiased(l, k, b), k)

LEMMA FindableIs ==
  /\ \A k : Owner(k) = OwnerIn(keys, leaves, k)
            /\ Hits(k) = FoundIn(keys, leaves, k, short)
  /\ Findable = {k \in Stored : FoundIn(keys, leaves, k, short) # {}}
  /\ Findable' = {k \in Stored' : FoundIn(keys', leaves', k, short') # {}}
BY DEF Findable, Hits, Center, Owner, seg_key, OwnerIn, HitsIn, FoundIn

(* The owner is the leaf that starts at or before the key, when all leaves *)
(* behind it start after the key.                                          *)
LEMMA OwnerInIs ==
  ASSUME NEW a, NEW k, NEW segs \in Seq(Segment), NEW t \in 1..Len(segs),
         a[segs[t].pos_lo] <= k,
         \A u \in 1..Len(segs) : a[segs[u].pos_lo] <= k => u <= t
  PROVE  OwnerIn(a, segs, k) = t
<1> DEFINE n == Len(segs)
           T == {1} \cup {s \in DOMAIN segs : a[segs[s].pos_lo] <= k}
<1>1. n \in Nat /\ DOMAIN segs = 1..n /\ t \in 1..n /\ 1 <= t
  OBVIOUS
<1>2. T \subseteq 1..n /\ T # {} /\ 1 \in Int /\ n \in Int /\ t \in T
      /\ \A u \in T : u <= t
  BY <1>1
<1>3. Max(T) \in T /\ \A u \in T : u <= Max(T)
  <2> HIDE DEF T, n
  <2> QED BY <1>2, MaxOfInterval
<1>4. OwnerIn(a, segs, k) = Max(T)
  BY DEF OwnerIn
<1> DEFINE m == Max(T)
<1> HIDE DEF m, T, n
<1>5. m \in T /\ \A u \in T : u <= m
  BY <1>3 DEF m
<1>6. m <= t /\ t <= m /\ m \in 1..n
  BY ONLY <1>2, <1>5
<1>7. m = t
  BY ONLY <1>1, <1>6
<1> QED BY <1>4, <1>7 DEF m

(* A leaf of which the window alone changes predicts as before, and what a *)
(* window finds a wider one finds.                                         *)
LEMMA SamePrediction ==
  ASSUME NEW l, NEW m, Same(l, m), NEW k, NEW b
  PROVE  PredictBiased(m, k, b) = PredictBiased(l, k, b)
BY DEF Same, PredictBiased, Line

LEMMA HitsGrow ==
  ASSUME NEW l \in Segment, NEW m \in Segment, Same(l, m),
         m.seg_eps >= l.seg_eps, NEW a, NEW c \in Int, NEW k
  PROVE  HitsIn(a, l, c, k) \subseteq HitsIn(a, m, c, k)
<1> DEFINE lo(x) == Max({x.pos_lo, c - x.seg_eps})
           past(x) == Min({c + x.seg_eps + 1, x.pos_hi - 1})
<1>1. /\ m.pos_lo = l.pos_lo /\ m.pos_hi = l.pos_hi
      /\ l.pos_lo \in Int /\ l.pos_hi \in Int
      /\ l.seg_eps \in Int /\ m.seg_eps \in Int
  BY SegmentTypes DEF Same
<1>2. ASSUME NEW x \in {l, m}
      PROVE  /\ lo(x) = IF x.pos_lo >= c - x.seg_eps THEN x.pos_lo ELSE c - x.seg_eps
             /\ past(x) = IF c + x.seg_eps + 1 <= x.pos_hi - 1
                            THEN c + x.seg_eps + 1 ELSE x.pos_hi - 1
  <2>1. /\ x.pos_lo \in Int /\ x.pos_hi - 1 \in Int
        /\ c - x.seg_eps \in Int /\ c + x.seg_eps + 1 \in Int
    BY <1>1
  <2> QED BY <2>1, MaxOfTwo, MinOfTwo
<1>3. ASSUME NEW x \in {l, m}
      PROVE  HitsIn(a, x, c, k) = IF a[c] = k THEN {c}
                                  ELSE {pos \in lo(x)..past(x) : a[pos] = k}
  BY DEF HitsIn
<1>4. lo(l)..past(l) \subseteq lo(m)..past(m)
  <2> HIDE DEF lo, past
  <2>1. lo(m) <= lo(l) /\ past(l) <= past(m)
    BY <1>1, <1>2
  <2>2. lo(m) \in Int /\ lo(l) \in Int /\ past(l) \in Int /\ past(m) \in Int
    BY <1>1, <1>2
  <2> QED BY <2>1, <2>2
<1> HIDE DEF lo, past
<1> QED BY <1>3, <1>4

(* Leaves in the same places, with the same lines and windows as wide,     *)
(* find what was found.                                                    *)
LEMMA WiderFindsMore ==
  ASSUME NEW a, NEW segs, NEW new, NEW eps, NEW k \in Int, NEW b \in BOOLEAN,
         LeavesOK(a, eps, segs), new \in Seq(Segment), Len(new) = Len(segs),
         \A s \in 1..Len(segs) : /\ Same(segs[s], new[s])
                                 /\ new[s].seg_eps >= segs[s].seg_eps
  PROVE  FoundIn(a, segs, k, b) \subseteq FoundIn(a, new, k, b)
<1> DEFINE n == Len(segs)
           o == OwnerIn(a, segs, k)
           T == {1} \cup {s \in DOMAIN segs : a[segs[s].pos_lo] <= k}
<1>1. /\ segs \in Seq(Segment) /\ n \in Nat /\ n >= 1
      /\ DOMAIN segs = 1..n /\ DOMAIN new = 1..n /\ Tiles(segs, 0, Size(a))
      /\ \A s \in 1..n : segs[s] \in Segment /\ new[s] \in Segment
  BY DEF LeavesOK
<1>2. o \in 1..n
  <2>1. T \subseteq 1..n /\ T # {} /\ 1 \in Int /\ n \in Int
    BY <1>1
  <2>2. Max(T) \in T
    <3> HIDE DEF T, n
    <3> QED BY <2>1, MaxOfInterval
  <2>3. o = Max(T)
    BY DEF OwnerIn
  <2> HIDE DEF T, n
  <2> QED BY <2>1, <2>2, <2>3
<1>3. OwnerIn(a, new, k) = o
  <2>1. {s \in DOMAIN new : a[new[s].pos_lo] <= k}
          = {s \in DOMAIN segs : a[segs[s].pos_lo] <= k}
    BY <1>1 DEF Same
  <2> QED BY <2>1 DEF OwnerIn
<1> DEFINE c == PredictBiased(segs[o], k, b)
<1> HIDE DEF o
<1>4. segs[o].slope \in Ratio /\ segs[o].pos_lo < segs[o].pos_hi
  BY <1>1, <1>2 DEF LeavesOK, LeafOK, Tiles
<1>5. c \in Int
  <2>1. c \in segs[o].pos_lo..segs[o].pos_hi-1
    BY <1>1, <1>2, <1>4, PredictionInLeaf
  <2>2. segs[o].pos_lo \in Int /\ segs[o].pos_hi \in Int
    BY <1>1, <1>2, SegmentTypes
  <2> HIDE DEF c
  <2> QED BY <2>1, <2>2
<1>6. Same(segs[o], new[o]) /\ new[o].seg_eps >= segs[o].seg_eps
  BY <1>2
<1>7. PredictBiased(new[o], k, b) = c
  BY <1>6, SamePrediction
<1>8. /\ FoundIn(a, segs, k, b) = HitsIn(a, segs[o], c, k)
      /\ FoundIn(a, new, k, b) = HitsIn(a, new[o], c, k)
  BY <1>3, <1>7 DEF FoundIn, o
<1> HIDE DEF c
<1>9. HitsIn(a, segs[o], c, k) \subseteq HitsIn(a, new[o], c, k)
  BY <1>1, <1>2, <1>5, <1>6, HitsGrow
<1> QED BY <1>8, <1>9

-----------------------------------------------------------------------------
LEMMA LookupLosesNoKey ==
  ASSUME WindowsInv, NEW k \in Nat, model_lookup(k), queries' # 0
  PROVE  Findable \subseteq Findable'
<1>1. /\ keys # <<>> /\ leaves' \in Searched(k)
      /\ queries' = IF Hits(k) # {} \/ TrackMisses THEN NextQuery ELSE queries
      /\ keys' = keys /\ short' = short /\ short \in BOOLEAN
  BY DEF model_lookup, WindowsInv
<1>2. Stored' = Stored /\ Stored \subseteq Nat
  BY <1>1, KeysAreNat DEF Stored
<1>3. CASE Hits(k) = {}
  <2>1. leaves' = leaves
    BY <1>1, <1>3 DEF Searched
  <2> QED BY <1>1, <1>2, <2>1, FindableIs
<1>4. CASE Hits(k) # {}
  <2>1. NextQuery # 0
    BY <1>1, <1>4
  <2>2. /\ leaves' \in Seq(Segment) /\ Len(leaves') = Len(leaves)
        /\ \A s \in 1..Len(leaves) : /\ Same(leaves[s], leaves'[s])
                                     /\ leaves'[s].seg_eps >= leaves[s].seg_eps
    BY <1>1, <2>1, SearchedFacts
  <2>3. LeavesOK(keys, cached_eps, leaves)
    BY <1>1, BuiltFacts
  <2>4. ASSUME NEW x \in Stored
        PROVE  FoundIn(keys, leaves, x, short) \subseteq FoundIn(keys, leaves', x, short)
    <3>1. x \in Int
      BY <1>2
    <3> QED BY <1>1, <2>2, <2>3, <3>1, WiderFindsMore
  <2> QED BY <1>1, <1>2, <2>4, FindableIs
<1> QED BY <1>3, <1>4

(* No query loses a key: a search moves one window, and narrows it only    *)
(* when the windows decay.                                                 *)
THEOREM QueriesLoseNoKey == Spec => QueryLosesNoKey
<1>1. ASSUME WindowsInv, [Next]_vars, queries' # 0
      PROVE  Findable \subseteq Findable'
  <2>1. ASSUME NEW a, NEW e, Rebuild(a, e) PROVE FALSE
    BY <1>1, <2>1 DEF Rebuild
  <2>2. ASSUME NEW segs, PartialRepair(segs) PROVE FALSE
    BY <1>1, <2>1, <2>2 DEF PartialRepair
  <2>3. CASE build \/ flush_buffer \/ force_rebuild \/ force_repair
    BY <2>1, <2>2, <2>3 DEF build, flush_buffer, force_rebuild, force_repair
  <2>4. CASE UNCHANGED vars
    <3>1. keys' = keys /\ leaves' = leaves /\ short' = short
      BY <2>4 DEF vars
    <3>2. Stored' = Stored
      BY <3>1 DEF Stored
    <3> QED BY <3>1, <3>2, FindableIs
  <2>5. ASSUME NEW k \in Stored \cup NewKeys, lookup(k) \/ lookup_hint(k)
        PROVE  Findable \subseteq Findable'
    <3>1. k \in Nat
      BY <1>1, KeysAreNat
    <3>2. model_lookup(k) \/ UNCHANGED vars
      BY <2>1, <2>2, <2>5 DEF lookup, lookup_hint
    <3> QED BY <1>1, <2>4, <3>1, <3>2, LookupLosesNoKey
  <2> QED BY <1>1, <2>3, <2>4, <2>5 DEF Next
<1>2. WindowsInv /\ [Next]_vars => [queries' # 0 => Findable \subseteq Findable']_vars
  BY <1>1
<1> QED BY <1>2, InductiveInvariant, PTL DEF Spec, QueryLosesNoKey

-----------------------------------------------------------------------------
(* A key found in a leaf is routed to any leaf that takes its place.       *)
LEMMA RoutedToReplacement ==
  ASSUME WindowsInv, keys # <<>>, NEW k \in Nat, Hits(k) # {},
         NEW new, LeavesOK(keys, cached_eps, new), NEW t \in 1..Len(new),
         Same(leaves[Owner(k)], new[t])
  PROVE  OwnerIn(keys, new, k) = t
<1> DEFINE o == Owner(k)
           l == leaves[o]
           n == Size(keys)
<1>1. /\ n \in Nat /\ keys \in [0..n-1 -> Nat] /\ Ascending(keys, n)
  BY BuiltFacts, ArrayFacts
<1>2. /\ leaves \in Seq(Segment) /\ Len(leaves) \in Nat
      /\ Tiles(leaves, 0, n)
      /\ new \in Seq(Segment) /\ Len(new) \in Nat /\ Tiles(new, 0, n)
  BY BuiltFacts DEF LeavesOK
<1>3. o \in 1..Len(leaves) /\ \A s \in 1..Len(leaves) : seg_key(s) <= k => s <= o
  BY OwnerIsLeaf
<1>4. PICK pos \in l.pos_lo..l.pos_hi-1 : keys[pos] = k
  BY SearchFacts
<1>5. /\ l.pos_lo \in Int /\ l.pos_hi \in Int /\ 0 <= l.pos_lo /\ l.pos_hi <= n
      /\ new[t].pos_lo = l.pos_lo /\ new[t].pos_hi = l.pos_hi
  BY <1>3, LeafFacts, SegmentTypes DEF Same
<1> HIDE DEF l, n
<1>6. keys[new[t].pos_lo] <= k
  <2>1. l.pos_lo \in 0..n-1 /\ pos \in 0..n-1 /\ l.pos_lo <= pos
    BY <1>1, <1>4, <1>5
  <2>2. keys[l.pos_lo] <= keys[pos]
    BY <1>1, <2>1 DEF Ascending
  <2> QED BY <1>4, <1>5, <2>2
<1>7. ASSUME NEW u \in 1..Len(new), keys[new[u].pos_lo] <= k PROVE u <= t
  <2>1. SUFFICES ASSUME u > t PROVE FALSE
    BY <1>2
  <2>2. u \in t+1..Len(new)
    BY <1>2, <2>1
  <2>3. new[t].pos_hi <= new[u].pos_lo /\ new[u].pos_hi <= n
    <3>1. /\ n \in Int /\ 0 \in Int /\ new \in Seq(Segment) /\ Tiles(new, 0, n)
          /\ t \in 1..Len(new) /\ u \in 1..Len(new)
      BY <1>1, <1>2
    <3>2. new[u].pos_hi <= n
      BY ONLY <3>1, TilesOrdered
    <3>3. \A v \in t+1..Len(new) : new[t].pos_hi <= new[v].pos_lo
      BY ONLY <3>1, TilesOrdered
    <3> QED BY <2>2, <3>2, <3>3
  <2>4. new[u].pos_lo < new[u].pos_hi /\ new[u].pos_lo \in Int /\ new[u].pos_hi \in Int
    <3>1. new[u] \in Segment /\ new[u].pos_lo < new[u].pos_hi
      BY <1>2 DEF Tiles
    <3> QED BY ONLY <3>1, SegmentTypes
  <2>5. l.pos_hi < n
    BY <1>1, <1>5, <2>3, <2>4
  <2>6. o # Len(leaves)
    <3>1. leaves[Len(leaves)].pos_hi = n
      BY <1>2, <1>3 DEF Tiles
    <3> QED BY <1>1, <1>5, <2>5, <3>1 DEF l
  <2>7. o \in 1..Len(leaves)-1 /\ o + 1 \in 1..Len(leaves)
    BY <1>2, <1>3, <2>6
  <2>8. l.pos_hi = leaves[o+1].pos_lo
    BY <1>2, <2>7 DEF Tiles, l
  <2>9. ~(seg_key(o+1) <= k)
    BY <1>3, <2>7
  <2>10. ~(keys[l.pos_hi] <= k)
    BY <2>8, <2>9 DEF seg_key
  <2>11. l.pos_hi \in 0..n-1 /\ new[u].pos_lo \in 0..n-1 /\ l.pos_hi <= new[u].pos_lo
    <3>1. l.pos_lo < l.pos_hi
      BY <1>4, <1>5
    <3> DEFINE x == new[u].pos_lo
               y == new[u].pos_hi
               h == l.pos_hi
               b == l.pos_lo
    <3>2. /\ x \in Int /\ y \in Int /\ h \in Int /\ b \in Int /\ n \in Nat
          /\ h <= x /\ x < y /\ y <= n /\ h < n /\ 0 <= b /\ b < h
      BY <1>1, <1>5, <2>3, <2>4, <2>5, <3>1
    <3> HIDE DEF x, y, h, b
    <3>3. h \in 0..n-1 /\ x \in 0..n-1 /\ h <= x
      BY ONLY <3>2
    <3> QED BY <3>3 DEF x, h
  <2>12. keys[l.pos_hi] <= keys[new[u].pos_lo]
    BY <1>1, <2>11 DEF Ascending
  <2>13. keys[l.pos_hi] \in Nat /\ keys[new[u].pos_lo] \in Nat
    BY <1>1, <2>11
  <2> QED BY <1>7, <2>10, <2>12, <2>13
<1> QED BY <1>2, <1>6, <1>7, OwnerInIs

(* A partial repair is local: it loses no key of a leaf that is not hot.   *)
THEOREM RepairsAreLocal == Spec => RepairIsLocal
<1>1. ASSUME WindowsInv, force_repair, ~fresh'
      PROVE  Findable \cap ColdKeys \subseteq Findable'
  <2>1. /\ keys # <<>> /\ leaves' = Splice(leaves)
        /\ keys' = keys /\ short' = short
    BY <1>1 DEF force_repair, PartialRepair, Rebuild
  <2>2. LeavesOK(keys, cached_eps, leaves) /\ leaves \in Seq(Segment)
    BY <1>1, <2>1, BuiltFacts DEF LeavesOK
  <2> DEFINE new == Splice(leaves)
  <2>3. /\ LeavesOK(keys, cached_eps, new)
        /\ \A s \in 1..Len(leaves) : ~IsHot(leaves[s]) =>
             \E t \in 1..Len(new) : new[t] = Half(leaves[s])
    BY <1>1, <2>1, <2>2, SpliceOK
  <2> HIDE DEF new
  <2>4. ASSUME NEW k \in Findable, k \in ColdKeys PROVE k \in Findable'
    <3> DEFINE o == Owner(k)
    <3>1. k \in Stored /\ k \in Nat /\ Hits(k) # {}
      BY <1>1, KeysAreNat DEF Findable
    <3>2. o \in 1..Len(leaves) /\ ~IsHot(leaves[o])
      BY <1>1, <2>1, <2>4, OwnerIsLeaf DEF ColdKeys
    <3>3. PICK t \in 1..Len(new) : new[t] = Half(leaves[o])
      BY <2>3, <3>2
    <3>4. /\ leaves[o] \in Segment /\ new[t] \in Segment
          /\ Same(leaves[o], new[t]) /\ new[t].seg_eps = leaves[o].seg_eps
      BY <2>2, <3>2, <3>3, HalfFacts
    <3>5. OwnerIn(keys, new, k) = t
      BY <1>1, <2>1, <2>3, <3>1, <3>4, RoutedToReplacement
    <3>6. OwnerIn(keys, leaves, k) = o
      BY FindableIs
    <3> DEFINE c == PredictBiased(leaves[o], k, short)
    <3>7. PredictBiased(new[t], k, short) = c
      BY <3>4, SamePrediction
    <3>8. c \in Int
      <4>1. Center(k) \in leaves[o].pos_lo..leaves[o].pos_hi-1
        BY <1>1, <2>1, <3>1, SearchFacts
      <4>2. leaves[o].pos_lo \in Int /\ leaves[o].pos_hi \in Int
        BY <3>4, SegmentTypes
      <4>3. c = Center(k)
        BY DEF Center
      <4> QED BY <4>1, <4>2, <4>3
    <3> HIDE DEF o
    <3>9. FoundIn(keys, leaves, k, short) = HitsIn(keys, leaves[o], c, k)
      BY <3>6 DEF FoundIn
    <3>10. FoundIn(keys, new, k, short) = HitsIn(keys, new[t], c, k)
      BY <3>5, <3>7 DEF FoundIn
    <3> HIDE DEF c
    <3>11. new[t].seg_eps >= leaves[o].seg_eps
      BY <3>4, SegmentTypes
    <3>12. HitsIn(keys, leaves[o], c, k) \subseteq HitsIn(keys, new[t], c, k)
      BY <3>4, <3>8, <3>11, HitsGrow
    <3>13. FoundIn(keys, new, k, short) # {}
      BY <3>1, <3>9, <3>10, <3>12, FindableIs
    <3>14. k \in Stored'
      BY <2>1, <3>1 DEF Stored
    <3> QED BY <2>1, <3>13, <3>14, FindableIs DEF new
  <2> QED BY <2>4
<1>2. WindowsInv /\ [Next]_vars =>
        [force_repair /\ ~fresh' => Findable \cap ColdKeys \subseteq Findable']_vars
  BY <1>1
<1> QED BY <1>2, InductiveInvariant, PTL DEF Spec, RepairIsLocal

-----------------------------------------------------------------------------
(* The leaf a stored key is routed to holds it, at its first position or   *)
(* where it differs from the leaf's first key: equal keys may spread over  *)
(* leaves, and the last one they start is the owner.                       *)
LEMMA OwnerHoldsKey ==
  ASSUME NEW a, IsArray(a), NEW eps, NEW segs, LeavesOK(a, eps, segs),
         NEW k \in {a[i] : i \in DOMAIN a}
  PROVE  /\ OwnerIn(a, segs, k) \in 1..Len(segs)
         /\ LET l == segs[OwnerIn(a, segs, k)]
            IN \E i \in l.pos_lo..l.pos_hi-1 :
                 a[i] = k /\ (a[i] = a[l.pos_lo] => i = l.pos_lo)
<1> DEFINE n == Size(a)
           m == Len(segs)
           T == {1} \cup {s \in DOMAIN segs : a[segs[s].pos_lo] <= k}
           o == OwnerIn(a, segs, k)
<1>1. n \in Nat /\ a \in [0..n-1 -> Nat] /\ DOMAIN a = 0..n-1 /\ Ascending(a, n)
  BY ArrayFacts
<1>2. /\ segs \in Seq(Segment) /\ m \in Nat /\ m >= 1 /\ DOMAIN segs = 1..m
      /\ Tiles(segs, 0, n)
  BY DEF LeavesOK
<1>3. o \in T /\ (\A s \in T : s <= o) /\ T \subseteq 1..m
  <2>1. T \subseteq 1..m /\ T # {} /\ 1 \in Int /\ m \in Int
    BY <1>2
  <2>2. Max(T) \in T /\ \A s \in T : s <= Max(T)
    <3> HIDE DEF T, m
    <3> QED BY <2>1, MaxOfInterval
  <2>3. o = Max(T)
    BY DEF OwnerIn
  <2> HIDE DEF T, m, o
  <2> QED BY <2>1, <2>2, <2>3
<1>4. \A s \in 1..m :
        /\ segs[s].pos_lo \in Int /\ segs[s].pos_hi \in Int
        /\ 0 <= segs[s].pos_lo /\ segs[s].pos_lo < segs[s].pos_hi /\ segs[s].pos_hi <= n
  <2>1. \A s \in 1..m : 0 <= segs[s].pos_lo /\ segs[s].pos_hi <= n
    BY <1>1, <1>2, TilesOrdered
  <2> QED BY <1>2, <2>1, SegmentTypes DEF Tiles
<1>5. PICK i \in 0..n-1 : a[i] = k
  BY <1>1
<1>6. PICK s \in 1..m : i \in segs[s].pos_lo..segs[s].pos_hi-1
  BY <1>1, <1>2, TilesCover
<1>7. o \in 1..m
  BY <1>3
<1> HIDE DEF n, m, o
<1> DEFINE l == segs[o]
<1>8. k \in Nat /\ \A j \in 0..n-1 : a[j] \in Nat
  BY <1>1, <1>5
<1>9. s <= o
  <2>1. segs[s].pos_lo \in 0..n-1 /\ segs[s].pos_lo <= i
    BY <1>1, <1>4, <1>5, <1>6
  <2>2. a[segs[s].pos_lo] <= k
    BY <1>1, <1>5, <2>1 DEF Ascending
  <2>3. s \in T
    BY <1>2, <2>2
  <2> QED BY <1>3, <2>3
<1> HIDE DEF T
<1>10. l.pos_lo \in l.pos_lo..l.pos_hi-1 /\ l.pos_lo \in 0..n-1
  BY <1>1, <1>4, <1>7
<1> DEFINE Held == \E j \in l.pos_lo..l.pos_hi-1 :
                     a[j] = k /\ (a[j] = a[l.pos_lo] => j = l.pos_lo)
<1>11. ASSUME s = o PROVE Held
  <2>1. i \in l.pos_lo..l.pos_hi-1
    BY <1>6, <1>11
  <2>2. ASSUME a[i] = a[l.pos_lo] PROVE Held
    BY <1>5, <1>10, <2>2
  <2>3. ASSUME a[i] # a[l.pos_lo] PROVE Held
    BY <1>5, <2>1, <2>3
  <2> QED BY <2>2, <2>3
<1>12. ASSUME s < o PROVE Held
  <2>1. a[l.pos_lo] <= k
    <3>1. o # 1
      BY <1>2, <1>6, <1>7, <1>12
    <3> QED BY <1>3, <3>1 DEF T
  <2>2. segs[s].pos_hi <= l.pos_lo
    <3>1. o \in s+1..Len(segs) /\ s \in 1..Len(segs) /\ n \in Int
      BY <1>1, <1>2, <1>6, <1>7, <1>12 DEF m
    <3>2. \A u \in s+1..Len(segs) : segs[s].pos_hi <= segs[u].pos_lo
      BY <1>2, <3>1, TilesOrdered
    <3> QED BY <3>1, <3>2
  <2>3. i <= l.pos_lo
    BY <1>4, <1>5, <1>6, <1>10, <2>2
  <2>4. k <= a[l.pos_lo]
    BY <1>1, <1>5, <1>10, <2>3 DEF Ascending
  <2>5. a[l.pos_lo] = k
    BY <1>8, <1>10, <2>1, <2>4
  <2> QED BY <1>10, <2>5
<1>13. s = o \/ s < o
  BY <1>2, <1>6, <1>7, <1>9
<1>14. Held
  BY <1>11, <1>12, <1>13
<1> QED BY <1>7, <1>14 DEF o, m

(* A window that reaches a position of its leaf finds the key there.       *)
LEMMA ReachedIsFound ==
  ASSUME NEW l \in Segment, NEW c \in Int, NEW a, NEW i \in l.pos_lo..l.pos_hi-1,
         Reaches(l, i, c)
  PROVE  HitsIn(a, l, c, a[i]) # {}
<1> DEFINE wlo == Max({l.pos_lo, c - l.seg_eps})
           past == Min({c + l.seg_eps + 1, l.pos_hi - 1})
<1>1. /\ l.pos_lo \in Int /\ l.pos_hi - 1 \in Int /\ i \in Int
      /\ c - l.seg_eps \in Int /\ c + l.seg_eps + 1 \in Int
      /\ l.pos_lo <= i /\ i <= l.pos_hi - 1
      /\ c - l.seg_eps <= i /\ i <= c + l.seg_eps + 1
  BY SegmentTypes DEF Reaches
<1>2. wlo \in Int /\ past \in Int /\ wlo <= i /\ i <= past
  BY <1>1, MaxOfTwo, MinOfTwo
<1>3. HitsIn(a, l, c, a[i]) = IF a[c] = a[i] THEN {c}
                              ELSE {pos \in wlo..past : a[pos] = a[i]}
  BY DEF HitsIn
<1> HIDE DEF wlo, past
<1>4. i \in {pos \in wlo..past : a[pos] = a[i]}
  BY <1>1, <1>2
<1> QED BY <1>3, <1>4

(* A full build with an epsilon of at most two finds every key.            *)
LEMMA BuiltFindsAll ==
  ASSUME NEW a, IsArray(a), a # <<>>, NEW eps \in 1..Epsilon, eps <= 2,
         NEW b \in BOOLEAN, short = b, NEW k \in {a[i] : i \in DOMAIN a}
  PROVE  FoundIn(a, BuildLeaves(a, eps, b), k, b) # {}
<1> DEFINE n == Size(a)
           segs == pgm_build(a, eps)
           new == BuildLeaves(a, eps, b)
           o == OwnerIn(a, new, k)
           l == new[o]
<1>1. /\ n \in Nat \ {0} /\ n \in Nat /\ a \in [0..n-1 -> Int] /\ Ascending(a, n)
      /\ eps \in Nat /\ eps \in 1..2 /\ eps \in Nat \ {0}
  BY ArrayFacts, BoundsAssumption
<1>2. LeavesOK(a, eps, new)
  BY BuiltLeavesOK
<1> HIDE DEF new, n
<1>3. o \in 1..Len(new)
  BY <1>2, OwnerHoldsKey
<1>4. PICK i \in l.pos_lo..l.pos_hi-1 : a[i] = k /\ (a[i] = a[l.pos_lo] => i = l.pos_lo)
  BY <1>2, OwnerHoldsKey
<1> HIDE DEF o
<1>5. l \in Segment /\ l.slope \in Ratio /\ l.pos_lo < l.pos_hi
  BY <1>2, <1>3 DEF LeavesOK, LeafOK, Tiles
<1>6. Segments(a, eps, n, segs)
  BY <1>1, PgmBuildFits
<1> HIDE DEF segs
<1>7. /\ segs \in Seq(Segment) /\ Tiles(segs, 0, n)
      /\ \A s \in 1..Len(segs) : Fits(a, eps, n, segs[s])
  BY <1>6 DEF Segments
<1>8. Reaches(l, i, PredictBiased(l, k, b))
  <2>1. CASE Len(segs) > 1
    <3>1. new = [s \in DOMAIN segs |-> Calibrate(segs[s], a, b)]
      BY <2>1 DEF new, segs, BuildLeaves, CalibrateAll
    <3>2. DOMAIN segs = 1..Len(segs) /\ DOMAIN new = 1..Len(new)
      BY <1>2, <1>7 DEF LeavesOK
    <3>3. o \in 1..Len(segs) /\ l = Calibrate(segs[o], a, b)
      BY <1>3, <3>1, <3>2
    <3> DEFINE s == segs[o]
    <3>4. Fits(a, eps, n, s) /\ Calibratable(s, a, n)
      BY <1>1, <1>7, <3>3, FitsCalibratable
    <3>5. l.pos_lo = s.pos_lo /\ l.pos_hi = s.pos_hi
      BY <1>1, <3>3, <3>4, CalibrateFacts
    <3>6. i \in s.pos_lo..s.pos_hi-1 /\ (a[i] = a[s.pos_lo] => i = s.pos_lo)
      BY <1>4, <3>5
    <3> HIDE DEF s, l
    <3>7. Reaches(Calibrate(s, a, b), i, PredictBiased(Calibrate(s, a, b), a[i], b))
      BY <1>1, <3>4, <3>6, CalibratedWindow
    <3> QED BY <1>4, <3>3, <3>7 DEF s
  <2>2. CASE ~(Len(segs) > 1)
    <3>1. new = segs
      BY <2>2 DEF new, segs, BuildLeaves
    <3>2. Fits(a, eps, n, l) /\ Calibratable(l, a, n)
      BY <1>1, <1>3, <1>7, <3>1, FitsCalibratable
    <3> HIDE DEF l
    <3>3. Reaches(l, i, PredictBiased(l, a[i], b))
      BY <1>1, <1>4, <3>2, PlainWindow
    <3> QED BY <1>4, <3>3
  <2> QED BY <2>1, <2>2
<1> DEFINE c == PredictBiased(l, k, b)
<1>9. c \in Int
  <2>1. k \in Int
    <3>1. DOMAIN a = 0..n-1
      BY <1>1
    <3> QED BY <1>1, <3>1
  <2>2. c \in l.pos_lo..l.pos_hi-1
    BY <1>5, <2>1, PredictionInLeaf
  <2> QED BY <1>5, <2>2, SegmentTypes
<1>10. FoundIn(a, new, k, b) = HitsIn(a, l, c, k)
  BY DEF FoundIn, o
<1> HIDE DEF l, c
<1>11. HitsIn(a, l, c, a[i]) # {}
  BY <1>4, <1>5, <1>8, <1>9, ReachedIsFound DEF c
<1> QED BY <1>4, <1>10, <1>11 DEF new

(* While no search has moved a window, the leaves are those of a build.    *)
FreshInv == fresh => keys # <<>> /\ leaves = BuildLeaves(keys, cached_eps, short)

LEMMA FreshStep ==
  ASSUME WindowsInv, FreshInv, [Next]_vars
  PROVE  FreshInv'
<1>1. ASSUME NEW a, NEW e, a # <<>>, Rebuild(a, e) PROVE FreshInv'
  BY <1>1 DEF Rebuild, FreshInv
<1>2. ASSUME keys # <<>>, NEW segs, PartialRepair(segs) PROVE FreshInv'
  BY <1>1, <1>2 DEF PartialRepair, FreshInv
<1>3. ASSUME NEW k, model_lookup(k) PROVE FreshInv'
  <2>1. /\ keys' = keys /\ cached_eps' = cached_eps /\ short' = short
        /\ leaves' \in Searched(k) /\ fresh' = (fresh /\ Hits(k) = {})
    BY <1>3 DEF model_lookup
  <2>2. CASE fresh'
    <3>1. fresh /\ leaves' = leaves
      BY <2>1, <2>2 DEF Searched
    <3> QED BY <2>1, <3>1 DEF FreshInv
  <2> QED BY <2>2 DEF FreshInv
<1>4. CASE UNCHANGED vars
  BY <1>4 DEF vars, FreshInv
<1>5. CASE build
  BY <1>1, <1>5, KeysAssumption DEF build
<1>6. CASE flush_buffer
  <2>1. PICK k \in NewKeys : Rebuild(Merge(keys, k), cached_eps)
    BY <1>6 DEF flush_buffer
  <2>2. Merge(keys, k) # <<>>
    <3>1. keys # <<>> /\ Size(keys) < MaxKeys /\ k \in Nat
      BY <1>6, KeysAssumption DEF flush_buffer
    <3> QED BY <3>1, BuiltFacts, MergeIsArray
  <2> QED BY <1>1, <2>1, <2>2
<1>7. CASE force_rebuild \/ force_repair
  BY <1>1, <1>2, <1>7 DEF force_rebuild, force_repair
<1>8. ASSUME NEW k, lookup(k) \/ lookup_hint(k) PROVE FreshInv'
  BY <1>1, <1>2, <1>3, <1>4, <1>8 DEF lookup, lookup_hint
<1> QED BY <1>4, <1>5, <1>6, <1>7, <1>8 DEF Next

(* A full rebuild whose epsilon search went down to two finds every key    *)
(* that is stored, although no window was calibrated for the bias.         *)
THEOREM RebuildsFindStored == Spec => []RebuiltFindsStored
<1>1. Init => FreshInv
  BY DEF Init, FreshInv
<1>2. WindowsInv /\ FreshInv => RebuiltFindsStored
  <2> SUFFICES ASSUME WindowsInv, FreshInv, fresh, cached_eps <= 2
               PROVE  Findable = Stored
    BY DEF RebuiltFindsStored
  <2>1. keys # <<>> /\ leaves = BuildLeaves(keys, cached_eps, short)
    BY DEF FreshInv
  <2>2. IsArray(keys) /\ cached_eps \in 1..Epsilon /\ short \in BOOLEAN
    BY <2>1, BuiltFacts DEF WindowsInv
  <2>3. ASSUME NEW k \in Stored PROVE FoundIn(keys, leaves, k, short) # {}
    <3>1. k \in {keys[i] : i \in DOMAIN keys}
      BY DEF Stored
    <3> QED BY <2>1, <2>2, <3>1, BuiltFindsAll
  <2> QED BY <2>3, FindableIs
<1>3. WindowsInv /\ FreshInv /\ [Next]_vars => FreshInv'
  BY FreshStep
<1> QED BY <1>1, <1>2, <1>3, InductiveInvariant, PTL DEF Spec
=============================================================================
