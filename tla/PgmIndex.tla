------------------------------ MODULE PgmIndex ------------------------------
(***************************************************************************)
(* The vendored PGM-index: lines over the keys, lines over the first keys  *)
(* of these lines, and so on up to a level of one line; and the search,    *)
(* which goes down from there and yields a window of positions.            *)
(*                                                                         *)
(* The levels stand one after the other in one array of the code, the      *)
(* lowest first; here they are a sequence of levels.  Positions count from *)
(* zero, segments from one.                                                *)
(*                                                                         *)
(* A slope is stored as a float.  Where the exact value of a line is an    *)
(* integer and the slope no float, the product may fall just short of it,  *)
(* and the cast then yields the integer below: Positions has both.         *)
(***************************************************************************)
EXTENDS PiecewiseLinear

CONSTANTS Epsilon,            \* half the width of a window (64 in the code)
          EpsilonRecursive,   \* the same between levels (4 in the code)
          Sentinel            \* the greatest value of the key type

ASSUME EpsilonAssumption == Epsilon \in Nat \ {0} /\ EpsilonRecursive \in Nat \ {0}
ASSUME SentinelAssumption == Sentinel \in Nat \ {0}

(* Segment::operator(), for both ways the float of the slope may lie.      *)
Positions(s, k) ==
  LET num == s.slope.dy * (k - s.key)
      exact == (num \div s.slope.dx) + s.intercept
      isFloat == \E e \in 0..10 : (s.slope.dy * 2 ^ e) % s.slope.dx = 0
  IN IF num > 0 /\ num % s.slope.dx = 0 /\ ~isFloat THEN {exact, exact - 1} ELSE {exact}

Constantly(key, n) == [key |-> key, slope |-> [dx |-> 1, dy |-> 0], intercept |-> n]

(* The lambda build_level(): the segments of a level, one that maps all    *)
(* later keys to n if the last does not, and the sentinel; and the number  *)
(* of segments the next level indexes.  The lowest outcome of the last     *)
(* line is compared: the extra segment does no harm.                       *)
BuildLevel(in, epsilon, greatest) ==
  LET n == Len(in)
      Extra(final) == IF \E p \in Positions(final, Sentinel - 1) : p < n
                        THEN <<Constantly(greatest + 1, n)>> ELSE <<>>
      Closed(segs) ==
        IF Last(segs).key = Sentinel
          THEN [segs |-> segs, used |-> Len(segs) - 1]
          ELSE [segs |-> segs \o Extra(Last(segs)) \o <<Constantly(Sentinel, n)>>,
                used |-> Len(segs)]
  IN Closed(MakeSegmentation(in, epsilon))

(* build(): the levels, lowest first, with one more over them unless the   *)
(* last has a single segment.                                              *)
Raised(levels, greatest) ==
  LET top == Last(levels)
  IN IF top.used <= 1 THEN levels
     ELSE Append(levels,
            BuildLevel([i \in 1..top.used |-> top.segs[i].key], EpsilonRecursive, greatest))

LevelsOver(keys) ==
  LET raised[l \in 1..Len(keys)] ==
        IF l = 1 THEN <<BuildLevel(keys, Epsilon, Last(keys))>>
        ELSE Raised(raised[l - 1], Last(keys))
      levels == raised[Len(keys)]
  IN [l \in DOMAIN levels |-> levels[l].segs]

BuildPgm(keys) ==
  IF keys = <<>> THEN [n |-> 0, first_key |-> 0, levels |-> <<>>]
  ELSE [n |-> Len(keys), first_key |-> keys[1], levels |-> LevelsOver(keys)]

-----------------------------------------------------------------------------
SubEps(x, epsilon) == IF x <= epsilon THEN 0 ELSE x - epsilon
AddEps(x, epsilon, size) == IF x + epsilon + 2 >= size THEN size ELSE x + epsilon + 2

(* The line of segment i, cut off at the intercept of the next.            *)
Predicted(level, i, k) ==
  {IF p < level[i + 1].intercept THEN p ELSE level[i + 1].intercept : p \in Positions(level[i], k)}

(* The linear scan of a level: from some places before the segment the     *)
(* level above predicts, to the last that starts no later than k.          *)
Scan(level, pos, k) ==
  Min({i \in SubEps(pos, EpsilonRecursive + 1) + 1..Len(level) - 1 : level[i + 1].key > k})

(* segment_for_key(): the segments of the lowest level the search may end  *)
(* at.  k is below the sentinel, at which the scan has no end.             *)
SegmentForKey(pgm, k) ==
  LET top == Len(pgm.levels)
      at[l \in 1..top] ==   \* on each level
        IF l = top THEN {1}
        ELSE {Scan(pgm.levels[l], pos, k) :
                pos \in UNION {Predicted(pgm.levels[l + 1], i, k) : i \in at[l + 1]}}
  IN at[1]

(* search(): the windows it may answer with.                               *)
Search(pgm, key) ==
  LET k == Max({pgm.first_key, key})
  IN {[lo |-> SubEps(pos, Epsilon), hi |-> AddEps(pos, Epsilon, pgm.n)] :
        pos \in UNION {Predicted(pgm.levels[1], i, k) : i \in SegmentForKey(pgm, k)}}
=============================================================================
