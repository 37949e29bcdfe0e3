-------------------------- MODULE PiecewiseLinear --------------------------
(***************************************************************************)
(* The streaming segmentation of the vendored PGM-index: the points        *)
(* (key, rank) of a sorted sequence are covered by as few lines as         *)
(* possible, each within epsilon of its points.  The lines that still fit  *)
(* are kept as the two convex hulls of the points moved up and down by     *)
(* epsilon, and the rectangle spanned by the lines of extreme slope.       *)
(*                                                                         *)
(* All of this is exact integer arithmetic in the code, which widens keys  *)
(* and ranks to 128 bits.  Ranks are unsigned: a point is not moved below  *)
(* zero.  The upper limit of a rank is out of reach.                       *)
(***************************************************************************)
EXTENDS Integers, Sequences, FiniteSetsExt, SequencesExt

Point(x, y) == [x |-> x, y |-> y]

(* Slope and its comparisons.  The signs of dx agree wherever two slopes   *)
(* are compared.                                                           *)
Minus(p, q) == [dx |-> p.x - q.x, dy |-> p.y - q.y]
Steeper(s, t) == s.dy * t.dx > s.dx * t.dy
SameSlope(s, t) == s.dy * t.dx = s.dx * t.dy

Cross(o, a, b) ==
  LET oa == Minus(a, o)
      ob == Minus(b, o)
  IN oa.dx * ob.dy - oa.dy * ob.dx

(* Division of C++, toward zero, by a positive number.                     *)
Quotient(a, b) == IF a < 0 THEN -((-a) \div b) ELSE a \div b

-----------------------------------------------------------------------------
(* An empty hull.  What reset() and a refused point leave behind is never  *)
(* read again, as the next point starts afresh.                            *)
NoPoints ==
  [points |-> 0, upper |-> <<>>, lower |-> <<>>, upper_start |-> 1, lower_start |-> 1,
   rectangle |-> <<>>, first_x |-> 0]

FirstPoint(p1, p2) ==
  [points |-> 1, upper |-> <<p1>>, lower |-> <<p2>>, upper_start |-> 1, lower_start |-> 1,
   rectangle |-> <<p1, p2, p1, p2>>, first_x |-> p1.x]

SecondPoint(h, p1, p2) ==
  [h EXCEPT !.points = 2, !.upper = Append(@, p1), !.lower = Append(@, p2),
            !.rectangle[3] = p2, !.rectangle[4] = p1]

(* The place where the slope to p stops getting better, from place start.  *)
Extreme(hull, start, p, Worse(_, _)) ==
  Max({m \in start..Len(hull) :
         \A i \in start + 1..m : ~Worse(Minus(hull[i], p), Minus(hull[i - 1], p))})

(* The hull without the points p makes superfluous, with p.                *)
Wrapped(hull, start, p, Superfluous(_)) ==
  LET end == Max({e \in 0..Len(hull) :
                    e <= start \/ ~Superfluous(Cross(hull[e - 1], hull[e], p))})
  IN Append(SubSeq(hull, 1, end), p)

(* Slip: the hull is wrapped with the comparison of the other hull.        *)
AboveWrongTurn(h, p1) ==
  LET m == Extreme(h.lower, h.lower_start, p1, Steeper)
  IN IF Steeper(Minus(h.rectangle[4], h.rectangle[2]), Minus(p1, h.rectangle[2]))
       THEN [h EXCEPT !.rectangle[2] = h.lower[m], !.rectangle[4] = p1, !.lower_start = m,
                      !.upper = Wrapped(@, h.upper_start, p1, LAMBDA c : c >= 0)]
       ELSE h

(* p1, above the new point, lowers the greatest slope.                     *)
Above(h, p1) ==
  LET m == Extreme(h.lower, h.lower_start, p1, Steeper)
  IN IF Steeper(Minus(h.rectangle[4], h.rectangle[2]), Minus(p1, h.rectangle[2]))
       THEN [h EXCEPT !.rectangle[2] = h.lower[m], !.rectangle[4] = p1, !.lower_start = m,
                      !.upper = Wrapped(@, h.upper_start, p1, LAMBDA c : c <= 0)]
       ELSE h

(* p2, below the new point, raises the least.  slope1 is the one the call  *)
(* began with; a point above changes neither rectangle[0] nor [2].         *)
Below(h, p2) ==
  LET m == Extreme(h.upper, h.upper_start, p2, LAMBDA s, t : Steeper(t, s))
  IN IF Steeper(Minus(p2, h.rectangle[1]), Minus(h.rectangle[3], h.rectangle[1]))
       THEN [h EXCEPT !.rectangle[1] = h.upper[m], !.rectangle[3] = p2, !.upper_start = m,
                      !.lower = Wrapped(@, h.lower_start, p2, LAMBDA c : c >= 0)]
       ELSE h

(* No line within epsilon of the points so far passes within it of the     *)
(* new one.                                                                *)
Outside(h, p1, p2) ==
  \/ Steeper(Minus(h.rectangle[3], h.rectangle[1]), Minus(p1, h.rectangle[3]))
  \/ Steeper(Minus(p2, h.rectangle[4]), Minus(h.rectangle[4], h.rectangle[2]))

(* add_point(): the hulls with the point, or, if it is refused, NoPoints.  *)
AddPoint(h, x, y, epsilon) ==
  LET p1 == Point(x, y + epsilon)
      p2 == Point(x, IF y <= epsilon THEN 0 ELSE y - epsilon)
  IN CASE h.points = 0 -> FirstPoint(p1, p2)
       [] h.points = 1 -> SecondPoint(h, p1, p2)
       [] h.points >= 2 /\ Outside(h, p1, p2) -> NoPoints
       [] OTHER -> [Below(Above(h, p1), p2) EXCEPT !.points = h.points + 1]

-----------------------------------------------------------------------------
OnePoint(r) == r[1] = r[3] /\ r[2] = r[4]

(* get_segment(), and get_floating_point_segment() at the segment's first  *)
(* key: the line of the greatest slope, its intercept rounded to nearest.  *)
Segment(h) ==
  LET r == h.rectangle
      slope == Minus(r[4], r[2])
      num == slope.dy * (h.first_x - r[2].x)
      half == IF num < 0 THEN Quotient(-slope.dx, 2) ELSE Quotient(slope.dx, 2)
  IN IF OnePoint(r)
       THEN [key |-> h.first_x, slope |-> [dx |-> 1, dy |-> 0],
             intercept |-> (r[1].y + r[2].y) \div 2]
       ELSE [key |-> h.first_x, slope |-> slope,
             intercept |-> Quotient(num + half, slope.dx) + r[2].y]

(* The lambda of make_segmentation(): a refused point ends the segment and *)
(* starts the next.  seen keeps the points of each segment, for the        *)
(* properties.                                                             *)
Fed(state, p, epsilon) ==
  LET Add(hull) == AddPoint(hull, p.x, p.y, epsilon)
      With(h) ==
        IF h.points > 0
          THEN [state EXCEPT !.hull = h, !.seen[Len(state.seen)] = Append(@, p)]
          ELSE [hull |-> Add(NoPoints), out |-> Append(state.out, Segment(state.hull)),
                seen |-> Append(state.seen, <<p>>)]
  IN With(Add(state.hull))

(* Slip: repeated keys are fed with their later ranks.                     *)
PointsOfLastRepeats(in) ==
  LET n == Len(in)
  IN FoldLeftDomain(LAMBDA ps, i :
       IF i < n /\ in[i] = in[i + 1] THEN ps ELSE Append(ps, Point(in[i], i - 1)), <<>>, in)
     \o <<Point(in[n] + 1, n)>>

(* The points make_segmentation() feeds for the keys in: each key with the *)
(* rank of its first occurrence; after a run of equal keys, the key that   *)
(* follows in the key space, unless that is stored; and one past the last. *)
(* Ranks count from zero.                                                  *)
Points(in) ==
  LET n == Len(in)
      repeat(i) == i > 1 /\ in[i] = in[i - 1]
      Inner(ps, i) ==
        IF i = n \/ (repeat(i) /\ in[i] + 1 >= in[i + 1]) THEN ps
        ELSE IF repeat(i) THEN Append(ps, Point(in[i] + 1, i - 1))
        ELSE Append(ps, Point(in[i], i - 1))
      inner == FoldLeftDomain(Inner, <<>>, in)
      last == IF n = 1 \/ ~repeat(n) THEN <<Point(in[n], n - 1)>> ELSE <<>>
  IN inner \o last \o <<Point(in[n] + 1, n)>>

Segmentation(in, epsilon) ==
  FoldLeft(LAMBDA st, p : Fed(st, p, epsilon),
           [hull |-> NoPoints, out |-> <<>>, seen |-> << <<>> >>], Points(in))

(* make_segmentation().  make_segmentation_par() calls it for the whole    *)
(* sequence: the builds of the repository do not turn OpenMP on.           *)
MakeSegmentation(in, epsilon) ==
  LET Closed(end) == Append(end.out, Segment(end.hull))
  IN Closed(Segmentation(in, epsilon))
=============================================================================
