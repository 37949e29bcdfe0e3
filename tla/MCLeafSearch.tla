---------------------------- MODULE MCLeafSearch ----------------------------
(* Instances of LeafSearch for TLC: every sorted array of up to four keys  *)
(* out of three, so that duplicates straddle the edges of leaf and window, *)
(* and one strictly increasing array long enough for three doublings in    *)
(* both directions.  Odd keys are stored, even ones are missing.           *)
EXTENDS LeafSearch

Short == {a \in UNION {[0..n-1 -> {1, 3, 5}] : n \in 1..4} : Sorted(a)}
Long == [i \in 0..11 |-> 2 * i + 1]

MCArrays == Short \cup {Long}
MCQueryKeys == 0..24
=============================================================================
