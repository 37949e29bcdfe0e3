---------------------------- MODULE MCLeafWindows ----------------------------
(* Instances of LeafWindows for TLC.                                        *)
EXTENDS LeafWindows

(* The array with the given gaps between its keys.                          *)
WithGaps(gaps) ==
  [i \in 0..Len(gaps) |-> FoldLeft(+, 0, SubSeq(gaps, 1, i))]

(* A dense block and an uneven one; a run of equal keys; a leaf with errors *)
(* on both sides.                                                           *)
MCArrays ==
  {WithGaps(<<1, 1, 1, 30, 4, 1, 1, 4>>),
   WithGaps(<<3, 0, 0, 0, 0, 0, 9>>),
   WithGaps(<<2, 1, 1, 20, 3, 2, 20>>)}

MCNewKeys == {3}

Times(n, gap) == [i \in 1..n |-> gap]

(* Sixty keys: sparse, dense, then sparse again, and five dense blocks.     *)
Skewed ==
  LET block == <<100>> \o Times(5, 1)
  IN WithGaps(Times(2, 11) \o Times(11, 1) \o Times(15, 4)
              \o block \o block \o block \o block \o block \o <<100>>)

SkewedOnly == {Skewed}
==============================================================================
