---------------------------- MODULE MCLeafRouting ----------------------------
(* Instances of LeafRouting for TLC: every way to cut a sorted array of    *)
(* MCSize keys into leaves and these into root segments, for arrays that   *)
(* are strictly increasing or hold runs of equal keys.                     *)
EXTENDS LeafRouting, FiniteSets

CONSTANT MCSize

Arrays == {[i \in 0..MCSize-1 |-> 2 * i + 1],
           [i \in 0..MCSize-1 |-> 2 * (i \div 2) + 1],
           [i \in 0..MCSize-1 |-> IF i < 2 THEN 1 ELSE 3]}

(* The parts that begin at 0 and at every cut.                             *)
CutAt(cuts) ==
  LET starts == cuts \cup {0}
  IN [i \in 0..Cardinality(cuts) |->
        CHOOSE x \in starts : Cardinality({y \in starts : y < x}) = i]

Layout(a, cuts, rootcuts) ==
  [n |-> MCSize, keys |-> a,
   nseg |-> Cardinality(cuts) + 1, pos_lo |-> CutAt(cuts),
   nr |-> Cardinality(rootcuts) + 1, leaf_lo |-> CutAt(rootcuts)]

MCLayouts ==
  {Layout(d[1], d[2], d[3]) :
     d \in {c \in Arrays \X (SUBSET (1..MCSize-1)) \X (SUBSET (1..MCSize-1)) :
              c[3] \subseteq 1..Cardinality(c[2])}}

MCLookupKeys == 0..2*MCSize
=============================================================================
