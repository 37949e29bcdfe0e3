----------------------------- MODULE MCAlexTree -----------------------------
(* Three keys far above the lower end of the key type: an expansion of the *)
(* domain is not cut off.  Between the outer ones, stretches halve exactly *)
(* and the middle one lies on a boundary.                                  *)
EXTENDS AlexTree

MCKeys == {128, 144, 256}

(* The domain of two neighbours is half of that of all three keys: where   *)
(* one expansion ends, or a bulk load is halved, there is a key.           *)
EvenKeys == {128, 160, 192}

(* The last key of the domain of the first two, and one so far above that  *)
(* the root gets a new root above it.                                      *)
LateKeys == {128, 160, 256}

(* A dense domain and a key so far above it that no int holds its bucket.  *)
FarKeys == {128, 160, 1000}

(* Keys so low that the domain is cut off at the lower end of the type.    *)
LowKeys == {1, 2, 4, 12, 26}

AnyHair == -1..1

(* Data nodes cost nothing, little, much, less the deeper they are, or are *)
(* dear in one half of the key space.                                      *)
MCCosts ==
  {[x \in TreeNodes |-> 0], [x \in TreeNodes |-> 9], [x \in TreeNodes |-> 8 - 4 * x[1]]} \cup
  {[x \in TreeNodes |-> IF x \in {RootNode, <<1, half>>} THEN 20 ELSE 0] : half \in 0..1}

(* Nothing pays but what has to be: nodes are halved.                      *)
NoCosts == {[x \in TreeNodes |-> 0]}

(* Deeper data nodes cost less.                                            *)
FallingCosts == {[x \in TreeNodes |-> 8 - 4 * x[1]]}
=============================================================================
