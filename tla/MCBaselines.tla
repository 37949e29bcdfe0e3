---------------------------- MODULE MCBaselines ----------------------------
(* Clustered keys with gaps and runs of equal keys, among them the fewest  *)
(* found that give the PGM-index three levels, and some for which a wrong  *)
(* hull gives it other segments; a single key; nothing.  Key 45 is the     *)
(* greatest of the key type.                                               *)
EXTENDS Baselines

MCKeys == {2, 16, 26, 27, 35, 37, 44, 45}

Data(keys) == [i \in DOMAIN keys |-> E(keys[i], Built)]

MCDataSets ==
  {Data(keys) : keys \in {<<>>, <<26>>, <<2, 2, 35>>, <<2, 16, 16, 27, 37>>,
                          <<16, 26, 27, 35, 45>>, <<2, 2, 2, 35, 35, 44>>,
                          <<2, 2, 16, 16, 16, 26, 26, 44>>,
                          <<2, 16, 26, 26, 26, 27, 27, 27, 27, 35, 37, 37, 37, 37>>}}
=============================================================================
