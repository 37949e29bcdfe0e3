--------------------------- MODULE MCInsertBuffer ---------------------------
(* Instances of InsertBuffer for TLC: two keys, a hot buffer of two        *)
(* entries and a flush ratio of 3/2, so that merges without a flush,       *)
(* flushes, and builds over non-empty buffers all happen within the bounds.*)
EXTENDS InsertBuffer, TLC

KeySymmetry == Permutations(Keys)
=============================================================================
