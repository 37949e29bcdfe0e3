--------------------------- MODULE MCAlexDataNode ---------------------------
(* Two keys with up to four entries: duplicates, both orders of payloads,  *)
(* and gaps in front of, between and behind the runs of a key.             *)
EXTENDS AlexDataNode, TLC

PayloadSymmetry == Permutations(Payloads)
=============================================================================
