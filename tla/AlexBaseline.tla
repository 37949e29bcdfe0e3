---------------------------- MODULE AlexBaseline ----------------------------
(***************************************************************************)
(* ALEXIndex, the adapter of ALEX: it counts what it hands on.  The tree   *)
(* behind it, which AlexTree is about, is the number of entries it stores  *)
(* of each key; it refuses to be loaded twice.                             *)
(***************************************************************************)
EXTENDS Entries

VARIABLES alex_idx,    \* idx_: how many entries each key has
          alex_size    \* size_

alex_vars == <<alex_idx, alex_size>>

AlexInit == alex_idx = [k \in Keys |-> 0] /\ alex_size = 0

Stored == {k \in Keys : alex_idx[k] > 0}

(* build() for sorted data, and Alex::bulk_load(), which returns at once   *)
(* when the tree has entries; the adapter's count is overwritten anyway.   *)
AlexBuild(data) ==
  /\ alex_idx' = IF Stored # {} THEN alex_idx
                 ELSE [k \in Keys |-> Cardinality({i \in DOMAIN data : data[i].key = k})]
  /\ alex_size' = IF data = <<>> THEN alex_size ELSE Len(data)

AlexInsert(e) ==
  /\ alex_idx' = [alex_idx EXCEPT ![e.key] = @ + 1]
  /\ alex_size' = alex_size + 1
=============================================================================
