------------------------------ MODULE Entries ------------------------------
(***************************************************************************)
(* Entries of the baseline indexes, and what their flushes do to them.     *)
(* Of a value only its origin is kept: the data an index was built from,   *)
(* or a later insert.                                                      *)
(***************************************************************************)
EXTENDS Integers, Sequences, FiniteSets

CONSTANTS Keys,      \* a set of naturals
          Built,     \* the value of an entry of the data
          Inserted   \* the value of an inserted entry

ASSUME KeysAssumption == Keys \subseteq Nat /\ IsFiniteSet(Keys)
ASSUME ValuesAssumption == Built # Inserted

Values == {Built, Inserted}
Entry == [key : Keys, val : Values]
E(k, v) == [key |-> k, val |-> v]

KeysOf(s) == {s[i].key : i \in DOMAIN s}

(* std::sort by key.  Entries of one key stay in place: where the code     *)
(* does not, it either drops all of them but one or they are alike.        *)
SortedByKey(s) ==
  LET before(i) == {j \in DOMAIN s : s[j].key < s[i].key \/ (s[j].key = s[i].key /\ j < i)}
  IN [p \in DOMAIN s |-> s[CHOOSE i \in DOMAIN s : Cardinality(before(i)) = p - 1]]

KeysInOrder(s) ==
  [p \in 1..Cardinality(KeysOf(s)) |->
     CHOOSE k \in KeysOf(s) : Cardinality({j \in KeysOf(s) : j < k}) = p - 1]

KeysWith(s, v) == {s[i].key : i \in {j \in DOMAIN s : s[j].val = v}}

(* std::sort and std::unique by key: of the entries of a key any one may   *)
(* be left.                                                                *)
Deduplicated(s) ==
  LET keys == KeysInOrder(s)
      both == KeysWith(s, Inserted) \cap KeysWith(s, Built)
      Kept(new) == [i \in DOMAIN keys |-> E(keys[i], IF keys[i] \in new THEN Inserted ELSE Built)]
  IN {Kept((KeysWith(s, Inserted) \ both) \cup x) : x \in SUBSET both}

(* Places from zero, as the code counts, at which s has a key below k.     *)
LowerBoundOf(s, k) == Cardinality({i \in DOMAIN s : s[i].key < k})
=============================================================================
