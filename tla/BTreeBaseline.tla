--------------------------- MODULE BTreeBaseline ---------------------------
(***************************************************************************)
(* BTreeIndex, the B+ tree the index is compared with: a bulk-loaded tree  *)
(* whose inserts go into the root while that is a leaf with room, and else *)
(* wait in a list until there are enough to load the tree afresh.          *)
(*                                                                         *)
(* bt_leaves is leaf_pool_, which the leaves' links repeat; bt_levels are  *)
(* the levels of internal_pool_, lowest first, each node with its          *)
(* separators and the place of its first child in the level below.         *)
(***************************************************************************)
EXTENDS Entries, FiniteSetsExt, SequencesExt

CONSTANTS Order,        \* BTREE_ORDER, keys per node (64 in the code)
          FlushFactor   \* flush at Order * FlushFactor waiting inserts (4)

ASSUME OrderAssumption == Order \in Nat /\ Order >= 2
ASSUME FlushFactorAssumption == FlushFactor \in Nat \ {0}

VARIABLES bt_leaves, bt_levels,
          bt_pending,   \* pending_inserts_
          bt_n,         \* n_
          bt_height     \* height_

bt_vars == <<bt_leaves, bt_levels, bt_pending, bt_n, bt_height>>

BtInit ==
  /\ bt_leaves = <<>> /\ bt_levels = <<>> /\ bt_pending = <<>>
  /\ bt_n = 0 /\ bt_height = 0

(* Runs of at most size consecutive places of 1..n.                        *)
Runs(n, size) ==
  [j \in 1..((n + size - 1) \div size) |-> <<(j - 1) * size + 1, Min({j * size, n})>>]

LeavesFor(data) ==
  LET runs == Runs(Len(data), (Order * 3) \div 4)
  IN [j \in DOMAIN runs |-> SubSeq(data, runs[j][1], runs[j][2])]

(* Slip: a separator is the child's first separator, not its least key, as *)
(* it once was.                                                            *)
LevelOverFirstKeys(mins) ==
  LET runs == Runs(Len(mins), Order + 1)
  IN [nodes |-> [j \in DOMAIN runs |->
                   [keys |-> SubSeq(mins, runs[j][1] + 1, runs[j][2]), first |-> runs[j][1]]],
      mins |-> [j \in DOMAIN runs |-> mins[Min({runs[j][1] + 1, runs[j][2]})]]]

(* One level over nodes of the given least keys.                           *)
LevelOver(mins) ==
  LET runs == Runs(Len(mins), Order + 1)
  IN [nodes |-> [j \in DOMAIN runs |->
                   [keys |-> SubSeq(mins, runs[j][1] + 1, runs[j][2]), first |-> runs[j][1]]],
      mins |-> [j \in DOMAIN runs |-> mins[runs[j][1]]]]

(* The levels over the leaves, up to the first that is a single node.      *)
LevelsFor(leaves) ==
  LET mins[l \in 0..Len(leaves)] ==   \* least keys of the nodes l levels up
        IF l = 0 THEN [j \in DOMAIN leaves |-> leaves[j][1].key]
        ELSE LET below == mins[l - 1]
             IN IF Len(below) = 1 THEN below ELSE LevelOver(below).mins
      height == Min({l \in DOMAIN mins : Len(mins[l]) <= 1})
  IN [l \in 1..height |-> LevelOver(mins[l - 1]).nodes]

(* build(), also as the end of a flush.                                    *)
BtBuild(data) ==
  LET leaves == LeavesFor(data)
      levels == LevelsFor(leaves)
  IN /\ bt_leaves' = leaves
     /\ bt_levels' = levels
     /\ bt_height' = IF data = <<>> THEN 0 ELSE Len(levels) + 1
     /\ bt_n' = Len(data)
     /\ bt_pending' = <<>>

(* lookup(): the leaf the separators lead to, and the first entry of the   *)
(* key in it.                                                              *)
LeafFor(k) ==
  LET node[l \in 0..Len(bt_levels)] ==   \* l steps below the root
        IF l = 0 THEN 1
        ELSE LET parent == bt_levels[Len(bt_levels) + 1 - l][node[l - 1]]
             IN parent.first + Cardinality({i \in DOMAIN parent.keys : parent.keys[i] <= k})
  IN bt_leaves[node[Len(bt_levels)]]

Answer(s, k) ==
  LET i == LowerBoundOf(s, k) + 1
  IN IF i <= Len(s) /\ s[i].key = k THEN {s[i]} ELSE {}

BtLookup(k) == IF bt_leaves = <<>> THEN {} ELSE Answer(LeafFor(k), k)

(* Slip: the entries after the new one are not moved.                      *)
InsertSortedLast(leaf, e) == Append(leaf, e)

(* insert_sorted(): behind the entries of keys up to its own.              *)
InsertSorted(leaf, e) ==
  LET i == Cardinality({j \in DOMAIN leaf : leaf[j].key <= e.key})
  IN InsertAt(leaf, i + 1, e)

(* Slip: the waiting inserts are dropped before they are collected.        *)
FlushLosesPending(pending) ==
  \E all \in Deduplicated(FlattenSeq(bt_leaves)) : BtBuild(all)

(* flush_inserts().                                                        *)
BtFlush(pending) ==
  \E all \in Deduplicated(FlattenSeq(bt_leaves) \o pending) : BtBuild(all)

RootLeafHasRoom == bt_levels = <<>> /\ Len(bt_leaves[1]) < Order

(* insert().  The leaf of an insert into an empty tree leaves height_ as   *)
(* it is.                                                                  *)
BtInsert(e) ==
  LET pending == Append(bt_pending, e)
  IN \/ /\ bt_leaves = <<>>
        /\ bt_leaves' = << <<e>> >>
        /\ bt_n' = bt_n + 1
        /\ UNCHANGED <<bt_levels, bt_pending, bt_height>>
     \/ /\ bt_leaves # <<>> /\ RootLeafHasRoom
        /\ bt_leaves' = <<InsertSorted(bt_leaves[1], e)>>
        /\ bt_n' = bt_n + 1
        /\ UNCHANGED <<bt_levels, bt_pending, bt_height>>
     \/ /\ bt_leaves # <<>> /\ ~RootLeafHasRoom
        /\ IF Len(pending) >= Order * FlushFactor
             THEN BtFlush(pending)
             ELSE /\ bt_pending' = pending
                  /\ bt_n' = bt_n + 1
                  /\ UNCHANGED <<bt_leaves, bt_levels, bt_height>>

BtStored == FlattenSeq(bt_leaves)
BtHeld == KeysOf(BtStored) \cup KeysOf(bt_pending)
=============================================================================
