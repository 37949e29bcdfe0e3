----------------------------- MODULE FanoutTree -----------------------------
(***************************************************************************)
(* How ALEX chooses the children of a node: a fanout tree halves the key   *)
(* space of the node again and again, to a complete level; neighbours are  *)
(* then merged where that costs less.                                      *)
(*                                                                         *)
(* A sample gives, for each node of the fanout tree, its keys and the cost *)
(* per key a data node of them would have: nodes are pairs of a level and  *)
(* a number.  All costs are times the number of keys, the weights of sizes *)
(* times total_keys: what the code divides by is gone, and nothing rounds. *)
(* The rules only compare sums of costs; any cost may be in a sample.      *)
(***************************************************************************)
LOCAL INSTANCE Integers
LOCAL INSTANCE Sequences
LOCAL INSTANCE SequencesExt
LOCAL INSTANCE FiniteSets
LOCAL INSTANCE FiniteSetsExt

CONSTANTS MaxDepth,     \* log2 of max_fanout
          NodeLookups,  \* kNodeLookupsWeight
          NodeSize,     \* kModelSizeWeight * sizeof(AlexDataNode) * total_keys
          PointerSize,  \* kModelSizeWeight * sizeof(void*) * total_keys
          LoadMax       \* max_data_node_keys

ASSUME WeightsAssumption ==
  MaxDepth \in Nat \ {0} /\ {NodeLookups, NodeSize, PointerSize, LoadMax} \subseteq Nat

MaxFanout == 2 ^ MaxDepth
NodesAt(level) == {level} \X (0..2 ^ level - 1)
TreeNodes == UNION {NodesAt(level) : level \in 0..MaxDepth}
Halves(x) == {<<x[1] + 1, 2 * x[2]>>, <<x[1] + 1, 2 * x[2] + 1>>}
RootNode == <<0, 0>>

-----------------------------------------------------------------------------
(* collect_used_nodes(): the runs of buckets of the nodes used, from left  *)
(* to right.                                                               *)
Collected(used, depth) ==
  LET first(x) == x[2] * 2 ^ (depth - x[1])
      order == SetToSortSeq(used, LAMBDA x, y : first(x) < first(y))
  IN [i \in DOMAIN order |-> 2 ^ (depth - order[i][1])]

-----------------------------------------------------------------------------
Weight(s, x) == s.cost[x] * s.keys[x]
WeightOf(s, nodes) == MapThenSumSet(LAMBDA x : Weight(s, x), nodes)

(* The tree as bulk loading sees it: the root is the node itself, one level*)
(* further away, and a node too large for a data node costs a level more.  *)
Loaded(s) ==
  [s EXCEPT !.cost = [x \in TreeNodes |->
     s.cost[x] + IF x = RootNode \/ s.keys[x] > LoadMax THEN NodeLookups ELSE 0]]

Traversal(s, level) == NodeLookups * s.keys[RootNode] + 2 ^ level * (NodeSize + PointerSize)

(* compute_level(): what a complete level costs.                           *)
LevelCost(s, level) == WeightOf(s, NodesAt(level)) + Traversal(s, level)

(* For bulk loading, the cost of the root itself is what level 0 costs.    *)
Costs(s, loading, deepest) ==
  [level \in 0..deepest |->
     IF loading /\ level = 0 THEN Weight(s, RootNode) ELSE LevelCost(s, level)]

(* Levels are added until the cost has risen twice in a row.               *)
LastLevel(costs) ==
  Min({level \in DOMAIN costs \ {0, 1} : /\ costs[level] > costs[level - 1]
                                         /\ costs[level - 1] > costs[level - 2]}
      \cup {Cardinality(DOMAIN costs)}) - 1

BestLevel(costs) ==
  CHOOSE level \in 0..LastLevel(costs) :
    \A other \in 0..LastLevel(costs) :
      costs[other] > costs[level] \/ (costs[other] = costs[level] /\ other >= level)

Saving(s, x) == WeightOf(s, Halves(x)) - Weight(s, x) + NodeSize

(* Slip: a merge is made for the keys that it takes away from one half.    *)
MergedOneHalf(s, used, level) ==
  {x \in NodesAt(level - 1) : Halves(x) \cap used # {} /\ (s.keys[x] = 0 \/ Saving(s, x) >= 0)}

(* The nodes of a level whose halves are merged.                           *)
Merged(s, used, level) ==
  {x \in NodesAt(level - 1) : Halves(x) \subseteq used /\ (s.keys[x] = 0 \/ Saving(s, x) >= 0)}

(* merge_nodes_upwards()                                                   *)
RECURSIVE MergeUpwards(_, _, _, _)
MergeUpwards(s, level, used, cost) ==
  LET merged == IF level = 0 THEN {} ELSE Merged(s, used, level)
      saved(x) == IF s.keys[x] = 0 THEN NodeSize ELSE Saving(s, x)
  IN IF merged = {} THEN [used |-> used, cost |-> cost]
     ELSE MergeUpwards(s, level - 1, (used \ UNION {Halves(x) : x \in merged}) \cup merged,
                       cost - MapThenSumSet(saved, merged))

(* find_best_fanout_bottom_up() when loading, and                          *)
(* find_best_fanout_existing_node() when a data node refuses a key.        *)
BottomUp(s, loading, deepest) ==
  LET t == IF loading THEN Loaded(s) ELSE s
      costs == Costs(t, loading, deepest)
      depth == BestLevel(costs)
      merge == MergeUpwards(t, depth, NodesAt(depth), costs[depth])
  IN [depth |-> depth, used |-> merge.used, cost |-> merge.cost]

(* find_best_fanout_top_down(): a node is halved when the size of one more *)
(* data node is less than its cost; the costs of the halves are not added. *)
RECURSIVE TopDownFrom(_, _, _, _)
TopDownFrom(s, level, used, cost) ==
  LET split == {x \in used : x[1] = level /\ s.keys[x] > 0 /\ NodeSize < Weight(s, x)}
      savings == WeightOf(s, split) - NodeSize * Cardinality(split)
      pointers == PointerSize * 2 ^ level
  IN IF level = MaxDepth \/ split = {} \/ pointers > savings
     THEN [depth |-> level, used |-> used, cost |-> cost]
     ELSE TopDownFrom(s, level + 1, (used \ split) \cup UNION {Halves(x) : x \in split},
                      cost - savings + pointers)

TopDown(s) ==
  LET t == [s EXCEPT !.cost[RootNode] = @ + NodeLookups]
  IN TopDownFrom(t, 0, {RootNode}, Weight(t, RootNode))
=============================================================================
