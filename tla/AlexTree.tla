------------------------------ MODULE AlexTree ------------------------------
(***************************************************************************)
(* The tree of the vendored ALEX index: model nodes that divide a stretch  *)
(* of the key space into a power of two of equal buckets, and data nodes   *)
(* at the leaves, linked to their neighbours.  Adjacent buckets may point  *)
(* to the same child; their number is two to the duplication factor.       *)
(*                                                                         *)
(* A data node is the bag of its keys: AlexDataNode shows that it is no    *)
(* less.  What the data costs is left open: the costs of data nodes are    *)
(* any of CostPatterns, and a crowded data node may refuse an insert.      *)
(* Predictions are exact, except those of the keys of Rounded: a model may *)
(* predict such a key a hair below or above its exact bucket, and when it  *)
(* lies on the boundary of two new nodes it may end up on either side.     *)
(***************************************************************************)
EXTENDS Integers, Sequences, SequencesExt, FiniteSets, FiniteSetsExt, Functions, TLC,
        FanoutTree

CONSTANTS Keys,
          KeyMax,       \* the largest value of the key type; the smallest is 0
          CostPatterns, \* costs of the data nodes of a fanout tree
          Crowd,        \* keys a data node holds at least when its cost makes it refuse one
          MinWidth,     \* bound: a data node of fewer key values is not split
          Rounded,      \* keys that predictions and boundaries may be rounded for
          ShiftHairs,   \* bound: what a line that was shifted may be off, of -1..1
          IntMax,       \* the largest int
          MinOut,       \* kMinOutOfDomainKeys
          MaxOut,       \* kMaxOutOfDomainKeys
          Tolerance,    \* kOutOfDomainToleranceFactor
          MaxCount,     \* bound: entries of one key
          MaxTotal      \* bound: entries of the index

ASSUME KeysAssumption == Keys \subseteq 1..KeyMax /\ IsFiniteSet(Keys)
ASSUME SizesAssumption ==
  {Crowd, MinWidth, MinOut, MaxOut, Tolerance, IntMax} \subseteq Nat \ {0}

VARIABLES tree,   \* heap: the nodes by identity; root
          dom,    \* istats_: the key domain and what is counted about it
          num,    \* stats_.num_keys
          op      \* the operation under way

vars == <<tree, dom, num, op>>

Super == 0     \* superroot_, a parent with one child
Nil == -1      \* nullptr

Idle == [pc |-> "idle"]
Total(bag) == SumFunction(bag)
Held(bag) == {k \in Keys : bag[k] > 0}
Empty == [k \in Keys |-> 0]
Only(bag, keys) == [k \in Keys |-> IF k \in keys THEN bag[k] ELSE 0]

(* first_key() and last_key() of an empty data node are the limits of the  *)
(* key type.                                                               *)
FirstKey(leaf) == Min(Held(leaf.bag) \cup {KeyMax})
LastKey(leaf) == Max(Held(leaf.bag) \cup {0})

IsLeaf(t, id) == t.heap[id].kind = "data"
Fanout(nd) == Cardinality(DOMAIN nd.kids)
Kids(t, p) == IF p = Super THEN (0 :> t.root) ELSE t.heap[p].kids
Log2(x) == CHOOSE d \in 0..x : 2 ^ d = x

NewLeaf(bag, dup) == [kind |-> "data", bag |-> bag, dup |-> dup, prev |-> Nil, next |-> Nil]

(* n identities that no node has.                                          *)
NewIds(t, n) ==
  LET free == (1..Cardinality(DOMAIN t.heap) + n) \ DOMAIN t.heap
  IN [i \in 1..n |-> CHOOSE id \in free : Cardinality({f \in free : f < id}) = i - 1]

(* Redirect the buckets from..to - 1 of a parent.                          *)
Redirect(t, p, from, to, id) ==
  IF p = Super THEN [t EXCEPT !.root = id]
  ELSE [t EXCEPT !.heap[p].kids = [b \in DOMAIN @ |-> IF b \in from..to - 1 THEN id ELSE @[b]]]

DeleteNodes(t, ids) == [t EXCEPT !.heap = Restrict(@, DOMAIN @ \ ids)]

SetPrev(t, id, to) == IF id = Nil THEN t ELSE [t EXCEPT !.heap[id].prev = to]
SetNext(t, id, to) == IF id = Nil THEN t ELSE [t EXCEPT !.heap[id].next = to]

-----------------------------------------------------------------------------
(* A hair: what a model is off at a key, below (-1) or above (1) the bucket*)
(* it predicts exactly.                                                    *)
Hairs == [Rounded -> -1..1]
Hair(nd, key) == IF key \in Rounded THEN nd.hair[key] ELSE 0

(* A double that no int holds is cast to the least int (x86).              *)
AsInt(x) == IF x \in -IntMax..IntMax THEN x ELSE -IntMax - 1

(* What the model of a node predicts: exactly, as an int, and cut off.     *)
Exact(nd, key) == ((key - nd.lo) * Fanout(nd)) \div nd.width
OnBoundary(nd, key) == ((key - nd.lo) * Fanout(nd)) % nd.width = 0
Predict(nd, key) ==
  AsInt(Exact(nd, key) - IF OnBoundary(nd, key) /\ Hair(nd, key) = -1 THEN 1 ELSE 0)
Bucket(nd, key) == Max({0, Min({Predict(nd, key), Fanout(nd) - 1})})

(* A prediction within 10 ulp of an integer; at 0 the tolerance is 0.      *)
NearBoundary(nd, key) ==
  /\ OnBoundary(nd, key)
  /\ Exact(nd, key) \in 1..IntMax \/ (Exact(nd, key) = 0 /\ Hair(nd, key) = 0)

(* The pairs of node and bucket from the superroot down to the parent of   *)
(* the data node a key is predicted to be in.                              *)
RECURSIVE Descend(_, _, _)
Descend(t, key, path) ==
  LET child == Kids(t, Last(path)[1])[Last(path)[2]]
  IN IF IsLeaf(t, child) THEN path
     ELSE Descend(t, key, Append(path, <<child, Bucket(t.heap[child], key)>>))

PathTo(t, key) == Descend(t, key, <<<<Super, 0>>>>)
LeafAt(t, path) == Kids(t, Last(path)[1])[Last(path)[2]]

(* Slip: the last key on the left must exceed the key.                     *)
GoesLeftPastKey(t, key) ==
  LET path == PathTo(t, key)
      parent == Last(path)[1]
      prev == t.heap[LeafAt(t, path)].prev
  IN /\ parent # Super /\ NearBoundary(t.heap[parent], key) /\ Hair(t.heap[parent], key) >= 0
     /\ prev # Nil /\ LastKey(t.heap[prev]) > key

(* get_leaf() with ALEX_SAFE_LOOKUP: a prediction close to the boundary of *)
(* two buckets may be off.  From the right of it the key is sought on the  *)
(* left if that data node reaches up to it ...                             *)
GoesLeft(t, key) ==
  LET path == PathTo(t, key)
      parent == Last(path)[1]
      prev == t.heap[LeafAt(t, path)].prev
  IN /\ parent # Super
     /\ NearBoundary(t.heap[parent], key)
     /\ Hair(t.heap[parent], key) >= 0
     /\ prev # Nil
     /\ LastKey(t.heap[prev]) >= key

(* ... and from the left of it on the right if that one reaches down to it.*)
GoesRight(t, key) ==
  LET path == PathTo(t, key)
      parent == Last(path)[1]
      next == t.heap[LeafAt(t, path)].next
  IN /\ parent # Super
     /\ NearBoundary(t.heap[parent], key)
     /\ Hair(t.heap[parent], key) = -1
     /\ next # Nil
     /\ FirstKey(t.heap[next]) <= key

GetLeaf(t, key) ==
  LET leaf == LeafAt(t, PathTo(t, key))
  IN IF GoesLeft(t, key) THEN t.heap[leaf].prev
     ELSE IF GoesRight(t, key) THEN t.heap[leaf].next
     ELSE leaf

(* correct_traversal_path().  The correction of an ancestor's bucket is    *)
(* written through a reference to a popped element and is lost.            *)
RunStart(bucket, repeats) == bucket - (bucket % repeats)

RECURSIVE ClimbLeft(_, _, _)
ClimbLeft(t, path, repeats) ==
  LET start == RunStart(Last(path)[2], repeats)
  IN IF start # 0 THEN <<path, start - 1>>
     ELSE ClimbLeft(t, Front(path), 2 ^ t.heap[Last(path)[1]].dup)

RECURSIVE ClimbRight(_, _, _)
ClimbRight(t, path, repeats) ==
  LET end == RunStart(Last(path)[2], repeats) + repeats
  IN IF end # Cardinality(DOMAIN Kids(t, Last(path)[1])) THEN <<path, end>>
     ELSE ClimbRight(t, Front(path), 2 ^ t.heap[Last(path)[1]].dup)

(* Down to the last, or the first, data node below a child.                *)
RECURSIVE DescendEdge(_, _, _, _)
DescendEdge(t, path, child, left) ==
  IF IsLeaf(t, child) THEN path
  ELSE LET bucket == IF left THEN Fanout(t.heap[child]) - 1 ELSE 0
       IN DescendEdge(t, Append(path, <<child, bucket>>), t.heap[child].kids[bucket], left)

(* The path to the neighbour: beside the leaf's run of buckets, or through *)
(* an ancestor when the run is at the edge of the parent.                  *)
PathBeside(t, path, leaf, left) ==
  LET repeats == 2 ^ t.heap[leaf].dup
      climbed == IF left THEN ClimbLeft(t, path, repeats) ELSE ClimbRight(t, path, repeats)
      ancestor == Last(climbed[1])[1]
  IN IF climbed[1] = path THEN Append(Front(path), <<ancestor, climbed[2]>>)
     ELSE DescendEdge(t, climbed[1], Kids(t, ancestor)[climbed[2]], left)

(* get_leaf() with the path an insert or a merge asks for.                 *)
TraversalPath(t, key) ==
  LET path == PathTo(t, key)
  IN IF GoesLeft(t, key) THEN PathBeside(t, path, LeafAt(t, path), TRUE)
     ELSE IF GoesRight(t, key) THEN PathBeside(t, path, LeafAt(t, path), FALSE)
     ELSE path

(* NodeIterator: the data nodes below a node from left to right; a child   *)
(* is visited once for all adjacent buckets that point to it.              *)
RECURSIVE LeavesBelow(_, _)
LeavesBelow(t, id) ==
  IF IsLeaf(t, id) THEN <<id>>
  ELSE LET kids == t.heap[id].kids
           visits == SelectSeq([i \in 1..Fanout(t.heap[id]) |-> i - 1],
                               LAMBDA b : b = 0 \/ kids[b] # kids[b - 1])
       IN FlattenSeq([i \in DOMAIN visits |-> LeavesBelow(t, kids[visits[i]])])

Leaves(t) == LeavesBelow(t, t.root)

(* link_all_data_nodes()                                                   *)
LinkAll(t) ==
  LET order == Leaves(t)
      at(id) == CHOOSE i \in DOMAIN order : order[i] = id
  IN [t EXCEPT !.heap =
       [id \in DOMAIN @ |->
          IF id \notin Range(order) THEN @[id]
          ELSE [@[id] EXCEPT !.prev = IF at(id) = 1 THEN Nil ELSE order[at(id) - 1],
                             !.next = IF at(id) = Len(order) THEN Nil
                                      ELSE order[at(id) + 1]]]]

MinKey(t) == FirstKey(t.heap[Head(Leaves(t))])
MaxKey(t) == LastKey(t.heap[Last(Leaves(t))])

(* update_superroot_key_domain()                                           *)
DomainOf(t) ==
  [min |-> MinKey(t), max |-> MaxKey(t), above |-> 0, below |-> 0,
   atRight |-> num, atLeft |-> num]

-----------------------------------------------------------------------------
(* The keys of a node in front of a bucket of its parent's: those below    *)
(* the bucket's boundary, keys of stay on it included, and next to them    *)
(* those that the parent predicts below it.                                *)
InFront(nd, keys, bucket, stay) ==
  LET below(k) == \/ Exact(nd, k) < bucket
                  \/ Exact(nd, k) = bucket /\ OnBoundary(nd, k) /\ k \in stay
                  \/ Predict(nd, k) < bucket
  IN {k \in keys : \A j \in keys : j <= k => below(j)}

(* The runs of a parent's buckets from start on: where they begin, and the *)
(* keys of the i-th one; keys outside of all runs go to the outer ones.    *)
RunStarts(start, runs) ==
  [i \in 1..Len(runs) + 1 |-> start + FoldSeq(+, 0, SubSeq(runs, 1, i - 1))]

KeysOfRun(nd, keys, from, i, stay) ==
  LET upTo(x) == IF x = 1 THEN {} ELSE IF x = Len(from) THEN keys
                 ELSE InFront(nd, keys, from[x], stay)
  IN upTo(i + 1) \ upTo(i)

(* Replace a data node by new ones for consecutive runs of its parent's    *)
(* buckets, and link them: create_two_new_data_nodes() and                 *)
(* create_new_data_nodes().                                                *)
NewDataNodes(t, p, old, start, runs, stay) ==
  LET n == Len(runs)
      ids == NewIds(t, n)
      leaf == t.heap[old]
      from == RunStarts(start, runs)
      part(i) == KeysOfRun(t.heap[p], Held(leaf.bag), from, i, stay)
      new(i) == [NewLeaf(Only(leaf.bag, part(i)), Log2(runs[i])) EXCEPT
                   !.prev = IF i = 1 THEN leaf.prev ELSE ids[i - 1],
                   !.next = IF i = n THEN leaf.next ELSE ids[i + 1]]
      at(b) == CHOOSE i \in 1..n : from[i] <= b /\ b < from[i + 1]
      added == [t EXCEPT !.heap = [id \in Range(ids) |->
                                     new(CHOOSE i \in 1..n : ids[i] = id)] @@ @,
                         !.heap[p].kids = [b \in DOMAIN @ |->
                             IF b \in start..from[n + 1] - 1 THEN ids[at(b)] ELSE @[b]]]
  IN SetPrev(SetNext(DeleteNodes(added, {old}), leaf.prev, ids[1]), leaf.next, ids[n])

FirstOfRun(t, p, bucket) == RunStart(bucket, 2 ^ t.heap[Kids(t, p)[bucket]].dup)

(* A new model node of a stretch of the key space, its buckets not filled. *)
NewModel(stretch, fanout, dup, hair) ==
  [kind |-> "model", lo |-> stretch.lo, width |-> stretch.width, hair |-> hair,
   kids |-> [b \in 0..fanout - 1 |-> Nil], dup |-> dup]

(* The stretch of the key space of the buckets that point to one child.    *)
Stretch(t, p, bucket) ==
  LET nd == t.heap[p]
      repeats == 2 ^ t.heap[Kids(t, p)[bucket]].dup
  IN IF p = Super THEN [lo |-> dom.min, width |-> dom.max - dom.min]
     ELSE [lo |-> nd.lo + (nd.width * FirstOfRun(t, p, bucket)) \div Fanout(nd),
           width |-> (nd.width * repeats) \div Fanout(nd)]

(* split_downwards()                                                       *)
SplitDownwards(t, p, bucket, depth, tiling, stay, hair) ==
  LET old == Kids(t, p)[bucket]
      leaf == t.heap[old]
      start == IF p = Super THEN 0 ELSE FirstOfRun(t, p, bucket)
      id == NewIds(t, 1)[1]
      model == NewModel(Stretch(t, p, bucket), 2 ^ depth, leaf.dup, hair)
      hung == Redirect([t EXCEPT !.heap = (id :> model) @@ @], p, start, start + 2 ^ leaf.dup, id)
  IN [tree |-> NewDataNodes(hung, id, old, 0, tiling, stay), parent |-> id]

(* Slip: the children keep their duplication factor.                       *)
ExpandPointers(t, p, log2) ==
  [t EXCEPT !.heap[p].kids = [b \in 0..Fanout(t.heap[p]) * 2 ^ log2 - 1 |-> @[b \div 2 ^ log2]]]

(* AlexModelNode::expand(): each pointer is repeated factor times.         *)
ExpandNode(t, p, log2) ==
  LET children == Range(t.heap[p].kids)
  IN [ExpandPointers(t, p, log2) EXCEPT !.heap = [id \in DOMAIN @ |->
        IF id \in children THEN [@[id] EXCEPT !.dup = @ + log2] ELSE @[id]]]

(* split_sideways()                                                        *)
SplitSideways(t, p, bucket, depth, tiling, stay) ==
  LET old == Kids(t, p)[bucket]
      dup == t.heap[old].dup
      grow == Max({0, depth - dup})
      extra == 2 ^ Max({0, dup - depth})
      wide == ExpandNode(t, p, grow)
  IN [tree |-> NewDataNodes(wide, p, old, FirstOfRun(wide, p, bucket * 2 ^ grow),
                            [i \in DOMAIN tiling |-> tiling[i] * extra], stay),
      parent |-> p]

-----------------------------------------------------------------------------
RECURSIVE PowTwoUp(_)
PowTwoUp(x) == IF x = 1 THEN 1 ELSE 2 * PowTwoUp((x + 1) \div 2)

ShouldExpand(t, count, last) ==
  /\ ~IsLeaf(t, t.root)
  /\ \/ count >= MinOut /\ count >= Tolerance * ((num \div last) - 1)
     \/ count >= MaxOut

(* Which of the new data nodes, counted outwards from the old domain, gets *)
(* a key: the domain_size values next to the domain go to the first one.   *)
Heir(d, key, left, last) ==
  LET away == IF left THEN d.min - 1 - key ELSE key - d.max
  IN Min({away \div (d.max - d.min) + 1, last})

ExpansionFactor(t, d, key, left) ==
  LET size == d.max - d.min
      outside == IF left THEN d.min - Min({key, MinKey(t)}) ELSE Max({key, MaxKey(t)}) - d.max
  IN PowTwoUp((outside + size - 1) \div size + 1)

(* expand_root(): the key domain grows by a power of two of its size, as   *)
(* far as the key type reaches.  The root gets that many times its         *)
(* buckets, or a new root above it.  One new data node for as many new     *)
(* buckets as there were old ones takes over keys from the outermost data  *)
(* node: those of the next domain_size values, the last one within the key *)
(* type all the rest.  An expansion to the left shifts the line, which may *)
(* round its predictions anew.                                             *)
ExpandRoot(t, d, key, left, hair) ==
  LET size == d.max - d.min
      factor == ExpansionFactor(t, d, key, left)
      half == (factor \div 2) * size
      limit == IF left THEN IF d.max \div 2 < half THEN 0 ELSE d.max - 2 * half
               ELSE IF KeyMax \div 2 - d.min \div 2 < half THEN KeyMax ELSE d.min + 2 * half
      root == t.heap[t.root]
      inPlace == Fanout(root) * factor <= MaxFanout
      old == IF inPlace THEN root.kids ELSE (0 :> t.root)
      n == Cardinality(DOMAIN old)
      first == IF left THEN n * (factor - 1) ELSE 0   \* bucket of the first old child
      m == factor - 1
      ids == NewIds(t, m + 1)
      rootId == IF inPlace THEN t.root ELSE ids[m + 1]
      stretch == [lo |-> IF left THEN root.lo - m * root.width ELSE root.lo,
                  width |-> factor * root.width]
      bare == NewModel(stretch, n * factor, IF inPlace THEN root.dup ELSE 0, hair)
      \* the new data nodes are numbered from the old buckets outwards
      slot(b) == IF left THEN m - b \div n ELSE b \div n
      last == Max({1, slot(Bucket(bare, limit))})
      outer == IF left THEN Head(Leaves(t)) ELSE Last(Leaves(t))
      moved == {k \in Held(t.heap[outer].bag) : IF left THEN k < d.min ELSE k >= d.max}
      share(i) == {k \in moved : Heir(d, k, left, last) = i}
      next(i) == IF i = 0 THEN outer ELSE IF i > m THEN Nil ELSE ids[i]
      new(i) == [NewLeaf(Only(t.heap[outer].bag, share(i)), Log2(n)) EXCEPT
                   !.prev = IF left THEN next(i + 1) ELSE next(i - 1),
                   !.next = IF left THEN next(i - 1) ELSE next(i + 1)]
      wide == [bare EXCEPT !.kids = [b \in DOMAIN @ |->
                 IF slot(b) = 0 THEN old[b - first] ELSE ids[slot(b)]]]
      stripped == [t.heap[outer] EXCEPT !.bag = Only(@, Keys \ moved),
                                        !.prev = IF left THEN next(1) ELSE @,
                                        !.next = IF left THEN @ ELSE next(1)]
  IN [tree |-> [root |-> rootId,
                heap |-> [id \in {ids[i] : i \in 1..m} |-> new(CHOOSE i \in 1..m : ids[i] = id)]
                         @@ (rootId :> wide) @@ (outer :> stripped) @@ t.heap],
      dom |-> IF left THEN [d EXCEPT !.min = limit, !.below = 0, !.atLeft = num]
              ELSE [d EXCEPT !.max = limit, !.above = 0, !.atRight = num]]

(* BOUND: clear() and a new domain leave the counts of keys outside of it  *)
(* as they are, or reset them for keys still there; they may drift.        *)
CountsBounded == {dom'.above, dom'.below} \subseteq -1..MaxTotal

(* Counting a key outside of the domain.                                   *)
Counted(key, n) ==
  IF key > dom.max THEN [dom EXCEPT !.above = @ + n]
  ELSE IF key < dom.min THEN [dom EXCEPT !.below = @ + n] ELSE dom

(* The first lines of insert().                                            *)
(* BOUND: no expansion by a factor that no int holds.                      *)
Expanded(key) ==
  LET d == Counted(key, 1)
      right == key > dom.max /\ ShouldExpand(tree, d.above, d.atRight)
      left == key <= dom.max /\ key < dom.min /\ ShouldExpand(tree, d.below, d.atLeft)
  IN IF right \/ left
     THEN {ExpandRoot(tree, d, key, left, hair) :
             hair \in IF ExpansionFactor(tree, d, key, left) > IntMax THEN {}
                     ELSE IF right THEN {tree.heap[tree.root].hair} ELSE [Rounded -> ShiftHairs]}
     ELSE {[tree |-> tree, dom |-> d]}

-----------------------------------------------------------------------------
(* The data node takes the key.                                            *)
Accept(t, leaf, key) ==
  /\ tree' = [t EXCEPT !.heap[leaf].bag[key] = @ + 1]
  /\ num' = num + 1
  /\ op' = Idle

(* The data node refuses it: 1, its cost deviates from the expected one, 2 *)
(* its cost is catastrophic or it has no more slots.  BOUND: MinWidth.     *)
Refuse(t, d, leaf, key, parent, code) ==
  /\ Total(t.heap[leaf].bag) >= Crowd
  /\ LET width == IF parent = Super THEN d.max - d.min
                  ELSE (t.heap[parent].width * 2 ^ t.heap[leaf].dup) \div Fanout(t.heap[parent])
     IN width >= MinWidth
  /\ tree' = t
  /\ op' = [pc |-> "split", key |-> key, leaf |-> leaf, parent |-> parent, code |-> code]
  /\ UNCHANGED num

(* insert(), up to the first answer of the data node.  The domain is taken *)
(* anew from the keys when the data node is the root.  BOUND: MaxTotal,    *)
(* MaxCount.                                                               *)
Insert(key) ==
  /\ op = Idle
  /\ num < MaxTotal
  /\ \E e \in Expanded(key) :
     LET leaf == GetLeaf(e.tree, key)
         parent == Last(TraversalPath(e.tree, key))[1]
         fresh == IF parent = Super THEN DomainOf(e.tree) ELSE e.dom
     IN /\ e.tree.heap[leaf].bag[key] < IF key \in Rounded THEN 1 ELSE MaxCount
        /\ \/ Accept(e.tree, leaf, key) /\ dom' = e.dom
           \/ \E code \in 1..2 :
                Refuse(e.tree, fresh, leaf, key, parent, code) /\ dom' = fresh
        /\ CountsBounded

(* A new or newly trained data node answers; its cost does not deviate.    *)
Again(t, leaf, parent) ==
  /\ Accept(t, leaf, op.key) \/ Refuse(t, dom, leaf, op.key, parent, 2)
  /\ UNCHANGED dom

(* The keys of a bag as a fanout tree over their stretch counts them.      *)
Sample(bag, stretch, cost) ==
  LET in(x) == {k \in Held(bag) :
                  LET b == ((k - stretch.lo) * 2 ^ x[1]) \div stretch.width
                  IN Max({0, Min({b, 2 ^ x[1] - 1})}) = x[2]}
  IN [keys |-> [x \in TreeNodes |-> Total(Only(bag, in(x)))], cost |-> cost]

(* The bucket is computed from the key again, and what is split is the     *)
(* data node of that bucket.                                               *)
SplitBucket == IF op.parent = Super THEN 0 ELSE Bucket(tree.heap[op.parent], op.key)

(* What becomes of the data node: its best fanout when its cost deviates,  *)
(* up to 2 or up to max_fanout, else two halves.                           *)
SplitChoices ==
  LET leaf == tree.heap[Kids(tree, op.parent)[SplitBucket]]
      stretch == Stretch(tree, op.parent, SplitBucket)
  IN IF op.code = 1
     THEN {BottomUp(Sample(leaf.bag, stretch, cost), FALSE, deepest) :
             cost \in CostPatterns, deepest \in {1, MaxDepth}}
     ELSE {[depth |-> 1, used |-> NodesAt(1)]}

(* No split is the best: the data node that refused is trained again.      *)
Retrain ==
  /\ op.pc = "split"
  /\ \E choice \in SplitChoices : choice.depth = 0
  /\ Again(tree, op.leaf, op.parent)

(* A data node is split sideways, or downwards below the superroot and when*)
(* the parent would get too many buckets.                                  *)
Split ==
  /\ op.pc = "split"
  /\ LET p == op.parent
         old == tree.heap[Kids(tree, p)[SplitBucket]]
         full(depth) == Cardinality(DOMAIN Kids(tree, p)) * 2 ^ depth
                        > MaxFanout * 2 ^ tree.heap[op.leaf].dup
     IN \E fanout \in {[depth |-> c.depth, runs |-> Collected(c.used, c.depth)] : c \in SplitChoices} :
          \E stay \in SUBSET (Rounded \cap Held(old.bag)), hair \in Hairs :
            LET s == IF p = Super \/ full(fanout.depth)
                     THEN SplitDownwards(tree, p, SplitBucket, fanout.depth, fanout.runs, stay, hair)
                     ELSE SplitSideways(tree, p, SplitBucket, fanout.depth, fanout.runs, stay)
                nd == s.tree.heap[s.parent]
            IN /\ fanout.depth > 0
               /\ Again(s.tree, nd.kids[Bucket(nd, op.key)], s.parent)

-----------------------------------------------------------------------------
(* Slip: only the heir learns of its new neighbour.                        *)
BypassOneWay(t, leaf, heir, toRight) ==
  IF toRight THEN SetPrev(t, heir, t.heap[leaf].prev) ELSE SetNext(t, heir, t.heap[leaf].next)

(* An empty data node leaves the chain; its heir closes the gap.           *)
Bypass(t, leaf, heir, toRight) ==
  LET prev == t.heap[leaf].prev
      next == t.heap[leaf].next
  IN IF toRight THEN SetNext(SetPrev(t, heir, prev), prev, heir)
     ELSE SetPrev(SetNext(t, heir, next), next, heir)

(* merge(): an empty data node gives its buckets to the sibling it shares  *)
(* a pair of runs with, if that is a data node of the same size; it goes   *)
(* on while the heir is empty.                                             *)
RECURSIVE MergeSideways(_, _, _, _)
MergeSideways(t, leaf, p, bucket) ==
  LET nd == t.heap[p]
      repeats == 2 ^ t.heap[leaf].dup
      start == bucket - (bucket % repeats)
      toRight == bucket % (2 * repeats) = bucket % repeats
      heir == nd.kids[IF toRight THEN start + repeats ELSE start - 1]
      given == Bypass(Redirect(t, p, start, start + repeats, heir), leaf, heir, toRight)
  IN IF \/ Held(t.heap[leaf].bag) # {} \/ repeats >= Fanout(nd)
        \/ ~IsLeaf(t, heir) \/ t.heap[heir].dup # t.heap[leaf].dup
     THEN [tree |-> t, leaf |-> leaf]
     ELSE MergeSideways(DeleteNodes([given EXCEPT !.heap[heir].dup = @ + 1], {leaf}),
                        heir, p, bucket)

(* A data node that has all buckets of its parent takes the parent's place *)
(* in the grandparent.                                                     *)
RECURSIVE Merge(_, _, _)
Merge(t, leaf, path) ==
  LET p == Last(path)[1]
      m == MergeSideways(t, leaf, p, Last(path)[2])
      nd == m.tree.heap[p]
      up == Front(path)
      above == Last(up)
      raised == [m.tree EXCEPT !.heap[m.leaf].dup = nd.dup]
      start == above[2] - (above[2] % 2 ^ nd.dup)
  IN IF 2 ^ m.tree.heap[m.leaf].dup # Fanout(nd) THEN m.tree
     ELSE IF p = t.root THEN DeleteNodes([raised EXCEPT !.root = m.leaf], {p})
     ELSE Merge(DeleteNodes(Redirect(raised, above[1], start, start + 2 ^ nd.dup, m.leaf), {p}),
                m.leaf, up)

(* The path to the empty data node; get_leaf() goes to a neighbour of it   *)
(* when the key is on their boundary.                                      *)
MergeEmpty(t, leaf, key) ==
  LET path == TraversalPath(t, key)
      met == GetLeaf(t, key)
      toLeft == t.heap[met].prev = leaf
  IN IF Held(t.heap[leaf].bag) # {} \/ IsLeaf(t, t.root) THEN t
     ELSE IF met = leaf THEN Merge(t, leaf, path)
     ELSE IF toLeft \/ t.heap[met].next = leaf
     THEN Merge(t, leaf, PathBeside(t, path, leaf, toLeft))
     ELSE t

(* n copies of a key leave a data node: the common end of the erasures.    *)
Erased(leaf, key, n) ==
  LET less == [tree EXCEPT !.heap[leaf].bag[key] = @ - n]
  IN /\ tree' = MergeEmpty(less, leaf, key)
     /\ num' = num - n
     /\ dom' = Counted(key, -n)
     /\ CountsBounded
     /\ UNCHANGED op

(* Slip: one entry is taken off though the key has none.                   *)
EraseOneBlind(key) == op = Idle /\ Erased(GetLeaf(tree, key), key, 1)

(* erase_one(), erase(key) and erase(iterator).                            *)
EraseOne(key) ==
  /\ op = Idle
  /\ LET leaf == GetLeaf(tree, key)
     IN Erased(leaf, key, Min({1, tree.heap[leaf].bag[key]}))

Erase(key) ==
  /\ op = Idle
  /\ LET leaf == GetLeaf(tree, key) IN Erased(leaf, key, tree.heap[leaf].bag[key])

EraseAt(leaf, key) == op = Idle /\ Erased(leaf, key, 1)

(* clear(): the key domain and its counts stay.                            *)
Clear ==
  /\ op = Idle
  /\ tree' = [heap |-> (1 :> NewLeaf(Empty, 0)), root |-> 1]
  /\ num' = 0
  /\ UNCHANGED <<dom, op>>

-----------------------------------------------------------------------------
(* A node that bulk_load_node() has not come to: the keys of its stretch.  *)
Temp(bag, stretch, dup) ==
  [kind |-> "temp", bag |-> bag, lo |-> stretch.lo, width |-> stretch.width,
   dup |-> dup]

(* bulk_load(), up to the first node; the index must be empty.  BOUND:     *)
(* MaxTotal.                                                               *)
BulkLoad(bag) ==
  /\ op = Idle /\ num = 0
  /\ LET keys == Held(bag)
         stretch == [lo |-> Min(keys), width |-> Max(keys) - Min(keys)]
     IN /\ keys # {}
        /\ tree' = [heap |-> (1 :> Temp(bag, stretch, 0)), root |-> 1]
  /\ num' = Total(bag)
  /\ op' = [pc |-> "load"]
  /\ UNCHANGED dom

Temps(t) == {id \in DOMAIN t.heap : t.heap[id].kind = "temp"}

(* When all nodes are made: the superroot, the key domain and the links.   *)
LoadStep(t) ==
  IF Temps(t) # {} THEN tree' = t /\ UNCHANGED <<dom, op, num>>
  ELSE tree' = LinkAll(t) /\ dom' = DomainOf(t) /\ op' = Idle /\ UNCHANGED num

(* The fanouts that pay, bottom up or top down: those that cost less than  *)
(* a data node, or any if the keys are too many for one.  Keys that are too*)
(* many although no fanout pays are spread over a whole level.             *)
LoadChoices(nd) ==
  LET n == Total(nd.bag)
      samples == {Sample(nd.bag, nd, cost) : cost \in CostPatterns}
      pays(s, choice) == n > LoadMax \/ choice.cost < Weight(s, RootNode)
      spread(choice) == IF choice.depth > 0 THEN choice ELSE [depth |-> 1, used |-> NodesAt(1)]
  IN UNION {{spread(c) : c \in {x \in {BottomUp(s, TRUE, MaxDepth), TopDown(s)} : pays(s, x)}} :
              s \in samples}

(* BOUND: no buckets narrower than MinWidth are made.                      *)
LoadFanouts(nd) ==
  IF nd.width < 2 * MinWidth THEN {}
  ELSE {[depth |-> c.depth, runs |-> Collected(c.used, c.depth)] :
          c \in {x \in LoadChoices(nd) : nd.width >= MinWidth * 2 ^ x.depth}}

(* A node becomes a data node ...                                          *)
LoadDataNode ==
  /\ op.pc = "load"
  /\ LET id == Min(Temps(tree))
         nd == tree.heap[id]
     IN /\ Total(nd.bag) <= LoadMax \/ LoadFanouts(nd) = {}
        /\ LoadStep([tree EXCEPT !.heap[id] = NewLeaf(nd.bag, nd.dup)])

(* ... or a model node, whose children are made later.                     *)
LoadModelNode ==
  /\ op.pc = "load"
  /\ LET id == Min(Temps(tree))
         nd == tree.heap[id]
     IN \E fanout \in LoadFanouts(nd), hair \in Hairs,
           stay \in SUBSET (Rounded \cap Held(nd.bag)) :
          LET runs == fanout.runs
              n == Len(runs)
              buckets == 2 ^ fanout.depth
              model == NewModel(nd, buckets, nd.dup, hair)
              ids == NewIds(tree, n)
              from == RunStarts(0, runs)
              at(b) == CHOOSE i \in 1..n : from[i] <= b /\ b < from[i + 1]
              stretch(i) == [lo |-> nd.lo + (nd.width * from[i]) \div buckets,
                             width |-> (nd.width * runs[i]) \div buckets]
              keys(i) == KeysOfRun(model, Held(nd.bag), from, i, stay)
              child(i) == Temp(Only(nd.bag, keys(i)), stretch(i), Log2(runs[i]))
          IN LoadStep([tree EXCEPT !.heap =
               [c \in Range(ids) |-> child(CHOOSE i \in 1..n : ids[i] = c)]
               @@ (id :> [model EXCEPT !.kids = [b \in DOMAIN @ |-> ids[at(b)]]]) @@ @])

-----------------------------------------------------------------------------
(* find(), lower_bound() and upper_bound(): the search of one data node;   *)
(* from its end an iterator goes on to the next data node with a key.      *)
Found(key) == tree.heap[GetLeaf(tree, key)].bag[key] > 0

RECURSIVE Seek(_, _)
Seek(leaf, from) ==
  IF leaf = Nil THEN KeyMax + 1
  ELSE LET keys == {k \in Held(tree.heap[leaf].bag) : k >= from}
       IN IF keys # {} THEN Min(keys) ELSE Seek(tree.heap[leaf].next, 0)

LowerBound(key) == Seek(GetLeaf(tree, key), key)
UpperBound(key) == Seek(GetLeaf(tree, key), key + 1)

(* find_last_no_greater_than(): if its data node has no such key, the last *)
(* key of the nearest one before it with a key, or else the first key.     *)
RECURSIVE SeekBack(_, _)
SeekBack(leaf, upTo) ==
  LET nd == tree.heap[leaf]
      keys == {k \in Held(nd.bag) : k <= upTo}
  IN IF keys # {} THEN Max(keys)
     ELSE IF nd.prev = Nil THEN Seek(leaf, 0) ELSE SeekBack(nd.prev, KeyMax)

LastNoGreaterThan(key) == SeekBack(GetLeaf(tree, key), key)

-----------------------------------------------------------------------------
(* A new index: an empty data node as the root.                            *)
Init ==
  /\ tree = [heap |-> (1 :> NewLeaf(Empty, 0)), root |-> 1]
  /\ num = 0
  /\ dom = [min |-> KeyMax, max |-> 0, above |-> 0, below |-> 0, atRight |-> 0, atLeft |-> 0]
  /\ op = Idle

Bags == {bag \in [Keys -> 0..MaxCount] : Total(bag) <= MaxTotal}

Next ==
  \/ \E bag \in Bags : BulkLoad(bag)
  \/ LoadDataNode
  \/ LoadModelNode
  \/ \E key \in Keys : Insert(key)
  \/ Retrain
  \/ Split
  \/ \E key \in Keys : EraseOne(key)
  \/ \E key \in Keys : Erase(key)
  \/ \E leaf \in DOMAIN tree.heap : IsLeaf(tree, leaf) /\
       \E key \in Held(tree.heap[leaf].bag) : EraseAt(leaf, key)
  \/ Clear

Spec == Init /\ [][Next]_vars

-----------------------------------------------------------------------------
Nodes == DOMAIN tree.heap
LeafIds == {id \in Nodes : IsLeaf(tree, id)}
ModelIds == {id \in Nodes : tree.heap[id].kind = "model"}

(* Every node is a data node or a model node with its fields, or, while    *)
(* the index is loaded, a node still to be made; counts are in range.      *)
TypeOK ==
  /\ tree.root \in Nodes
  /\ \A id \in LeafIds :
       LET nd == tree.heap[id]
       IN /\ nd.bag \in [Keys -> 0..MaxCount] /\ nd.dup \in Nat
          /\ {nd.prev, nd.next} \subseteq LeafIds \cup {Nil}
  /\ \A id \in ModelIds : Range(tree.heap[id].kids) \subseteq Nodes
  /\ Temps(tree) # {} => op.pc = "load"
  /\ num \in 0..MaxTotal
  /\ op.pc \in {"idle", "load", "split"}

(* AlexModelNode::validate_structure(): a model node has a power of two of *)
(* buckets and at least two children; each child has as many adjacent      *)
(* buckets as its duplication factor says, in an aligned run.              *)
ModelNodesValid ==
  \A id \in ModelIds :
    LET nd == tree.heap[id]
        child(b) == tree.heap[nd.kids[b]]
    IN /\ \E d \in 1..Fanout(nd) : Fanout(nd) = 2 ^ d
       /\ nd.width > 0
       /\ Cardinality(Range(nd.kids)) > 1
       /\ \A b \in DOMAIN nd.kids :
            /\ {c \in DOMAIN nd.kids : nd.kids[c] = nd.kids[b]}
               = {c \in DOMAIN nd.kids : c \div 2 ^ child(b).dup = b \div 2 ^ child(b).dup}

(* No key is lost: every entry lies in the data node that get_leaf() goes  *)
(* to for its key, so that find(), insert() and the erasures meet it.      *)
EveryKeyReached ==
  Temps(tree) = {} =>
    \A leaf \in LeafIds : \A key \in Held(tree.heap[leaf].bag) : GetLeaf(tree, key) = leaf

(* The path that get_leaf() returns with a data node ends with its parent, *)
(* at a bucket that points to it (alex.h:395-397): insert() splits, and    *)
(* merge() gives away, what the last bucket of the path points to.         *)
PathEndsAtParent ==
  Temps(tree) = {} =>
    \A key \in Keys : LeafAt(tree, TraversalPath(tree, key)) = GetLeaf(tree, key)

(* Merging nodes of the fanout tree of the node at hand keeps the account: *)
(* the cost that decides between model node and data node is that of the   *)
(* nodes chosen, no complete level looked at costs less, and the nodes     *)
(* share out all buckets and all keys; two buckets make two children.      *)
FanoutExact ==
  \A s \in IF op.pc = "load" /\ tree.heap[Min(Temps(tree))].width > 0
           THEN LET nd == tree.heap[Min(Temps(tree))]
                IN {Sample(nd.bag, nd, cost) : cost \in CostPatterns}
           ELSE {} :
    LET choice == BottomUp(s, TRUE, MaxDepth)
        t == Loaded(s)
        costs == Costs(t, TRUE, MaxDepth)
        runs == Collected(choice.used, choice.depth)
        all == MapThenSumSet(LAMBDA x : s.keys[x], choice.used)
    IN /\ \A level \in 0..LastLevel(costs) : choice.cost <= costs[level]
       /\ choice.depth > 0 =>
            /\ choice.cost = WeightOf(t, choice.used) + Traversal(t, choice.depth)
                             - NodeSize * (2 ^ choice.depth - Len(runs))
            /\ Len(runs) > 1
       /\ SumFunction(runs) = 2 ^ choice.depth
       /\ all = s.keys[RootNode]

(* The links connect the data nodes in the order of the tree, in both      *)
(* directions, and no node is left that the tree does not reach.           *)
LeavesLinked ==
  Temps(tree) = {} =>
    LET order == Leaves(tree)
    IN /\ Range(order) = LeafIds
       /\ \A i \in DOMAIN order :
            /\ tree.heap[order[i]].prev = IF i = 1 THEN Nil ELSE order[i - 1]
            /\ tree.heap[order[i]].next = IF i = Len(order) THEN Nil ELSE order[i + 1]

(* lower_bound() and upper_bound() find the first key of the index that is *)
(* not below, or above, a key, find_last_no_greater_than() the last one not*)
(* above it, whichever data node it has to be sought in; and the size is   *)
(* the number of entries.                                                  *)
BoundsExact ==
  Temps(tree) = {} =>
    LET held == UNION {Held(tree.heap[leaf].bag) : leaf \in LeafIds}
    IN /\ \A key \in Keys :
            /\ LowerBound(key) = Min({k \in held : k >= key} \cup {KeyMax + 1})
            /\ UpperBound(key) = Min({k \in held : k > key} \cup {KeyMax + 1})
            /\ LastNoGreaterThan(key) =
                 IF \E k \in held : k <= key THEN Max({k \in held : k <= key})
                 ELSE Min(held \cup {KeyMax + 1})
       /\ num = MapThenSumSet(LAMBDA leaf : Total(tree.heap[leaf].bag), LeafIds)

(* Iterators meet every entry in order, forwards and backwards, and a      *)
(* search that runs out of its data node goes on in the right one: through *)
(* splits, merges and expansions the chain of data nodes is the order of   *)
(* the tree, and bounds are exact along it.                                *)
TraversalExact == LeavesLinked /\ BoundsExact
=============================================================================
