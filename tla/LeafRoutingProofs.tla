-------------------------- MODULE LeafRoutingProofs --------------------------
(***************************************************************************)
(* Routing is right for every index and every prediction of its two        *)
(* models: no table is read out of bounds, the leaf it ends in holds every *)
(* copy of the key that a search could need, the root scan is exact on its *)
(* window, and the guard loops only check when the windows were right.     *)
(***************************************************************************)
EXTENDS LeafRouting, TLAPS

(* What the root scan has established.                                     *)
ScanInv ==
  /\ pc = "scan_up" => /\ scan_from <= rlo /\ rlo <= scan_hi
                       /\ rlo > scan_from => root_key(rlo) <= key
  /\ pc # "scan_up" => \A r \in scan_from..scan_hi : OwningRoot(r) => rlo = r

(* What the guard loops have established.                                  *)
GuardInv ==
  /\ pc \in {"guard_down", "done"} =>
       (sidx + 1 < t.nseg => seg_key(sidx + 1) > key)
  /\ pc = "done" => (sidx > 0 => seg_key(sidx) <= key)

(* Where the guard loops start from when the window was right.             *)
Strict == \A i, j \in 0..t.nseg-1 : i # j => seg_key(i) # seg_key(j)

NearInv ==
  Strict =>
    \A s \in Nat : blb_lo <= s /\ s < blb_hi /\ OwningLeaf(s) =>
      /\ pc = "guard_up" => \/ sidx = s /\ moves <= 1
                            \/ sidx + 1 = s /\ moves = 0
      /\ pc \in {"guard_down", "done"} => sidx = s /\ moves <= 1

(* No leaf has been walked before the guards; the window of leaves is not  *)
(* set before.                                                             *)
EarlyInv ==
  pc \in {"scan_up", "scan_down", "leaf"} => moves = 0

(* The inductive invariant.                                                *)
RoutingInv == TypeOK /\ ScanInv /\ GuardInv /\ NearInv /\ EarlyInv

-----------------------------------------------------------------------------
(* Tables are read at subscripts below their sizes, and keys grow along    *)
(* them.                                                                   *)
LEMMA LayoutFacts ==
  ASSUME IsLayout(t)
  PROVE  /\ t.n \in Nat \ {0} /\ t.nseg \in Nat \ {0} /\ t.nr \in Nat \ {0}
         /\ t.pos_lo[0] = 0 /\ t.leaf_lo[0] = 0
         /\ \A s \in 0..t.nseg-1 : t.pos_lo[s] \in 0..t.n-1
         /\ \A r \in 0..t.nr-1 : t.leaf_lo[r] \in 0..t.nseg-1
         /\ \A i \in 0..t.n-1 : t.keys[i] \in Int
         /\ \A i, j \in 0..t.n-1 : i <= j => t.keys[i] <= t.keys[j]
         /\ \A i, j \in 0..t.nseg-1 : i < j => t.pos_lo[i] < t.pos_lo[j]
         /\ \A i, j \in 0..t.nr-1 : i < j => t.leaf_lo[i] < t.leaf_lo[j]
BY DEF IsLayout, IsPartition

LEMMA TablesGrow ==
  ASSUME IsLayout(t)
  PROVE  /\ \A s \in 0..t.nseg-1 : seg_key(s) \in Int
         /\ \A r \in 0..t.nr-1 : root_key(r) \in Int
         /\ \A i, j \in 0..t.nseg-1 : i <= j => seg_key(i) <= seg_key(j)
         /\ \A i, j \in 0..t.nr-1 : i <= j => root_key(i) <= root_key(j)
<1>. USE LayoutFacts
<1>1. \A s \in 0..t.nseg-1 : seg_key(s) \in Int
  BY DEF seg_key
<1>2. \A r \in 0..t.nr-1 : root_key(r) \in Int
  BY <1>1 DEF root_key
<1>3. ASSUME NEW i \in 0..t.nseg-1, NEW j \in 0..t.nseg-1, i <= j
      PROVE  seg_key(i) <= seg_key(j)
  <2>1. t.pos_lo[i] \in 0..t.n-1 /\ t.pos_lo[j] \in 0..t.n-1
    OBVIOUS
  <2>2. t.pos_lo[i] <= t.pos_lo[j]
    <3>1. CASE i = j
      BY <2>1, <3>1
    <3>2. CASE i < j
      BY <2>1, <3>2
    <3>. QED  BY <1>3, <3>1, <3>2
  <2>. QED  BY <2>1, <2>2 DEF seg_key
<1>4. ASSUME NEW i \in 0..t.nr-1, NEW j \in 0..t.nr-1, i <= j
      PROVE  root_key(i) <= root_key(j)
  <2>1. t.leaf_lo[i] \in 0..t.nseg-1 /\ t.leaf_lo[j] \in 0..t.nseg-1
    OBVIOUS
  <2>2. t.leaf_lo[i] <= t.leaf_lo[j]
    <3>1. CASE i = j
      BY <2>1, <3>1
    <3>2. CASE i < j
      BY <2>1, <3>2
    <3>. QED  BY <1>4, <3>1, <3>2
  <2>. QED  BY <1>3, <2>1, <2>2 DEF root_key
<1>. QED  BY <1>1, <1>2, <1>3, <1>4

(* The part of leaves a root segment stands for is not empty.              *)
LEMMA RootHasLeaves ==
  ASSUME IsLayout(t), NEW r \in 0..t.nr-1
  PROVE  /\ leaf_hi(r) \in 1..t.nseg
         /\ t.leaf_lo[r] \in Nat /\ t.leaf_lo[r] < leaf_hi(r)
<1>1. CASE r + 1 < t.nr
  <2>1. r + 1 \in 0..t.nr-1
    BY <1>1, LayoutFacts
  <2>2. t.leaf_lo[r] < t.leaf_lo[r + 1]
    BY <2>1, LayoutFacts
  <2>. QED  BY <1>1, <2>1, <2>2, LayoutFacts DEF leaf_hi
<1>2. CASE ~(r + 1 < t.nr)
  BY <1>2, LayoutFacts DEF leaf_hi
<1>. QED  BY <1>1, <1>2

(* What is looked up, and where, is fixed for the whole lookup.            *)
LEMMA InputStays ==
  ASSUME UNCHANGED input
  PROVE  /\ t' = t /\ key' = key /\ eps_r' = eps_r /\ guess' = guess
         /\ scan_from' = scan_from /\ scan_hi' = scan_hi
         /\ IsLayout(t)' <=> IsLayout(t)
         /\ Strict' <=> Strict
         /\ \A r : OwningRoot(r)' <=> OwningRoot(r)
         /\ \A s : OwningLeaf(s)' <=> OwningLeaf(s)
         /\ \A s : seg_key(s)' = seg_key(s)
         /\ \A r : root_key(r)' = root_key(r)
BY DEF input, scan_from, scan_hi, Lesser, IsLayout, IsPartition, Strict,
       OwningRoot, OwningLeaf, seg_key, root_key

(* The window of the scan lies in the root table.                          *)
LEMMA ScanWindow ==
  ASSUME TypeOK
  PROVE  /\ IsLayout(t) /\ key \in Int /\ eps_r \in Nat /\ eps_r >= 2
         /\ scan_from \in 0..t.nr-1 /\ scan_hi \in 0..t.nr-1
         /\ scan_from <= guess /\ guess <= scan_hi
<1>1. IsLayout(t) /\ key \in Int /\ eps_r \in Nat /\ eps_r >= 2 /\ guess \in 0..t.nr-1
  BY LookupAssumption, RootEpsAssumption DEF TypeOK
<1>. QED  BY <1>1, LayoutFacts DEF scan_from, scan_hi, Lesser

-----------------------------------------------------------------------------
(* The inductive step, one lemma per action.                               *)
LEMMA InitInv == Init => RoutingInv
<1>. SUFFICES ASSUME Init PROVE RoutingInv
  OBVIOUS
<1>1. IsLayout(t) /\ guess \in 0..t.nr-1 /\ eps_r \in 2..MaxRootEps /\ key \in Int
  BY LayoutsAssumption, LookupAssumption DEF Init
<1>2. /\ scan_from \in 0..t.nr-1 /\ scan_hi \in 0..t.nr-1 /\ scan_from <= scan_hi
  BY <1>1, LayoutFacts, RootEpsAssumption DEF scan_from, scan_hi, Lesser
<1>3. TypeOK
  BY <1>1, <1>2, LayoutFacts DEF Init, TypeOK
<1>. QED  BY <1>2, <1>3, LayoutFacts
          DEF Init, RoutingInv, ScanInv, GuardInv, NearInv, EarlyInv

LEMMA ScanUpInv ==
  ASSUME RoutingInv, ScanUp
  PROVE  RoutingInv'
<1>1. /\ TypeOK /\ UNCHANGED input /\ pc = "scan_up" /\ moves = 0
      /\ blb_lo' = blb_lo /\ blb_hi' = blb_hi /\ sidx' = sidx /\ moves' = moves
  BY DEF RoutingInv, EarlyInv, ScanUp
<1>2. /\ IsLayout(t) /\ key \in Int
      /\ scan_from \in 0..t.nr-1 /\ scan_hi \in 0..t.nr-1 /\ t.nr \in Nat
  BY <1>1, ScanWindow, LayoutFacts
<1>3. /\ scan_from <= rlo /\ rlo <= scan_hi
      /\ rlo > scan_from => root_key(rlo) <= key
      /\ rlo \in 0..t.nr-1
  BY <1>1 DEF RoutingInv, ScanInv, TypeOK
<1>4. CASE /\ rlo < scan_hi /\ root_key(rlo + 1) <= key
           /\ rlo' = rlo + 1 /\ pc' = pc
  <2>1. rlo' \in 0..t.nr-1 /\ scan_from <= rlo' /\ rlo' <= scan_hi
    BY <1>2, <1>3, <1>4
  <2>2. TypeOK'
    BY <1>1, <1>4, <2>1, InputStays DEF TypeOK
  <2>3. (root_key(rlo) <= key)'
    BY <1>1, <1>4, InputStays DEF root_key, seg_key
  <2>4. ScanInv'
    BY <1>1, <1>4, <2>1, <2>3, InputStays DEF ScanInv
  <2>. QED  BY <1>1, <1>4, <2>2, <2>4
            DEF RoutingInv, GuardInv, NearInv, EarlyInv
<1>5. CASE /\ ~(rlo < scan_hi /\ root_key(rlo + 1) <= key)
           /\ pc' = "scan_down" /\ rlo' = rlo
  <2>1. TypeOK'
    BY <1>1, <1>5, InputStays DEF TypeOK
  <2>2. ASSUME NEW r \in scan_from..scan_hi, OwningRoot(r)
        PROVE  rlo = r
    <3>1. /\ r \in 0..t.nr-1 /\ root_key(r) <= key
          /\ r + 1 < t.nr => root_key(r + 1) > key
      BY <1>2, <2>2 DEF OwningRoot
    <3>2. ~(rlo > r)
      <4>. SUFFICES ASSUME rlo > r PROVE FALSE
        OBVIOUS
      <4>1. r + 1 \in 0..t.nr-1 /\ r + 1 <= rlo /\ rlo > scan_from
        BY <1>2, <1>3, <3>1
      <4>2. root_key(r + 1) <= root_key(rlo) /\ root_key(r + 1) \in Int
            /\ root_key(rlo) \in Int
        BY <1>2, <1>3, <4>1, TablesGrow
      <4>. QED  BY <1>2, <1>3, <3>1, <4>1, <4>2
    <3>3. ~(rlo < r)
      <4>. SUFFICES ASSUME rlo < r PROVE FALSE
        OBVIOUS
      <4>1. rlo < scan_hi /\ rlo + 1 \in 0..t.nr-1 /\ rlo + 1 <= r
        BY <1>2, <1>3, <3>1
      <4>2. root_key(rlo + 1) <= root_key(r) /\ root_key(rlo + 1) \in Int
            /\ root_key(r) \in Int
        BY <1>2, <3>1, <4>1, TablesGrow
      <4>. QED  BY <1>2, <1>5, <3>1, <4>1, <4>2
    <3>. QED  BY <1>2, <1>3, <3>1, <3>2, <3>3
  <2>3. ScanInv'
    BY <1>1, <1>5, <2>2, InputStays DEF ScanInv
  <2>. QED  BY <1>1, <1>5, <2>1, <2>3
            DEF RoutingInv, GuardInv, NearInv, EarlyInv
<1>. QED  BY <1>4, <1>5 DEF ScanUp

LEMMA ScanDownInv ==
  ASSUME RoutingInv, ScanDown
  PROVE  RoutingInv'
<1>1. /\ TypeOK /\ UNCHANGED input /\ pc = "scan_down" /\ moves = 0
      /\ blb_lo' = blb_lo /\ blb_hi' = blb_hi /\ sidx' = sidx /\ moves' = moves
  BY DEF RoutingInv, EarlyInv, ScanDown
<1>2. /\ IsLayout(t) /\ key \in Int /\ t.nr \in Nat
      /\ scan_from \in 0..t.nr-1 /\ scan_hi \in 0..t.nr-1
      /\ rlo \in 0..t.nr-1
  BY <1>1, ScanWindow, LayoutFacts DEF TypeOK
<1>3. \A r \in scan_from..scan_hi : OwningRoot(r) => rlo = r
  BY <1>1 DEF RoutingInv, ScanInv
<1>4. CASE /\ rlo > 0 /\ root_key(rlo) > key
           /\ rlo' = rlo - 1 /\ pc' = pc
  <2>1. TypeOK'
    <3>1. rlo' \in 0..t.nr-1
      BY <1>2, <1>4
    <3>. QED  BY <1>1, <1>4, <3>1, InputStays DEF TypeOK
  <2>2. \A r \in scan_from..scan_hi : ~OwningRoot(r)
    <3>. SUFFICES ASSUME NEW r \in scan_from..scan_hi, OwningRoot(r) PROVE FALSE
      OBVIOUS
    <3>1. rlo = r /\ root_key(r) <= key
      BY <1>3 DEF OwningRoot
    <3>2. root_key(rlo) \in Int
      BY <1>2, TablesGrow
    <3>. QED  BY <1>2, <1>4, <3>1, <3>2
  <2>3. ScanInv'
    BY <1>1, <1>4, <2>2, InputStays DEF ScanInv
  <2>. QED  BY <1>1, <1>4, <2>1, <2>3
            DEF RoutingInv, GuardInv, NearInv, EarlyInv
<1>5. CASE /\ ~(rlo > 0 /\ root_key(rlo) > key)
           /\ pc' = "leaf" /\ rlo' = rlo
  <2>1. TypeOK'
    BY <1>1, <1>5, InputStays DEF TypeOK
  <2>2. ScanInv'
    BY <1>1, <1>3, <1>5, InputStays DEF ScanInv
  <2>. QED  BY <1>1, <1>5, <2>1, <2>2
            DEF RoutingInv, GuardInv, NearInv, EarlyInv
<1>. QED  BY <1>4, <1>5 DEF ScanDown

(* The lower bound blb() finds in a window of leaves is the leaf that owns *)
(* the key or the one after it, if the owner is in the window.             *)
LEMMA LowerBoundIsNear ==
  ASSUME IsLayout(t), key \in Int, Strict,
         NEW lo \in Nat, NEW hi \in Nat, hi <= t.nseg,
         NEW x \in Nat, IsLowerBound(x, lo, hi),
         NEW s \in Nat, lo <= s, s < hi, OwningLeaf(s)
  PROVE  s <= x /\ x <= s + 1
<1>1. /\ t.nseg \in Nat \ {0} /\ s \in 0..t.nseg-1 /\ seg_key(s) <= key
      /\ s + 1 < t.nseg => seg_key(s + 1) > key
      /\ lo <= x /\ x <= hi
  BY LayoutFacts DEF OwningLeaf, IsLowerBound
<1>2. /\ \A i \in lo..x-1 : seg_key(i) < key
      /\ \A i \in x..hi-1 : seg_key(i) >= key
  BY DEF IsLowerBound
<1>3. ASSUME x > s + 1 PROVE FALSE
  <2>1. s + 1 \in lo..x-1 /\ s + 1 < t.nseg /\ s + 1 \in 0..t.nseg-1
    BY <1>1, <1>3
  <2>2. seg_key(s + 1) < key /\ seg_key(s + 1) > key /\ seg_key(s + 1) \in Int
    BY <1>1, <1>2, <2>1, TablesGrow
  <2>. QED  BY <2>2
<1>4. ASSUME x < s PROVE FALSE
  <2>1. x \in 0..t.nseg-1 /\ x \in x..hi-1
    BY <1>1, <1>4
  <2>2. seg_key(x) >= key
    BY <1>2, <2>1
  <2>3. seg_key(x) <= seg_key(s) /\ seg_key(x) \in Int /\ seg_key(s) \in Int
    BY <1>1, <1>4, <2>1, TablesGrow
  <2>4. seg_key(x) = seg_key(s)
    BY <1>1, <2>2, <2>3
  <2>. QED  BY <1>1, <1>4, <2>1, <2>4 DEF Strict
<1>. QED  BY <1>3, <1>4

LEMMA SearchLeavesInv ==
  ASSUME RoutingInv, SearchLeaves
  PROVE  RoutingInv'
<1>1. /\ TypeOK /\ UNCHANGED input /\ pc = "leaf" /\ pc' = "guard_up" /\ moves = 0
      /\ rlo' = rlo /\ moves' = moves
  BY DEF RoutingInv, EarlyInv, SearchLeaves
<1>2. /\ IsLayout(t) /\ key \in Int /\ t.nseg \in Nat \ {0}
      /\ eps_r \in Nat /\ rlo \in 0..t.nr-1
  BY <1>1, ScanWindow, LayoutFacts DEF TypeOK
<1>3. PICK leaf_pred \in t.leaf_lo[rlo]..leaf_hi(rlo)-1 :
        /\ blb_lo' = IF leaf_pred >= t.leaf_lo[rlo] + eps_r
                       THEN leaf_pred - eps_r ELSE t.leaf_lo[rlo]
        /\ blb_hi' = Lesser(leaf_pred + eps_r + 1, leaf_hi(rlo))
  BY DEF SearchLeaves
<1>4. PICK x \in blb_lo'..blb_hi' :
        /\ IsLowerBound(x, blb_lo', blb_hi')
        /\ sidx' = IF x > 0 THEN x - 1 ELSE x
  BY DEF SearchLeaves
<1>5. /\ leaf_hi(rlo) \in 1..t.nseg /\ t.leaf_lo[rlo] \in Nat
      /\ t.leaf_lo[rlo] < leaf_hi(rlo) /\ leaf_pred \in Nat
  BY <1>2, RootHasLeaves
<1>6. /\ blb_lo' \in 0..t.nseg /\ blb_hi' \in 0..t.nseg /\ blb_lo' < blb_hi'
      /\ blb_lo' \in Nat /\ blb_hi' \in Nat /\ blb_hi' <= t.nseg
  BY <1>2, <1>3, <1>5 DEF Lesser
<1>7. x \in Nat /\ x <= t.nseg /\ blb_lo' <= x /\ x <= blb_hi' /\ sidx' \in 0..t.nseg-1
  BY <1>2, <1>4, <1>6
<1>8. TypeOK'
  BY <1>1, <1>6, <1>7, InputStays DEF TypeOK
<1>9. ScanInv'
  BY <1>1, InputStays DEF RoutingInv, ScanInv
<1>10. ASSUME Strict, NEW s \in Nat, blb_lo' <= s, s < blb_hi', OwningLeaf(s)
       PROVE  (sidx' = s) \/ (sidx' + 1 = s)
  <2>1. s <= x /\ x <= s + 1
    BY <1>2, <1>4, <1>6, <1>7, <1>10, LowerBoundIsNear
  <2>. QED  BY <1>4, <1>7, <2>1
<1>11. NearInv'
  <2>. SUFFICES ASSUME Strict', NEW s \in Nat, blb_lo' <= s, s < blb_hi', OwningLeaf(s)'
                PROVE  sidx' = s \/ sidx' + 1 = s
    BY <1>1 DEF NearInv
  <2>1. Strict /\ OwningLeaf(s)
    BY <1>1, InputStays
  <2>. QED  BY <1>10, <2>1
<1>. QED  BY <1>1, <1>8, <1>9, <1>11 DEF RoutingInv, GuardInv, EarlyInv

LEMMA GuardUpInv ==
  ASSUME RoutingInv, GuardUp
  PROVE  RoutingInv'
<1>1. /\ TypeOK /\ UNCHANGED input /\ pc = "guard_up"
      /\ rlo' = rlo /\ blb_lo' = blb_lo /\ blb_hi' = blb_hi
  BY DEF RoutingInv, GuardUp
<1>2. /\ IsLayout(t) /\ key \in Int /\ t.nseg \in Nat \ {0} /\ sidx \in 0..t.nseg-1
      /\ moves \in Nat /\ blb_lo \in 0..t.nseg /\ blb_hi \in 0..t.nseg
  BY <1>1, ScanWindow, LayoutFacts DEF TypeOK
<1>3. CASE /\ sidx + 1 < t.nseg /\ seg_key(sidx + 1) <= key
           /\ sidx' = sidx + 1 /\ moves' = moves + 1 /\ pc' = pc
  <2>1. TypeOK'
    <3>1. sidx' \in 0..t.nseg-1 /\ moves' \in Nat
      BY <1>2, <1>3
    <3>. QED  BY <1>1, <1>3, <3>1, InputStays DEF TypeOK
  <2>2. ASSUME Strict, NEW s \in Nat, blb_lo <= s, s < blb_hi, OwningLeaf(s)
        PROVE  sidx' = s /\ moves' <= 1
    <3>1. (sidx = s /\ moves <= 1) \/ (sidx + 1 = s /\ moves = 0)
      BY <1>1, <2>2 DEF RoutingInv, NearInv
    <3>2. sidx # s
      <4>. SUFFICES ASSUME sidx = s PROVE FALSE
        OBVIOUS
      <4>1. seg_key(sidx + 1) > key /\ seg_key(sidx + 1) \in Int
        <5>1. sidx + 1 \in 0..t.nseg-1
          BY <1>2, <1>3
        <5>. QED  BY <1>2, <1>3, <2>2, <5>1, TablesGrow DEF OwningLeaf
      <4>. QED  BY <1>2, <1>3, <4>1
    <3>. QED  BY <1>3, <3>1, <3>2
  <2>3. NearInv'
    BY <1>1, <1>3, <2>2, InputStays DEF NearInv
  <2>4. ScanInv'
    BY <1>1, <1>3, InputStays DEF RoutingInv, ScanInv
  <2>. QED  BY <1>1, <1>3, <2>1, <2>3, <2>4 DEF RoutingInv, GuardInv, EarlyInv
<1>4. CASE /\ ~(sidx + 1 < t.nseg /\ seg_key(sidx + 1) <= key)
           /\ pc' = "guard_down" /\ sidx' = sidx /\ moves' = moves
  <2>1. TypeOK'
    BY <1>1, <1>4, InputStays DEF TypeOK
  <2>2. sidx + 1 < t.nseg => seg_key(sidx + 1) > key
    <3>. SUFFICES ASSUME sidx + 1 < t.nseg PROVE seg_key(sidx + 1) > key
      OBVIOUS
    <3>1. seg_key(sidx + 1) \in Int
      <4>1. sidx + 1 \in 0..t.nseg-1
        BY <1>2
      <4>. QED  BY <1>2, <4>1, TablesGrow
    <3>. QED  BY <1>2, <1>4, <3>1
  <2>3. GuardInv'
    <3>1. (sidx + 1 < t.nseg => seg_key(sidx + 1) > key)'
      BY <1>1, <1>4, <2>2, InputStays DEF seg_key
    <3>. QED  BY <1>4, <3>1 DEF GuardInv
  <2>4. ASSUME Strict, NEW s \in Nat, blb_lo <= s, s < blb_hi, OwningLeaf(s)
        PROVE  sidx = s /\ moves <= 1
    <3>1. (sidx = s /\ moves <= 1) \/ (sidx + 1 = s /\ moves = 0)
      BY <1>1, <2>4 DEF RoutingInv, NearInv
    <3>2. sidx + 1 # s
      <4>. SUFFICES ASSUME sidx + 1 = s PROVE FALSE
        OBVIOUS
      <4>1. s \in Int /\ blb_hi \in Int /\ blb_hi <= t.nseg /\ s < blb_hi
        BY <1>2, <2>4
      <4>2. s \in 0..t.nseg-1 /\ s < t.nseg
        BY <1>2, <4>1
      <4>3. seg_key(s) <= key /\ seg_key(s) \in Int
        BY <1>2, <2>4, <4>2, TablesGrow DEF OwningLeaf
      <4>. QED  BY <1>2, <2>2, <4>2, <4>3
    <3>. QED  BY <3>1, <3>2
  <2>5. NearInv'
    BY <1>1, <1>4, <2>4, InputStays DEF NearInv
  <2>6. ScanInv'
    BY <1>1, <1>4, InputStays DEF RoutingInv, ScanInv
  <2>. QED  BY <1>4, <2>1, <2>3, <2>5, <2>6 DEF RoutingInv, EarlyInv
<1>. QED  BY <1>3, <1>4 DEF GuardUp

LEMMA GuardDownInv ==
  ASSUME RoutingInv, GuardDown
  PROVE  RoutingInv'
<1>1. /\ TypeOK /\ UNCHANGED input /\ pc = "guard_down"
      /\ rlo' = rlo /\ blb_lo' = blb_lo /\ blb_hi' = blb_hi
      /\ sidx + 1 < t.nseg => seg_key(sidx + 1) > key
  BY DEF RoutingInv, GuardInv, GuardDown
<1>2. /\ IsLayout(t) /\ key \in Int /\ t.nseg \in Nat \ {0} /\ sidx \in 0..t.nseg-1
      /\ moves \in Nat /\ seg_key(sidx) \in Int
  BY <1>1, ScanWindow, LayoutFacts, TablesGrow DEF TypeOK
<1>3. \A s \in Nat : /\ blb_lo <= s /\ s < blb_hi
                     /\ Strict /\ OwningLeaf(s)
                     => sidx = s /\ moves <= 1
  BY <1>1 DEF RoutingInv, NearInv
<1>4. CASE /\ sidx > 0 /\ seg_key(sidx) > key
           /\ sidx' = sidx - 1 /\ moves' = moves + 1 /\ pc' = pc
  <2>1. TypeOK'
    <3>1. sidx' \in 0..t.nseg-1 /\ moves' \in Nat
      BY <1>2, <1>4
    <3>. QED  BY <1>1, <1>4, <3>1, InputStays DEF TypeOK
  <2>2. GuardInv'
    <3>1. (seg_key(sidx + 1) > key)'
      <4>1. sidx' + 1 = sidx
        BY <1>2, <1>4
      <4>2. seg_key(sidx) > key
        BY <1>4
      <4>. QED  BY <1>1, <4>1, <4>2, InputStays DEF seg_key
    <3>. QED  BY <1>1, <1>4, <3>1 DEF GuardInv
  <2>3. ASSUME Strict, NEW s \in Nat, blb_lo <= s, s < blb_hi, OwningLeaf(s) PROVE FALSE
    <3>1. seg_key(sidx) <= key
      BY <1>3, <2>3 DEF OwningLeaf
    <3>. QED  BY <1>2, <1>4, <3>1
  <2>4. NearInv'
    BY <1>1, <2>3, InputStays DEF NearInv
  <2>5. ScanInv'
    BY <1>1, <1>4, InputStays DEF RoutingInv, ScanInv
  <2>. QED  BY <1>1, <1>4, <2>1, <2>2, <2>4, <2>5 DEF RoutingInv, EarlyInv
<1>5. CASE /\ ~(sidx > 0 /\ seg_key(sidx) > key)
           /\ pc' = "done" /\ sidx' = sidx /\ moves' = moves
  <2>1. TypeOK'
    BY <1>1, <1>5, InputStays DEF TypeOK
  <2>2. sidx > 0 => seg_key(sidx) <= key
    BY <1>2, <1>5
  <2>3. GuardInv'
    <3>1. /\ (sidx + 1 < t.nseg => seg_key(sidx + 1) > key)'
          /\ (sidx > 0 => seg_key(sidx) <= key)'
      BY <1>1, <1>5, <2>2, InputStays DEF seg_key
    <3>. QED  BY <3>1 DEF GuardInv
  <2>4. NearInv'
    BY <1>1, <1>3, <1>5, InputStays DEF NearInv
  <2>5. ScanInv'
    BY <1>1, <1>5, InputStays DEF RoutingInv, ScanInv
  <2>. QED  BY <1>5, <2>1, <2>3, <2>4, <2>5 DEF RoutingInv, EarlyInv
<1>. QED  BY <1>4, <1>5 DEF GuardDown

-----------------------------------------------------------------------------
(* The invariant holds in every state of every lookup.                     *)
THEOREM InductiveInvariant == Spec => []RoutingInv
<1>1. RoutingInv /\ [Next]_vars => RoutingInv'
  <2>. SUFFICES ASSUME RoutingInv, [Next]_vars PROVE RoutingInv'
    OBVIOUS
  <2>1. CASE Next
    BY <2>1, ScanUpInv, ScanDownInv, SearchLeavesInv, GuardUpInv, GuardDownInv
       DEF Next
  <2>2. CASE UNCHANGED vars
    <3>1. /\ UNCHANGED input /\ pc' = pc /\ rlo' = rlo /\ blb_lo' = blb_lo
          /\ blb_hi' = blb_hi /\ sidx' = sidx /\ moves' = moves
      BY <2>2 DEF vars, input
    <3>2. TypeOK'
      BY <3>1, InputStays DEF RoutingInv, TypeOK
    <3>3. ScanInv'
      BY <3>1, InputStays DEF RoutingInv, ScanInv, root_key, seg_key
    <3>4. GuardInv'
      BY <3>1, InputStays DEF RoutingInv, GuardInv, seg_key
    <3>5. NearInv'
      BY <3>1, InputStays DEF RoutingInv, NearInv
    <3>. QED  BY <3>1, <3>2, <3>3, <3>4, <3>5 DEF RoutingInv, EarlyInv
  <2>. QED  BY <2>1, <2>2
<1>. QED  BY <1>1, InitInv, PTL DEF Spec

(* No subscript of roots_, seg_keys_ or leaves_ leaves its table.          *)
THEOREM TypeCorrect == Spec => []TypeOK
<1>1. RoutingInv => TypeOK
  BY DEF RoutingInv
<1>. QED  BY <1>1, InductiveInvariant, PTL

(* A stored key is stored in the leaf it is routed to, for every           *)
(* prediction and every tight_root_eps_: the guards make routing exact.    *)
THEOREM OwnerHoldsEveryKey == Spec => []OwnerHoldsKey
<1>1. RoutingInv => OwnerHoldsKey
  <2>. SUFFICES ASSUME RoutingInv, pc = "done", NEW i \in 0..t.n-1, t.keys[i] = key
                PROVE  \E j \in t.pos_lo[sidx]..pos_hi(sidx)-1 : t.keys[j] = key
    BY DEF OwnerHoldsKey
  <2>1. /\ IsLayout(t) /\ t.n \in Nat \ {0} /\ t.nseg \in Nat \ {0}
        /\ key \in Int /\ sidx \in 0..t.nseg-1
        /\ sidx + 1 < t.nseg => seg_key(sidx + 1) > key
        /\ sidx > 0 => seg_key(sidx) <= key
    BY ScanWindow, LayoutFacts DEF RoutingInv, GuardInv, TypeOK
  <2>2. /\ t.pos_lo[sidx] \in 0..t.n-1 /\ t.pos_lo[0] = 0
        /\ t.pos_lo[sidx] < pos_hi(sidx) /\ pos_hi(sidx) \in 1..t.n
    <3>1. CASE sidx + 1 < t.nseg
      <4>1. sidx + 1 \in 0..t.nseg-1
        BY <2>1, <3>1
      <4>. QED  BY <2>1, <3>1, <4>1, LayoutFacts DEF pos_hi
    <3>2. CASE ~(sidx + 1 < t.nseg)
      BY <2>1, <3>2, LayoutFacts DEF pos_hi
    <3>. QED  BY <3>1, <3>2
  <2>3. \A a, b \in 0..t.n-1 : a <= b => t.keys[a] <= t.keys[b]
    BY <2>1, LayoutFacts
  <2>4. i < pos_hi(sidx)
    <3>1. CASE sidx + 1 < t.nseg
      <4>1. sidx + 1 \in 0..t.nseg-1 /\ pos_hi(sidx) = t.pos_lo[sidx + 1]
        BY <2>1, <3>1 DEF pos_hi
      <4>2. t.keys[pos_hi(sidx)] > key /\ pos_hi(sidx) \in 0..t.n-1
        BY <2>1, <3>1, <4>1, LayoutFacts DEF seg_key
      <4>3. t.keys[pos_hi(sidx)] \in Int
        BY <2>1, <4>2, LayoutFacts
      <4>. QED  BY <2>1, <2>3, <4>2, <4>3
    <3>2. CASE ~(sidx + 1 < t.nseg)
      BY <2>1, <3>2 DEF pos_hi
    <3>. QED  BY <3>1, <3>2
  <2>5. CASE i >= t.pos_lo[sidx]
    BY <2>1, <2>2, <2>4, <2>5
  <2>6. CASE i < t.pos_lo[sidx]
    <3>1. sidx > 0
      BY <2>1, <2>2, <2>6
    <3>2. t.keys[t.pos_lo[sidx]] <= key /\ key <= t.keys[t.pos_lo[sidx]]
      BY <2>1, <2>2, <2>3, <2>6, <3>1 DEF seg_key
    <3>3. t.keys[t.pos_lo[sidx]] \in Int
      BY <2>1, <2>2, LayoutFacts
    <3>4. t.keys[t.pos_lo[sidx]] = key
      BY <2>1, <3>2, <3>3
    <3>5. t.pos_lo[sidx] \in t.pos_lo[sidx]..pos_hi(sidx)-1
      BY <2>1, <2>2
    <3>. QED  BY <3>4, <3>5
  <2>. QED  BY <2>1, <2>2, <2>5, <2>6
<1>. QED  BY <1>1, InductiveInvariant, PTL

(* The scan ends at the owning root segment whenever its window holds it.  *)
THEOREM RootScanIsExact == Spec => []RootScanExact
<1>1. RoutingInv => RootScanExact
  BY DEF RoutingInv, ScanInv, RootScanExact
<1>. QED  BY <1>1, InductiveInvariant, PTL

(* The guard loops walk at most one leaf when the window was right.        *)
THEOREM GuardsCheckOnly == Spec => []GuardsOnlyCheck
<1>1. RoutingInv => GuardsOnlyCheck
  <2>. SUFFICES ASSUME RoutingInv, pc \in {"guard_up", "guard_down", "done"},
                       Strict, NEW s \in blb_lo..blb_hi-1, OwningLeaf(s)
                PROVE  moves <= 1
    BY DEF GuardsOnlyCheck, Strict
  <2>1. s \in Nat /\ blb_lo <= s /\ s < blb_hi
    <3>1. blb_lo \in Nat /\ blb_hi \in Nat
      BY DEF RoutingInv, TypeOK
    <3>. QED  BY <3>1
  <2>. QED  BY <2>1 DEF RoutingInv, NearInv
<1>. QED  BY <1>1, InductiveInvariant, PTL

(* Windows that hold the owner make both scans exact.                      *)
THEOREM ScansAreExact == Spec => []ScansExact
BY RootScanIsExact, GuardsCheckOnly, PTL DEF ScansExact
=============================================================================
