----------------------------- MODULE LeafRouting -----------------------------
(***************************************************************************)
(* The first steps of model_lookup(): from a key to the leaf segment that  *)
(* owns it.  A prediction selects a root segment, a scan of at most        *)
(* tight_root_eps_ entries corrects it, the root's own prediction selects  *)
(* a window of leaves for a binary search, and two loops walk from there   *)
(* to a leaf that brackets the key.  One step is one iteration of a loop.  *)
(*                                                                         *)
(* The two predictions are least-squares lines evaluated in doubles.  All  *)
(* that is kept of them is what the code clamps them to: any root segment, *)
(* any leaf of it.                                                         *)
(*                                                                         *)
(* The empty index returns before any of this.                             *)
(***************************************************************************)
EXTENDS Integers

CONSTANTS Layouts,     \* the indexes to route in: see IsLayout
          LookupKeys,  \* the keys looked up
          MaxRootEps   \* bound: the largest tight_root_eps_

(* first[i] is where part i of 0 .. size-1 begins; it ends where the next  *)
(* one begins.                                                             *)
IsPartition(first, parts, size) ==
  /\ parts \in Nat \ {0}
  /\ first \in [0..parts-1 -> 0..size-1]
  /\ first[0] = 0
  /\ \A i, j \in 0..parts-1 : i < j => first[i] < first[j]

(* What rebuild_routing() leaves behind: the sorted keys cut into leaves,  *)
(* the leaves cut into root segments.  Two leaves may start with the same  *)
(* key when a run of equal keys is cut.                                    *)
IsLayout(l) ==
  /\ l.n \in Nat \ {0}
  /\ l.keys \in [0..l.n-1 -> Int]
  /\ \A i, j \in 0..l.n-1 : i <= j => l.keys[i] <= l.keys[j]
  /\ IsPartition(l.pos_lo, l.nseg, l.n)
  /\ IsPartition(l.leaf_lo, l.nr, l.nseg)

ASSUME LayoutsAssumption == \A l \in Layouts : IsLayout(l)
ASSUME LookupAssumption == LookupKeys \subseteq Int
ASSUME RootEpsAssumption == MaxRootEps \in Nat

VARIABLES t,           \* keys_, leaves_[].pos_lo, roots_[].leaf_lo, sizes
          key,         \* the key looked up
          eps_r,       \* tight_root_eps_
          guess,       \* the root segment SRLM predicts
          pc,          \* the loop that runs
          rlo,         \* scan_lo, later rlo
          blb_lo, blb_hi,  \* the window of leaves searched
          sidx,        \* the leaf
          moves        \* leaves the guard loops have walked

input == <<t, key, eps_r, guess>>
vars == <<t, key, eps_r, guess, pc, rlo, blb_lo, blb_hi, sidx, moves>>

Lesser(a, b) == IF a <= b THEN a ELSE b

seg_key(s) == t.keys[t.pos_lo[s]]
root_key(r) == seg_key(t.leaf_lo[r])
pos_hi(s) == IF s + 1 < t.nseg THEN t.pos_lo[s + 1] ELSE t.n
leaf_hi(r) == IF r + 1 < t.nr THEN t.leaf_lo[r + 1] ELSE t.nseg

(* The window of the root scan.                                            *)
scan_from == IF guess >= eps_r THEN guess - eps_r ELSE 0
scan_hi == Lesser(t.nr - 1, guess + eps_r)

Init ==
  /\ t \in Layouts
  /\ key \in LookupKeys
  /\ eps_r \in 2..MaxRootEps
  /\ guess \in 0..t.nr-1
  /\ pc = "scan_up"
  /\ rlo = scan_from
  /\ blb_lo = 0 /\ blb_hi = 0 /\ sidx = 0 /\ moves = 0

-----------------------------------------------------------------------------
(* Slip: the scan stops one root segment short of its window.              *)
ScanUpShort ==
  /\ pc = "scan_up"
  /\ \/ /\ rlo < scan_hi - 1 /\ root_key(rlo + 1) <= key
        /\ rlo' = rlo + 1
        /\ UNCHANGED pc
     \/ /\ ~(rlo < scan_hi - 1 /\ root_key(rlo + 1) <= key)
        /\ pc' = "scan_down"
        /\ UNCHANGED rlo
  /\ UNCHANGED <<blb_lo, blb_hi, sidx, moves>>
  /\ UNCHANGED input

(* Slip: the read ahead is not stopped at the end of the table.            *)
ScanUpPastEnd ==
  /\ pc = "scan_up"
  /\ \/ /\ rlo < guess + eps_r
        /\ rlo + 1 < t.nr => root_key(rlo + 1) <= key
        /\ rlo' = rlo + 1
        /\ UNCHANGED pc
     \/ /\ ~(rlo < guess + eps_r /\ (rlo + 1 < t.nr => root_key(rlo + 1) <= key))
        /\ pc' = "scan_down"
        /\ UNCHANGED rlo
  /\ UNCHANGED <<blb_lo, blb_hi, sidx, moves>>
  /\ UNCHANGED input

(* The correction scan: up while the next root segment does not start      *)
(* after the key, within the window; then down, to the start of the table  *)
(* if need be.                                                             *)
ScanUp ==
  /\ pc = "scan_up"
  /\ \/ /\ rlo < scan_hi /\ root_key(rlo + 1) <= key
        /\ rlo' = rlo + 1
        /\ UNCHANGED pc
     \/ /\ ~(rlo < scan_hi /\ root_key(rlo + 1) <= key)
        /\ pc' = "scan_down"
        /\ UNCHANGED rlo
  /\ UNCHANGED <<blb_lo, blb_hi, sidx, moves>>
  /\ UNCHANGED input

ScanDown ==
  /\ pc = "scan_down"
  /\ \/ /\ rlo > 0 /\ root_key(rlo) > key
        /\ rlo' = rlo - 1
        /\ UNCHANGED pc
     \/ /\ ~(rlo > 0 /\ root_key(rlo) > key)
        /\ pc' = "leaf"
        /\ UNCHANGED rlo
  /\ UNCHANGED <<blb_lo, blb_hi, sidx, moves>>
  /\ UNCHANGED input

(* blb(): the first leaf of the window that does not start before the key, *)
(* or the end of the window.                                               *)
IsLowerBound(x, lo, hi) ==
  /\ x \in lo..hi
  /\ \A i \in lo..x-1 : seg_key(i) < key
  /\ \A i \in x..hi-1 : seg_key(i) >= key

(* The root segment's prediction, the window of tight_root_eps_ around it, *)
(* and the leaf before the one blb() returns (never past the last leaf, so *)
(* the clamp to nseg-1 that follows in the code does nothing).             *)
SearchLeaves ==
  /\ pc = "leaf"
  /\ \E leaf_pred \in t.leaf_lo[rlo]..leaf_hi(rlo)-1 :
       /\ blb_lo' = IF leaf_pred >= t.leaf_lo[rlo] + eps_r
                      THEN leaf_pred - eps_r ELSE t.leaf_lo[rlo]
       /\ blb_hi' = Lesser(leaf_pred + eps_r + 1, leaf_hi(rlo))
  /\ \E x \in blb_lo'..blb_hi' :
       /\ IsLowerBound(x, blb_lo', blb_hi')
       /\ sidx' = IF x > 0 THEN x - 1 ELSE x
  /\ pc' = "guard_up"
  /\ UNCHANGED <<rlo, moves>>
  /\ UNCHANGED input

(* Slip: the upward guard stops at a leaf that starts with the key.        *)
GuardUpStrict ==
  /\ pc = "guard_up"
  /\ \/ /\ sidx + 1 < t.nseg /\ seg_key(sidx + 1) < key
        /\ sidx' = sidx + 1 /\ moves' = moves + 1
        /\ UNCHANGED pc
     \/ /\ ~(sidx + 1 < t.nseg /\ seg_key(sidx + 1) < key)
        /\ pc' = "guard_down"
        /\ UNCHANGED <<sidx, moves>>
  /\ UNCHANGED <<rlo, blb_lo, blb_hi>>
  /\ UNCHANGED input

(* The guards: up while the next leaf does not start after the key, then   *)
(* down while this one does.                                               *)
GuardUp ==
  /\ pc = "guard_up"
  /\ \/ /\ sidx + 1 < t.nseg /\ seg_key(sidx + 1) <= key
        /\ sidx' = sidx + 1 /\ moves' = moves + 1
        /\ UNCHANGED pc
     \/ /\ ~(sidx + 1 < t.nseg /\ seg_key(sidx + 1) <= key)
        /\ pc' = "guard_down"
        /\ UNCHANGED <<sidx, moves>>
  /\ UNCHANGED <<rlo, blb_lo, blb_hi>>
  /\ UNCHANGED input

GuardDown ==
  /\ pc = "guard_down"
  /\ \/ /\ sidx > 0 /\ seg_key(sidx) > key
        /\ sidx' = sidx - 1 /\ moves' = moves + 1
        /\ UNCHANGED pc
     \/ /\ ~(sidx > 0 /\ seg_key(sidx) > key)
        /\ pc' = "done"
        /\ UNCHANGED <<sidx, moves>>
  /\ UNCHANGED <<rlo, blb_lo, blb_hi>>
  /\ UNCHANGED input

Next == ScanUp \/ ScanDown \/ SearchLeaves \/ GuardUp \/ GuardDown

Spec == Init /\ [][Next]_vars

-----------------------------------------------------------------------------
(* Type correctness; in particular every index stays inside its table,     *)
(* which the code subscripts unchecked.                                    *)
TypeOK ==
  /\ IsLayout(t) /\ key \in LookupKeys /\ eps_r \in 2..MaxRootEps
  /\ guess \in 0..t.nr-1
  /\ pc \in {"scan_up", "scan_down", "leaf", "guard_up", "guard_down", "done"}
  /\ rlo \in 0..t.nr-1
  /\ sidx \in 0..t.nseg-1
  /\ blb_lo \in 0..t.nseg /\ blb_hi \in 0..t.nseg
  /\ moves \in Nat

(* A key stored anywhere is stored in the leaf it is routed to, whatever   *)
(* the two models predicted and however wrong tight_root_eps_ is, also     *)
(* when a run of equal keys was cut into several leaves.                   *)
OwnerHoldsKey ==
  pc = "done" /\ (\E i \in 0..t.n-1 : t.keys[i] = key) =>
    \E i \in t.pos_lo[sidx]..pos_hi(sidx)-1 : t.keys[i] = key

(* The root scan is exact if its window holds the root segment that owns   *)
(* the key, the last one that does not start after it.                     *)
OwningRoot(r) ==
  /\ root_key(r) <= key
  /\ r + 1 < t.nr => root_key(r + 1) > key

RootScanExact ==
  pc \in {"leaf", "guard_up", "guard_down", "done"} =>
    \A r \in scan_from..scan_hi : OwningRoot(r) => rlo = r

(* If the owning leaf is in the window of the binary search and no two     *)
(* leaves start with the same key, the guard loops are a check and not a   *)
(* search: they walk at most one leaf.                                     *)
OwningLeaf(s) ==
  /\ seg_key(s) <= key
  /\ s + 1 < t.nseg => seg_key(s + 1) > key

GuardsOnlyCheck ==
  /\ pc \in {"guard_up", "guard_down", "done"}
  /\ \A i, j \in 0..t.nseg-1 : i # j => seg_key(i) # seg_key(j)
  /\ \E s \in blb_lo..blb_hi-1 : OwningLeaf(s)
  => moves <= 1

(* Both scans of the routing tables are right whenever the window they     *)
(* start from is: the one over root segments ends at the owner, the one    *)
(* over leaves has next to nothing to correct.                             *)
ScansExact == RootScanExact /\ GuardsOnlyCheck
=============================================================================
