----------------------------- MODULE LeafSearch -----------------------------
(***************************************************************************)
(* The last steps of model_lookup() and of lookup_hint(): the window       *)
(* around a predicted position (CAR), the exponential centering search     *)
(* ecs_search() and the binary search blb() it ends in.  One step is one   *)
(* iteration of one of their loops.                                        *)
(*                                                                         *)
(* Nothing is assumed of the prediction p but what predict_biased() clamps *)
(* it to, the positions klo .. khi-1 of the leaf, and nothing of eps, the  *)
(* leaf's seg_eps: what the search finds is stated relative to them.       *)
(***************************************************************************)
EXTENDS Integers

CONSTANTS Arrays,      \* the arrays keys_ to search: sorted, indexed by
                       \* an interval of positions
          QueryKeys,   \* the keys searched for
          MaxEps       \* bound: the widest seg_eps

Sorted(a) == \A i, j \in DOMAIN a : i <= j => a[i] <= a[j]

ASSUME ArraysAssumption ==
  \A a \in Arrays :
    /\ Sorted(a)
    /\ DOMAIN a \subseteq Nat /\ \A i, j \in DOMAIN a : i..j \subseteq DOMAIN a
    /\ \A i \in DOMAIN a : a[i] \in Int
ASSUME QueryAssumption == QueryKeys \subseteq Int /\ MaxEps \in Nat

VARIABLES arr, key, klo, khi, p, eps,   \* the search asked for
          pc,                           \* the loop that runs
          step,                         \* ecs_search: distance of the next probe
          base, len,                    \* blb: what is left of the bracket
          pos,                          \* the position returned
          reads                         \* keys compared so far

input == <<arr, key, klo, khi, p, eps>>
vars == <<arr, key, klo, khi, p, eps, pc, step, base, len, pos, reads>>

Lesser(a, b) == IF a <= b THEN a ELSE b

(* The window [wlo, whi) around p, cut to the leaf.                        *)
wlo == IF p >= klo + eps THEN p - eps ELSE klo
whi == Lesser(p + eps + 1, khi)

(* Slip: predict_biased() clamps to pos_hi, not to the position before it. *)
InitPastEnd ==
  /\ arr \in Arrays
  /\ key \in QueryKeys
  /\ klo \in DOMAIN arr
  /\ \E last \in DOMAIN arr : klo <= last /\ khi = last + 1
  /\ p \in klo..khi
  /\ eps \in 0..MaxEps
  /\ pc = "center"
  /\ step = 0 /\ base = 0 /\ len = 0 /\ pos = 0 /\ reads = 0

(* A search of any leaf of any array, from any prediction in the leaf.     *)
Init ==
  /\ arr \in Arrays
  /\ key \in QueryKeys
  /\ klo \in DOMAIN arr
  /\ \E last \in DOMAIN arr : klo <= last /\ khi = last + 1
  /\ p \in klo..khi-1
  /\ eps \in 0..MaxEps
  /\ pc = "center"
  /\ step = 0 /\ base = 0 /\ len = 0 /\ pos = 0 /\ reads = 0

-----------------------------------------------------------------------------
(* The probe at the prediction itself.                                     *)
Return(at) == pos' = at /\ pc' = "done" /\ UNCHANGED <<step, base, len>>

Center ==
  /\ pc = "center"
  /\ reads' = reads + 1
  /\ \/ arr[p] = key /\ Return(p)
     \/ arr[p] > key /\ p = wlo /\ Return(wlo)
     \/ /\ arr[p] < key \/ (arr[p] > key /\ p # wlo)
        /\ pc' = IF arr[p] < key THEN "right" ELSE "left"
        /\ step' = 1
        /\ UNCHANGED <<base, len, pos>>
  /\ UNCHANGED input

-----------------------------------------------------------------------------
(* Probes at distance 1, 2, 4, ... from p, while the key lies beyond them. *)
BeyondRight == p + step < whi /\ arr[p + step] < key
BeyondLeft == step < p - wlo /\ arr[p - step] > key

(* Slip: the distance is not doubled.                                      *)
LinearProbe ==
  /\ \/ pc = "right" /\ BeyondRight
     \/ pc = "left" /\ BeyondLeft
  /\ step' = step + 1
  /\ reads' = reads + 1
  /\ UNCHANGED <<pc, base, len, pos>>
  /\ UNCHANGED input

Probe ==
  /\ \/ pc = "right" /\ BeyondRight
     \/ pc = "left" /\ BeyondLeft
  /\ step' = 2 * step
  /\ reads' = reads + 1
  /\ UNCHANGED <<pc, base, len, pos>>
  /\ UNCHANGED input

(* Slip: the right bracket is not cut to the window.                       *)
UncutBracket ==
  /\ \/ /\ pc = "right" /\ ~BeyondRight
        /\ reads' = IF p + step < whi THEN reads + 1 ELSE reads
        /\ base' = p + step \div 2
        /\ len' = (p + step + 1) - base'
     \/ /\ pc = "left" /\ ~BeyondLeft
        /\ reads' = IF step < p - wlo THEN reads + 1 ELSE reads
        /\ base' = IF step >= p - wlo THEN wlo ELSE p - step
        /\ len' = Lesser(p - step \div 2 + 1, whi) - base'
  /\ pc' = "halve"
  /\ UNCHANGED <<step, pos>>
  /\ UNCHANGED input

(* Slip: the left bracket begins at the nearer of the last two probes.     *)
BracketNearProbe ==
  /\ \/ /\ pc = "right" /\ ~BeyondRight
        /\ reads' = IF p + step < whi THEN reads + 1 ELSE reads
        /\ base' = p + step \div 2
        /\ len' = Lesser(p + step + 1, whi) - base'
     \/ /\ pc = "left" /\ ~BeyondLeft
        /\ reads' = IF step < p - wlo THEN reads + 1 ELSE reads
        /\ base' = IF step >= p - wlo THEN wlo ELSE p - step \div 2
        /\ len' = Lesser(p - step \div 2 + 1, whi) - base'
  /\ pc' = "halve"
  /\ UNCHANGED <<step, pos>>
  /\ UNCHANGED input

(* The bracket between the last two probes, cut to the window, and the     *)
(* read of the probe that ended the loop.                                  *)
Bracket ==
  /\ \/ /\ pc = "right" /\ ~BeyondRight
        /\ reads' = IF p + step < whi THEN reads + 1 ELSE reads
        /\ base' = p + step \div 2
        /\ len' = Lesser(p + step + 1, whi) - base'
     \/ /\ pc = "left" /\ ~BeyondLeft
        /\ reads' = IF step < p - wlo THEN reads + 1 ELSE reads
        /\ base' = IF step >= p - wlo THEN wlo ELSE p - step
        /\ len' = Lesser(p - step \div 2 + 1, whi) - base'
  /\ pc' = "halve"
  /\ UNCHANGED <<step, pos>>
  /\ UNCHANGED input

-----------------------------------------------------------------------------
(* Slip: the half is rounded to zero for a bracket of two.                 *)
HalveStalls ==
  /\ pc = "halve" /\ len > 1
  /\ LET half == (len - 1) \div 2 IN
       /\ base' = IF arr[base + half] < key THEN base + half ELSE base
       /\ len' = len - half
  /\ UNCHANGED <<pc, step, pos, reads>>
  /\ UNCHANGED input

(* blb(): halve the bracket, keeping the half that holds the first key not *)
(* below the one searched for.                                             *)
Halve ==
  /\ pc = "halve" /\ len > 1
  /\ LET half == len \div 2 IN
       /\ base' = IF arr[base + half] < key THEN base + half ELSE base
       /\ len' = len - half
  /\ reads' = reads + 1
  /\ UNCHANGED <<pc, step, pos>>
  /\ UNCHANGED input

(* blb(), its return value.                                                *)
Finish ==
  /\ pc = "halve" /\ len <= 1
  /\ reads' = reads + 1
  /\ Return(IF arr[base] < key THEN base + 1 ELSE base)
  /\ UNCHANGED input

Next == Center \/ Probe \/ Bracket \/ Halve \/ Finish

Spec == Init /\ [][Next]_vars
FairSpec == Spec /\ WF_vars(Next)

(* model_lookup() and lookup_hint() take the position if the key is there. *)
(* They test it against the end of the leaf, not of the window.            *)
Found == pos < khi /\ arr[pos] = key

-----------------------------------------------------------------------------
TypeOK ==
  /\ arr \in Arrays /\ key \in QueryKeys
  /\ klo \in Nat /\ khi \in Nat /\ p \in Nat /\ eps \in 0..MaxEps
  /\ klo <= p /\ p < khi /\ klo \in DOMAIN arr /\ khi - 1 \in DOMAIN arr
  /\ pc \in {"center", "right", "left", "halve", "done"}
  /\ step \in Nat /\ base \in Nat /\ len \in Int /\ pos \in Nat /\ reads \in Nat

(* The position the next step compares with the key.                       *)
NextRead ==
  CASE pc = "center" -> p
    [] pc = "right" -> IF p + step < whi THEN p + step ELSE p
    [] pc = "left" -> IF step < p - wlo THEN p - step ELSE p
    [] pc = "halve" -> IF len > 1 THEN base + len \div 2 ELSE base
    [] pc = "done" -> IF pos < khi THEN pos ELSE p

(* ecs_search() and blb() index the raw pointer arr: no probe of theirs    *)
(* leaves the window, and the caller's last test stays in the leaf.        *)
ReadsInWindow ==
  /\ pc # "done" => wlo <= NextRead /\ NextRead < whi
  /\ pc = "done" => klo <= NextRead /\ NextRead < khi

(* A key stored in the window is found, wherever p and the brackets fall:  *)
(* the guarantee seg_eps is meant to give ("tight guaranteed window").     *)
CoveredKeyFound ==
  pc = "done" /\ (\E i \in wlo..whi-1 : arr[i] = key) => Found

(* A miss is not just any position: everything in the window before it is  *)
(* smaller than the key and everything from it on is greater.              *)
MissIsInsertionPoint ==
  pc = "done" /\ ~Found =>
    /\ wlo <= pos /\ pos <= whi
    /\ \A i \in wlo..whi-1 : IF i < pos THEN arr[i] < key ELSE arr[i] > key

(* The search of a window is exact: what is stored there is found, and a   *)
(* miss is the place where the key would be.                               *)
SearchExact == CoveredKeyFound /\ MissIsInsertionPoint

(* ecs_search(): "O(log(actual_error+1))" comparisons, the error being the *)
(* distance from p to the place of the key.                                *)
Log2[k \in Nat] == IF k <= 1 THEN 0 ELSE 1 + Log2[k \div 2]

Distance == IF pos >= p THEN pos - p ELSE p - pos

LogarithmicReads == pc = "done" => reads <= 2 * Log2[Distance + 1] + 5

(* Every search returns.                                                   *)
Returns == <>(pc = "done")
=============================================================================
