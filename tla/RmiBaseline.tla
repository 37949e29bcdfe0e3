---------------------------- MODULE RmiBaseline ----------------------------
(***************************************************************************)
(* RMIIndex, the two-level recursive model index: a line over all keys     *)
(* picks one of l1_size_ leaf models, whose line predicts the position; an *)
(* insert waits until there are l1_size_ of them, but is counted at once.  *)
(*                                                                         *)
(* Lines are exact fractions.  Where the exact value is an integer the     *)
(* doubles of the code may fall just short of it and the cast then yields  *)
(* the integer below; rmi_short says whether they do, for all keys alike.  *)
(* Positions count from zero.                                              *)
(***************************************************************************)
EXTENDS Entries, FiniteSetsExt

CONSTANTS L1Size   \* l1_size_ (1024 in the benchmarks)

ASSUME L1SizeAssumption == L1Size \in Nat \ {0}

VARIABLES rmi_data,      \* keys_ and vals_
          rmi_root,      \* root_slope_ and root_intercept_
          rmi_leaves,    \* leaves_, empty before the first build
          rmi_pending,   \* pending_
          rmi_n,         \* n_
          rmi_short

rmi_vars == <<rmi_data, rmi_root, rmi_leaves, rmi_pending, rmi_n, rmi_short>>

(* The line through <<x, y>> of the given slope.                           *)
LineThrough(x, y, num, den) == [x |-> x, y |-> y, num |-> num, den |-> den]

(* The cast of a line's value, which may be short of the exact one.       *)
ValueAt(line, k, short) ==
  LET num == line.num * (k - line.x) + line.y * line.den
  IN IF short /\ num % line.den = 0 /\ num > 0
       THEN num \div line.den - 1 ELSE num \div line.den

RmiInit ==
  /\ rmi_data = <<>> /\ rmi_leaves = <<>> /\ rmi_pending = <<>> /\ rmi_n = 0
  /\ rmi_root = LineThrough(0, 0, 0, 1)
  /\ rmi_short \in BOOLEAN

(* root_predict(), clamped to the leaves there are.                        *)
RootPredict(root, k, short) == Max({0, Min({L1Size - 1, ValueAt(root, k, short)})})

RootFor(data) ==
  LET lo == data[1].key
      hi == data[Len(data)].key
  IN IF lo = hi THEN LineThrough(0, 0, 0, 1) ELSE LineThrough(lo, 0, L1Size - 1, hi - lo)

(* RMILeaf::train().  The error of every key is taken before predict()     *)
(* clamps the position to the leaf.                                        *)
Trained(data, start, count, short) ==
  LET lo == data[start + 1].key
      hi == data[start + count].key
      line == IF count = 0 \/ lo = hi THEN LineThrough(0, start, 0, 1)
              ELSE LineThrough(lo, start, count - 1, hi - lo)
      Err(i) == LET p == Max({0, ValueAt(line, data[i + 1].key, short)})
                IN IF p > i THEN p - i ELSE i - p
  IN [start |-> start, count |-> count, line |-> line,
      max_err |-> IF count = 0 \/ lo = hi THEN 0
                  ELSE Max({Err(i) : i \in start..start + count - 1})]

LeavesOf(data, root, short) ==
  LET leaf_start(l) ==
        Cardinality({i \in DOMAIN data : RootPredict(root, data[i].key, short) < l})
  IN [l \in 0..L1Size - 1 |->
        Trained(data, leaf_start(l), leaf_start(l + 1) - leaf_start(l), short)]

(* build().  An empty data set only zeroes n_.                             *)
RmiBuild(data) ==
  /\ rmi_n' = Len(data)
  /\ IF data = <<>>
       THEN UNCHANGED <<rmi_data, rmi_root, rmi_leaves>>
       ELSE /\ rmi_data' = data
            /\ rmi_root' = RootFor(data)
            /\ rmi_leaves' = LeavesOf(data, RootFor(data), rmi_short)
  /\ UNCHANGED rmi_short

(* RMILeaf::predict().                                                     *)
LeafPredict(leaf, k, n) ==
  Min({n - 1, leaf.start + leaf.count - 1, Max({leaf.start, ValueAt(leaf.line, k, rmi_short)})})

(* A step of std::lower_bound, with len places from lo left.  Those past   *)
(* the end of keys_ are read all the same, and hold anything.              *)
Halved(lo, len, k) ==
  LET half == len \div 2
      mid == lo + half
      isLess == IF mid < Len(rmi_data) THEN {rmi_data[mid + 1].key < k} ELSE BOOLEAN
  IN IF len = 0 THEN {<<lo, 0>>}
     ELSE {IF less THEN <<mid + 1, len - half - 1>> ELSE <<lo, half>> : less \in isLess}

(* The places it may end at.                                               *)
LowerBounds(lo, len, k) ==
  LET left[n \in 0..len] ==   \* after n steps
        IF n = 0 THEN {<<lo, len>>} ELSE UNION {Halved(p[1], p[2], k) : p \in left[n - 1]}
  IN {p[1] : p \in left[len]}

(* The answers lookup() may give: entries, or "miss"; and "garbage" where  *)
(* it reads what was never written.                                        *)
RmiLookup(k) ==
  IF rmi_n = 0 THEN {"miss"}
  ELSE IF rmi_leaves = <<>> THEN {"garbage"}
  ELSE
    LET leaf == rmi_leaves[RootPredict(rmi_root, k, rmi_short)]
        pred == LeafPredict(leaf, k, rmi_n)
        err == leaf.max_err + 1
        lo == IF pred > err THEN pred - err ELSE 0
        hi == Min({pred + err + 1, rmi_n})
        At(i) == IF i = hi THEN "miss"
                 ELSE IF i >= Len(rmi_data) THEN "garbage"
                 ELSE IF rmi_data[i + 1].key = k THEN "found" ELSE "miss"
    IN IF leaf.count = 0 THEN {"miss"} ELSE {At(i) : i \in LowerBounds(lo, hi - lo, k)}

(* insert(), and flush_pending() once L1Size inserts wait.                 *)
RmiInsert(e) ==
  LET pending == Append(rmi_pending, e)
  IN IF Len(pending) >= L1Size
       THEN /\ rmi_pending' = <<>>
            /\ \E merged \in Deduplicated(rmi_data \o pending) : RmiBuild(merged)
       ELSE /\ rmi_pending' = pending
            /\ rmi_n' = rmi_n + 1
            /\ UNCHANGED <<rmi_data, rmi_root, rmi_leaves, rmi_short>>

RmiHeld == KeysOf(rmi_data) \cup KeysOf(rmi_pending)
=============================================================================
