----------------------------- MODULE Baselines -----------------------------
(***************************************************************************)
(* The four indexes the benchmark compares NLIIndex with, under one        *)
(* history of calls, as main_benchmark.cpp makes for each: a build, then   *)
(* lookups and inserts; and builds again, which the classes allow.         *)
(***************************************************************************)
EXTENDS BTreeBaseline, RmiBaseline, PgmBaseline, AlexBaseline

CONSTANTS DataSets,   \* sorted sequences of entries an index is built from
          InsertKeys, \* the keys inserted
          MaxInserts  \* bound: calls of insert

VARIABLES put,       \* the entries of the last build and the inserts since
          rebuilt,   \* a build came after other entries
          inserts    \* calls of insert

vars == <<bt_vars, rmi_vars, pgm_vars, alex_vars, put, rebuilt, inserts>>

ASSUME BoundsAssumption == InsertKeys \subseteq Keys /\ MaxInserts \in Nat
ASSUME DataSetsAssumption ==
  \A d \in DataSets : d \in Seq(Entry) /\ SortedByKey(d) = d
ASSUME KeyTypeAssumption == Keys \subseteq 0..Sentinel

Init ==
  /\ BtInit /\ RmiInit /\ PgmInit /\ AlexInit
  /\ put = <<>> /\ rebuilt = FALSE /\ inserts = 0

(* Bound: one build over other entries.                                    *)
Build(data) ==
  /\ ~rebuilt
  /\ BtBuild(data)
  /\ RmiBuild(data) /\ UNCHANGED rmi_pending
  /\ PgmBuild(data)
  /\ AlexBuild(data)
  /\ put' = data
  /\ rebuilt' = (rebuilt \/ put # <<>>)
  /\ UNCHANGED inserts

(* A lookup of any key: all change the same.                               *)
Lookup ==
  /\ PgmLookupFlush
  /\ UNCHANGED <<bt_vars, rmi_vars, alex_vars, put, rebuilt, inserts>>

Insert(k) ==
  /\ inserts < MaxInserts /\ inserts' = inserts + 1
  /\ BtInsert(E(k, Inserted))
  /\ RmiInsert(E(k, Inserted))
  /\ PgmInsert(E(k, Inserted))
  /\ AlexInsert(E(k, Inserted))
  /\ put' = SortedByKey(Append(put, E(k, Inserted)))
  /\ UNCHANGED rebuilt

Next ==
  \/ \E data \in DataSets : Build(data)
  \/ Lookup
  \/ \E k \in InsertKeys : Insert(k)

Spec == Init /\ [][Next]_vars

-----------------------------------------------------------------------------
(* The four indexes keep their types; each waiting list stays below the    *)
(* length at which an insert empties it, the PGM's up to it; and the       *)
(* arrays are sorted.                                                      *)
Increasing(s) == \A i \in 2..Len(s) : s[i - 1].key <= s[i].key

TypeOK ==
  /\ \A j \in DOMAIN bt_leaves :
       bt_leaves[j] \in Seq(Entry) /\ Increasing(bt_leaves[j]) /\ Len(bt_leaves[j]) \in 1..Order
  /\ \A l \in DOMAIN bt_levels : \A j \in DOMAIN bt_levels[l] : Len(bt_levels[l][j].keys) <= Order
  /\ bt_pending \in Seq(Entry) /\ Len(bt_pending) < Order * FlushFactor
  /\ bt_height \in {Len(bt_levels), Len(bt_levels) + 1}
  /\ rmi_data \in Seq(Entry) /\ Increasing(rmi_data)
  /\ rmi_pending \in Seq(Entry) /\ Len(rmi_pending) < L1Size
  /\ pgm_data \in Seq(Entry) /\ Increasing(pgm_data)
  /\ pgm_inserts \in Seq(Entry)
  /\ rebuilt \/ Len(pgm_inserts) <= Max({FlushMin, Len(pgm_data) \div FlushShare})
  /\ alex_idx \in [Keys -> Nat] /\ alex_size \in Nat

CountIn(s, k) == Cardinality({i \in DOMAIN s : s[i].key = k})
Copies(s, k) == {s[i].val : i \in {j \in DOMAIN s : s[j].key = k}}

(* No call loses an entry.  Every key put in since the last build is held  *)
(* by the BTree, the RMI and the PGM, stored or waiting, under a value it  *)
(* was put in with; the BTree holds no other, and counts what it holds.    *)
(* Unless one was built twice, the counts of the others match too, the     *)
(* PGM and ALEX hold every entry, repeated keys included, and ALEX nothing *)
(* else.  A second build leaves the waiting inserts of the RMI and of the  *)
(* PGM where they are, and ALEX ignores it.                                *)
NothingLost ==
  /\ BtHeld = KeysOf(put)
  /\ bt_n = Len(BtStored) + Len(bt_pending)
  /\ KeysOf(put) \subseteq RmiHeld \cap PgmHeld
  /\ \A k \in Keys : CountIn(pgm_data \o pgm_inserts, k) >= CountIn(put, k)
  /\ ~rebuilt =>
       /\ \A k \in Keys : /\ CountIn(pgm_data \o pgm_inserts, k) = CountIn(put, k)
                          /\ alex_idx[k] = CountIn(put, k)
                          /\ Copies(BtStored \o bt_pending, k) \subseteq Copies(put, k)
                          /\ Copies(rmi_data \o rmi_pending, k) \subseteq Copies(put, k)
       /\ rmi_n = Len(rmi_data) + Len(rmi_pending)
       /\ alex_size = Len(put)
       /\ ~Refused(put) => pgm_size = Len(put)

(* What is stored is found.  The separators of the BTree lead to the leaf  *)
(* that has the key, whatever number of levels there is, and a key that    *)
(* still waits is missed.  The window of the RMI's leaf model has the key  *)
(* unless an insert waits: until then no place past the array is read.     *)
StoredIsFound ==
  /\ \A k \in Keys :
       IF k \in KeysOf(BtStored)
         THEN \E e \in BtLookup(k) : e.val \in Copies(BtStored, k)
         ELSE BtLookup(k) = {}
  /\ rmi_n = Len(rmi_data) =>
       \A k \in Keys : RmiLookup(k) = {IF k \in KeysOf(rmi_data) THEN "found" ELSE "miss"}

(* Whatever the level it starts from and wherever a float falls, the       *)
(* search of the PGM-index ends in a window that has the first place of    *)
(* the key, or the place where an absent key would be, as its              *)
(* documentation promises; and the adapter finds exactly the stored keys.  *)
(* Arrays that end with the sentinel have no index of their own.  No line  *)
(* starts below zero, which the code takes for an overflow.                *)
PgmWindowExact ==
  /\ pgm_model # NoModel =>
       \A l \in DOMAIN pgm_model.levels : \A i \in DOMAIN pgm_model.levels[l] :
         pgm_model.levels[l][i].intercept >= 0
  /\ (pgm_data # <<>> /\ ~Refused(pgm_data)) =>
       \A k \in 0..Sentinel - 1 :
         LET place == LowerBoundOf(pgm_data, k)
         IN /\ \A w \in Search(pgm_model, k) : w.lo <= place /\ place <= w.hi
            /\ \A a \in PgmAnswer(pgm_data, pgm_model, k) : (a # {}) = (k \in KeysOf(pgm_data))

(* A line exists through all the intervals of epsilon around the points,   *)
(* none being cut off below zero: by Helly's theorem, if there is one for  *)
(* any three of them, that is, unless the middle one lies above or below   *)
(* all the lines between the outer two.                                    *)
Coverable(points, epsilon) ==
  LET lo(p) == SubEps(p.y, epsilon)
      hi(p) == p.y + epsilon
  IN \A i, j, k \in DOMAIN points :
       i < j /\ j < k =>
         LET p == points[i]  q == points[j]  r == points[k]
         IN /\ lo(q) * (r.x - p.x) <= hi(p) * (r.x - q.x) + hi(r) * (q.x - p.x)
            /\ hi(q) * (r.x - p.x) >= lo(p) * (r.x - q.x) + lo(r) * (q.x - p.x)

(* The hulls of the PGM-index refuse a point exactly when no line within   *)
(* epsilon of its segment's points passes within epsilon of it too: its    *)
(* segments are as long as they can be, and so as few.                     *)
PgmSegmentsLongest ==
  pgm_data # <<>> =>
    LET seen == Segmentation(KeySequence(pgm_data), Epsilon).seen
    IN \A s \in DOMAIN seen :
         /\ Coverable(seen[s], Epsilon)
         /\ s < Len(seen) => ~Coverable(Append(seen[s], seen[s + 1][1]), Epsilon)
=============================================================================
