--------------------------- MODULE BaselinesProofs ---------------------------
(***************************************************************************)
(* The baseline indexes for every set of keys, every data set, and every   *)
(* order, fan-out and threshold: their types, that no call loses an entry, *)
(* that the BTree, whatever its number of levels, the RMI and the PGM find *)
(* what they store, and that the segments of the PGM-index are as long as  *)
(* lines within epsilon can be.                                            *)
(***************************************************************************)
EXTENDS Baselines, Recursion, SequenceTheorems

-----------------------------------------------------------------------------
(* Entries in the order of their keys.                                     *)
Sorted(s) == s \in Seq(Entry) /\ \A i, j \in DOMAIN s : i <= j => s[i].key <= s[j].key

LEMMA EntryType ==
  ASSUME NEW s \in Seq(Entry), NEW i \in DOMAIN s
  PROVE  s[i] \in Entry /\ s[i].key \in Keys /\ s[i].key \in Nat /\ s[i].val \in Values
<1>1. s[i] \in Entry
  OBVIOUS
<1> QED BY <1>1, KeysAssumption DEF Entry

LEMMA SortedIncreasing == ASSUME NEW s, Sorted(s) PROVE Increasing(s)
<1>1. s \in Seq(Entry)
  BY DEF Sorted
<1>2. \A i \in 2..Len(s) : i - 1 \in DOMAIN s /\ i \in DOMAIN s /\ i - 1 <= i
  BY <1>1
<1> QED BY <1>2 DEF Sorted, Increasing

LEMMA KeysOfFacts ==
  ASSUME NEW s \in Seq(Entry)
  PROVE  KeysOf(s) \subseteq Keys /\ KeysOf(s) \subseteq Nat /\ IsFiniteSet(KeysOf(s))
<1>1. KeysOf(s) \subseteq Keys
  BY EntryType DEF KeysOf
<1> QED BY <1>1, KeysAssumption, FS_Subset

(* The entries of one sequence at other places.                            *)
Rearranged(s, t) ==
  /\ s \in Seq(Entry) /\ t \in Seq(Entry) /\ Len(t) = Len(s)
  /\ \E p \in Bijection(DOMAIN s, DOMAIN s) : \A i \in DOMAIN s : t[i] = s[p[i]]

(* As many entries of each key, and the same values.                       *)
SameEntries(s, t) ==
  /\ KeysOf(t) = KeysOf(s)
  /\ \A k : CountIn(t, k) = CountIn(s, k) /\ Copies(t, k) = Copies(s, k)

LEMMA CountInType ==
  ASSUME NEW s \in Seq(Entry), NEW k
  PROVE  /\ IsFiniteSet({i \in DOMAIN s : s[i].key = k}) /\ CountIn(s, k) \in Nat
         /\ CountIn(s, k) = 0 <=> k \notin KeysOf(s)
<1> DEFINE D == {i \in DOMAIN s : s[i].key = k}
<1>1. DOMAIN s = 1..Len(s) /\ Len(s) \in Nat /\ D \subseteq DOMAIN s
  OBVIOUS
<1>2. IsFiniteSet(DOMAIN s)
  BY <1>1, FS_Interval
<1>3. IsFiniteSet(D)
  BY <1>1, <1>2, FS_Subset
<1>4. Cardinality(D) \in Nat /\ (Cardinality(D) = 0 <=> D = {})
  BY <1>3, FS_CardinalityType, FS_EmptySet
<1>5. D = {} <=> k \notin KeysOf(s)
  BY DEF KeysOf
<1> QED BY <1>3, <1>4, <1>5 DEF CountIn

LEMMA RearrangedSame ==
  ASSUME NEW s, NEW t, Rearranged(s, t)
  PROVE  SameEntries(s, t)
<1>1. /\ s \in Seq(Entry) /\ t \in Seq(Entry) /\ DOMAIN t = DOMAIN s
  BY DEF Rearranged
<1>2. PICK p \in Bijection(DOMAIN s, DOMAIN s) : \A i \in DOMAIN s : t[i] = s[p[i]]
  BY DEF Rearranged
<1>3. /\ \A i \in DOMAIN s : p[i] \in DOMAIN s
      /\ \A i, j \in DOMAIN s : p[i] = p[j] => i = j
      /\ \A j \in DOMAIN s : \E i \in DOMAIN s : p[i] = j
  BY <1>2 DEF Bijection, Injection, Surjection, IsInjective
<1>10. ASSUME NEW i \in DOMAIN t PROVE \E j \in DOMAIN s : t[i] = s[j]
  <2>1. i \in DOMAIN s /\ t[i] = s[p[i]] /\ p[i] \in DOMAIN s
    BY <1>1, <1>2, <1>3
  <2> QED BY <2>1
<1>11. ASSUME NEW j \in DOMAIN s PROVE \E i \in DOMAIN t : t[i] = s[j]
  <2>1. PICK i \in DOMAIN s : p[i] = j
    BY <1>3
  <2> QED BY <1>1, <1>2, <2>1
<1>4. KeysOf(t) = KeysOf(s)
  <2>1. \A i \in DOMAIN t : t[i].key \in KeysOf(s)
    BY <1>10 DEF KeysOf
  <2>2. ASSUME NEW j \in DOMAIN s PROVE s[j].key \in KeysOf(t)
    <3>1. PICK i \in DOMAIN t : t[i] = s[j]
      BY <1>11
    <3> QED BY <3>1 DEF KeysOf
  <2>3. KeysOf(t) \subseteq KeysOf(s)
    BY <2>1 DEF KeysOf
  <2>4. KeysOf(s) \subseteq KeysOf(t)
    BY <2>2 DEF KeysOf
  <2> QED BY <2>3, <2>4
<1>5. ASSUME NEW k PROVE Copies(t, k) = Copies(s, k)
  <2>1. ASSUME NEW i \in DOMAIN t, t[i].key = k PROVE t[i].val \in Copies(s, k)
    <3>1. PICK j \in DOMAIN s : t[i] = s[j]
      BY <1>10
    <3> QED BY <2>1, <3>1 DEF Copies
  <2>2. ASSUME NEW j \in DOMAIN s, s[j].key = k PROVE s[j].val \in Copies(t, k)
    <3>1. PICK i \in DOMAIN t : t[i] = s[j]
      BY <1>11
    <3> QED BY <2>2, <3>1 DEF Copies
  <2>3. Copies(t, k) \subseteq Copies(s, k)
    BY <2>1 DEF Copies
  <2>4. Copies(s, k) \subseteq Copies(t, k)
    BY <2>2 DEF Copies
  <2> QED BY <2>3, <2>4
<1>6. ASSUME NEW k PROVE CountIn(t, k) = CountIn(s, k)
  <2> DEFINE D == {i \in DOMAIN s : s[i].key = k}
             C == {i \in DOMAIN t : t[i].key = k}
             h == [i \in C |-> p[i]]
  <2>1. h \in [C -> D] /\ \A i \in C : h[i] = p[i] /\ i \in DOMAIN s
    BY <1>1, <1>2, <1>3
  <2>2. \A j \in D : \E i \in C : p[i] = j
    BY <1>1, <1>2, <1>3
  <2> HIDE DEF h
  <2>3. h \in Bijection(C, D)
    <3>1. h \in Surjection(C, D)
      BY <2>1, <2>2 DEF Surjection
    <3>2. h \in Injection(C, D)
      <4>1. \A i, j \in C : h[i] = h[j] => i = j
        BY <1>3, <2>1
      <4> HIDE DEF C, D
      <4> QED BY <2>1, <4>1 DEF Injection, IsInjective
    <3> QED BY <3>1, <3>2 DEF Bijection
  <2>4. IsFiniteSet(C)
    BY <1>1, CountInType
  <2>5. Cardinality(D) = Cardinality(C)
    <3> HIDE DEF C, D
    <3> QED BY <2>3, <2>4, FS_Bijection DEF ExistsBijection
  <2> QED BY <2>5 DEF CountIn
<1> QED BY <1>4, <1>5, <1>6 DEF SameEntries

(* std::sort: the same entries, in order.                                  *)
Before(s, i) == {j \in DOMAIN s : s[j].key < s[i].key \/ (s[j].key = s[i].key /\ j < i)}

LEMMA SortedByKeyFacts ==
  ASSUME NEW s \in Seq(Entry)
  PROVE  Sorted(SortedByKey(s)) /\ Rearranged(s, SortedByKey(s))
<1> DEFINE n == Len(s)
           D == DOMAIN s
           B == [i \in D |-> Before(s, i)]
           at == [p \in D |-> CHOOSE i \in D : Cardinality(Before(s, i)) = p - 1]
           t == SortedByKey(s)
<1>1. n \in Nat /\ D = 1..n
  OBVIOUS
<1>2. IsFiniteSet(D) /\ Cardinality(D) = n
  BY <1>1, FS_Interval
<1>3. \A i \in D : i \in Int /\ s[i].key \in Int
  BY <1>1, EntryType
<1>4. Linear(B, D)
  <2>1. B \in [D -> SUBSET D] /\ \A i \in D : B[i] = Before(s, i)
    BY DEF Before
  <2> HIDE DEF B, D
  <2>2. \A i \in D : i \notin B[i]
    BY <1>3, <2>1 DEF Before, D
  <2>3. ASSUME NEW x \in D, NEW y \in D, x \in B[y] PROVE B[x] \subseteq B[y]
    <3>1. s[x].key < s[y].key \/ (s[x].key = s[y].key /\ x < y)
      BY <2>1, <2>3 DEF Before
    <3>2. ASSUME NEW z \in B[x] PROVE z \in B[y]
      <4>1. z \in D /\ (s[z].key < s[x].key \/ (s[z].key = s[x].key /\ z < x))
        BY <2>1, <3>2 DEF Before, D
      <4>2. s[z].key < s[y].key \/ (s[z].key = s[y].key /\ z < y)
        BY <1>3, <3>1, <4>1
      <4> QED BY <2>1, <4>1, <4>2 DEF Before, D
    <3> QED BY <3>2
  <2>4. ASSUME NEW x \in D, NEW y \in D, x # y PROVE x \in B[y] \/ y \in B[x]
    <3>1. \/ s[x].key < s[y].key \/ (s[x].key = s[y].key /\ x < y)
          \/ s[y].key < s[x].key \/ (s[y].key = s[x].key /\ y < x)
      BY <1>3, <2>4
    <3> QED BY <2>1, <3>1 DEF Before, D
  <2> QED BY <2>1, <2>2, <2>3, <2>4 DEF Linear
<1>5. Ranked(at, B, D)
  <2>1. ASSUME NEW p \in D PROVE at[p] \in D /\ Cardinality(B[at[p]]) = p - 1
    <3>1. \E i \in D : Cardinality(Before(s, i)) = p - 1
      <4>1. p \in 1..Cardinality(D)
        BY <1>1, <1>2
      <4>2. PICK i \in D : Cardinality(B[i]) = p - 1
        <5> HIDE DEF B, D
        <5> QED BY <1>2, <1>4, <4>1, RankExists
      <4> QED BY <4>2
    <3>2. at[p] \in D /\ Cardinality(Before(s, at[p])) = p - 1
      BY <3>1
    <3> HIDE DEF at
    <3> QED BY <3>2
  <2>2. at \in [1..Cardinality(D) -> D]
    <3>1. at = [p \in D |-> at[p]]
      OBVIOUS
    <3> HIDE DEF at
    <3> QED BY <1>1, <1>2, <2>1, <3>1
  <2>3. \A i \in 1..Cardinality(D) : Cardinality(B[at[i]]) = i - 1
    BY <1>1, <1>2, <2>1
  <2> HIDE DEF B, D, at
  <2> QED BY <1>2, <1>4, <2>2, <2>3, Ranking
<1>6. t = [p \in D |-> s[CHOOSE i \in D : Cardinality(Before(s, i)) = p - 1]]
  BY DEF SortedByKey, Before
<1>7. \A p \in D : t[p] = s[at[p]] /\ at[p] \in D
  <2>1. \A p \in D : t[p] = s[at[p]]
    BY <1>6
  <2>3. \A p \in D : at[p] \in D
    <3> HIDE DEF at
    <3> QED BY <1>1, <1>2, <1>5 DEF Ranked
  <2> HIDE DEF at, t
  <2> QED BY <2>1, <2>3
<1> HIDE DEF at, t
<1>8. t \in Seq(Entry) /\ Len(t) = n /\ DOMAIN t = D
  <2>1. DOMAIN t = 1..n
    BY <1>1, <1>6
  <2>2. \A p \in 1..n : t[p] \in Entry
    BY <1>1, <1>7, EntryType
  <2>3. t = [p \in 1..n |-> t[p]]
    BY <1>1, <1>6
  <2> HIDE DEF n
  <2>4. t \in Seq(Entry)
    BY <1>1, <2>2, <2>3
  <2> QED BY <1>1, <2>1, <2>4
<1>9. \A i, j \in D : i < j => at[i] \in Before(s, at[j]) /\ at[i] # at[j]
  <2>1. \A i, j \in D : i < j => at[i] \in B[at[j]] /\ at[i] # at[j]
    BY <1>1, <1>2, <1>5 DEF Ranked
  <2> QED BY <1>7, <2>1
<1>10. at \in Bijection(D, D)
  <2>1. at \in [D -> D] /\ \A x \in D : \E i \in D : at[i] = x
    BY <1>1, <1>2, <1>5 DEF Ranked
  <2>2. ASSUME NEW i \in D, NEW j \in D, i # j PROVE at[i] # at[j]
    <3>1. i < j \/ j < i
      BY <1>3, <2>2
    <3> QED BY <1>9, <3>1
  <2> HIDE DEF D
  <2>3. at \in Injection(D, D) /\ at \in Surjection(D, D)
    BY <2>1, <2>2 DEF Injection, Surjection, IsInjective
  <2> QED BY <2>3 DEF Bijection
<1>11. Rearranged(s, t)
  BY <1>7, <1>8, <1>10 DEF Rearranged
<1>12. ASSUME NEW i \in D, NEW j \in D, i <= j PROVE t[i].key <= t[j].key
  <2>0. at[i] \in D /\ at[j] \in D /\ t[i] = s[at[i]] /\ t[j] = s[at[j]]
    BY <1>7
  <2>1. CASE i = j
    <3>1. s[at[i]].key \in Int
      BY <1>3, <2>0
    <3> QED BY <2>0, <2>1, <3>1
  <2>2. CASE i < j
    <3>1. at[i] \in Before(s, at[j])
      BY <1>9, <2>2
    <3>2. s[at[i]].key < s[at[j]].key \/ s[at[i]].key = s[at[j]].key
      BY <3>1 DEF Before
    <3>3. s[at[i]].key \in Int /\ s[at[j]].key \in Int
      BY <1>3, <2>0
    <3> QED BY <2>0, <3>2, <3>3
  <2> QED BY <1>3, <1>12, <2>1, <2>2
<1>13. Sorted(t)
  BY <1>8, <1>12 DEF Sorted
<1> QED BY <1>11, <1>13 DEF t

(* One sequence behind another.                                            *)
LEMMA Concatenated ==
  ASSUME NEW s \in Seq(Entry), NEW t \in Seq(Entry)
  PROVE  /\ s \o t \in Seq(Entry) /\ Len(s \o t) = Len(s) + Len(t)
         /\ DOMAIN (s \o t) = 1..Len(s) + Len(t)
         /\ \A i \in DOMAIN s : (s \o t)[i] = s[i]
         /\ \A i \in DOMAIN t : (s \o t)[Len(s) + i] = t[i]
         /\ \A i \in DOMAIN (s \o t) : i \in DOMAIN s \/ (i - Len(s) \in DOMAIN t /\ i > Len(s))
<1>1. /\ s \o t \in Seq(Entry) /\ Len(s \o t) = Len(s) + Len(t)
      /\ \A i \in 1..Len(s) + Len(t) : (s \o t)[i] = IF i <= Len(s) THEN s[i] ELSE t[i - Len(s)]
  BY ConcatProperties
<1>2. /\ DOMAIN s = 1..Len(s) /\ DOMAIN t = 1..Len(t) /\ Len(s) \in Nat /\ Len(t) \in Nat
      /\ DOMAIN (s \o t) = 1..Len(s) + Len(t)
  BY <1>1
<1>3. \A i \in DOMAIN s : (s \o t)[i] = s[i]
  BY <1>1, <1>2
<1>4. ASSUME NEW i \in DOMAIN t PROVE (s \o t)[Len(s) + i] = t[i]
  <2>1. Len(s) + i \in 1..Len(s) + Len(t) /\ ~ (Len(s) + i <= Len(s)) /\ (Len(s) + i) - Len(s) = i
    BY <1>2
  <2> QED BY <1>1, <2>1
<1>5. \A i \in DOMAIN (s \o t) : i \in DOMAIN s \/ (i - Len(s) \in DOMAIN t /\ i > Len(s))
  BY <1>2
<1> QED BY <1>1, <1>2, <1>3, <1>4, <1>5

LEMMA BothParts ==
  ASSUME NEW s \in Seq(Entry), NEW t \in Seq(Entry)
  PROVE  /\ KeysOf(s \o t) = KeysOf(s) \cup KeysOf(t)
         /\ \A k : /\ CountIn(s \o t, k) = CountIn(s, k) + CountIn(t, k)
                   /\ Copies(s \o t, k) = Copies(s, k) \cup Copies(t, k)
<1> DEFINE st == s \o t
           n == Len(s)
<1>1. /\ st \in Seq(Entry)
      /\ \A i \in DOMAIN s : i \in DOMAIN st /\ st[i] = s[i]
      /\ \A i \in DOMAIN t : n + i \in DOMAIN st /\ st[n + i] = t[i]
  <2>1. DOMAIN s = 1..n /\ DOMAIN t = 1..Len(t) /\ n \in Nat /\ Len(t) \in Nat
    OBVIOUS
  <2>2. DOMAIN st = 1..n + Len(t)
    BY Concatenated
  <2>3. \A i \in DOMAIN s : i \in 1..n + Len(t)
    BY ONLY <2>1
  <2>4. \A i \in DOMAIN t : n + i \in 1..n + Len(t)
    BY ONLY <2>1
  <2> QED BY <2>2, <2>3, <2>4, Concatenated
<1>2. \A i \in DOMAIN st : i \in DOMAIN s \/ \E j \in DOMAIN t : i = n + j
  <2>1. \A i \in DOMAIN st : i \in DOMAIN s \/ (i - n \in DOMAIN t /\ i > n)
    BY Concatenated
  <2>2. \A i \in DOMAIN st : i \in Int /\ n \in Int /\ n + (i - n) = i
    BY <1>1
  <2> QED BY <2>1, <2>2
<1>3. DOMAIN s = 1..n /\ n \in Nat /\ DOMAIN t \subseteq Nat \ {0}
  OBVIOUS
<1> HIDE DEF st, n
<1>4. ASSUME NEW i \in DOMAIN st
      PROVE  (\E j \in DOMAIN s : st[i] = s[j]) \/ (\E j \in DOMAIN t : st[i] = t[j])
  BY <1>1, <1>2
<1>5. KeysOf(st) = KeysOf(s) \cup KeysOf(t)
  <2>1. \A i \in DOMAIN st : st[i].key \in KeysOf(s) \cup KeysOf(t)
    BY <1>4 DEF KeysOf
  <2>2. \A i \in DOMAIN s : s[i].key \in KeysOf(st)
    <3> TAKE i \in DOMAIN s
    <3>1. i \in DOMAIN st /\ st[i] = s[i]
      BY <1>1
    <3> QED BY <3>1 DEF KeysOf
  <2>3. \A i \in DOMAIN t : t[i].key \in KeysOf(st)
    <3> TAKE i \in DOMAIN t
    <3>1. n + i \in DOMAIN st /\ st[n + i] = t[i]
      BY <1>1
    <3> QED BY <3>1 DEF KeysOf
  <2>4. KeysOf(st) \subseteq KeysOf(s) \cup KeysOf(t)
    BY <2>1 DEF KeysOf
  <2>5. KeysOf(s) \subseteq KeysOf(st) /\ KeysOf(t) \subseteq KeysOf(st)
    BY <2>2, <2>3 DEF KeysOf
  <2> QED BY <2>4, <2>5
<1>6. ASSUME NEW k PROVE Copies(st, k) = Copies(s, k) \cup Copies(t, k)
  <2>1. \A i \in DOMAIN st : st[i].key = k => st[i].val \in Copies(s, k) \cup Copies(t, k)
    BY <1>4 DEF Copies
  <2>2. \A i \in DOMAIN s : s[i].key = k => s[i].val \in Copies(st, k)
    <3> TAKE i \in DOMAIN s
    <3>1. i \in DOMAIN st /\ st[i] = s[i]
      BY <1>1
    <3> QED BY <3>1 DEF Copies
  <2>3. \A i \in DOMAIN t : t[i].key = k => t[i].val \in Copies(st, k)
    <3> TAKE i \in DOMAIN t
    <3>1. n + i \in DOMAIN st /\ st[n + i] = t[i]
      BY <1>1
    <3> QED BY <3>1 DEF Copies
  <2>4. Copies(st, k) \subseteq Copies(s, k) \cup Copies(t, k)
    BY <2>1 DEF Copies
  <2>5. Copies(s, k) \subseteq Copies(st, k) /\ Copies(t, k) \subseteq Copies(st, k)
    BY <2>2, <2>3 DEF Copies
  <2> QED BY <2>4, <2>5
<1>7. ASSUME NEW k PROVE CountIn(st, k) = CountIn(s, k) + CountIn(t, k)
  <2> DEFINE S == {i \in DOMAIN s : s[i].key = k}
             T == {i \in DOMAIN t : t[i].key = k}
             U == {n + i : i \in T}
             h == [i \in T |-> n + i]
  <2>1. IsFiniteSet(S) /\ IsFiniteSet(T)
    BY CountInType
  <2>2. \A i \in T : i \in Nat \ {0}
    BY <1>3
  <2>3. h \in Bijection(T, U)
    <3>1. h \in [T -> U] /\ \A i \in T : h[i] = n + i
      OBVIOUS
    <3>2. \A u \in U : \E i \in T : h[i] = u
      OBVIOUS
    <3>3. \A i, j \in T : n + i = n + j => i = j
      BY <1>3, <2>2
    <3> HIDE DEF h, T, U
    <3> QED BY <3>1, <3>2, <3>3 DEF Bijection, Injection, Surjection, IsInjective
  <2>4. IsFiniteSet(U) /\ Cardinality(U) = Cardinality(T)
    <3> HIDE DEF h, T, U
    <3> QED BY <2>1, <2>3, FS_Bijection DEF ExistsBijection
  <2>5. S \cap U = {}
    <3>1. \A i \in S : i <= n
      BY <1>3
    <3>2. \A i \in T : n + i > n
      BY <1>3, <2>2
    <3> QED BY <1>3, <3>1, <3>2
  <2>6. {i \in DOMAIN st : st[i].key = k} = S \cup U
    <3>1. ASSUME NEW i \in DOMAIN st, st[i].key = k PROVE i \in S \cup U
      BY <1>1, <1>2, <3>1
    <3>2. ASSUME NEW i \in S PROVE i \in DOMAIN st /\ st[i].key = k
      BY <1>1, <3>2
    <3>3. ASSUME NEW i \in U PROVE i \in DOMAIN st /\ st[i].key = k
      BY <1>1, <3>3
    <3> HIDE DEF S, U
    <3> QED BY <3>1, <3>2, <3>3
  <2> HIDE DEF S, U, T
  <2>7. Cardinality(S \cup U) = Cardinality(S) + Cardinality(U)
    <3>1. Cardinality(S \cup U) = Cardinality(S) + Cardinality(U) - Cardinality(S \cap U)
      BY <2>1, <2>4, FS_Union
    <3>2. Cardinality(S) \in Nat /\ Cardinality(U) \in Nat /\ Cardinality(S \cap U) = 0
      BY <2>1, <2>4, <2>5, FS_CardinalityType, FS_EmptySet
    <3> QED BY <3>1, <3>2
  <2> QED BY <2>4, <2>6, <2>7 DEF CountIn, S, T
<1> QED BY <1>5, <1>6, <1>7 DEF st

LEMMA OneEntry ==
  ASSUME NEW e \in Entry
  PROVE  /\ <<e>> \in Seq(Entry) /\ Len(<<e>>) = 1 /\ KeysOf(<<e>>) = {e.key}
         /\ \A k : /\ CountIn(<<e>>, k) = IF e.key = k THEN 1 ELSE 0
                   /\ Copies(<<e>>, k) = IF e.key = k THEN {e.val} ELSE {}
<1>1. DOMAIN <<e>> = {1} /\ <<e>>[1] = e
  OBVIOUS
<1>2. KeysOf(<<e>>) = {e.key}
  BY <1>1 DEF KeysOf
<1>3. ASSUME NEW k PROVE Copies(<<e>>, k) = IF e.key = k THEN {e.val} ELSE {}
  BY <1>1 DEF Copies
<1>4. ASSUME NEW k PROVE CountIn(<<e>>, k) = IF e.key = k THEN 1 ELSE 0
  <2>1. {i \in DOMAIN <<e>> : <<e>>[i].key = k} = IF e.key = k THEN {1} ELSE {}
    BY <1>1
  <2> QED BY <2>1, FS_Singleton, FS_EmptySet DEF CountIn
<1> QED BY <1>2, <1>3, <1>4

LEMMA OneMore ==
  ASSUME NEW s \in Seq(Entry), NEW e \in Entry
  PROVE  /\ Append(s, e) = s \o <<e>>
         /\ Append(s, e) \in Seq(Entry) /\ Len(Append(s, e)) = Len(s) + 1
         /\ KeysOf(Append(s, e)) = KeysOf(s) \cup {e.key}
         /\ \A k : /\ CountIn(Append(s, e), k) = CountIn(s, k) + (IF e.key = k THEN 1 ELSE 0)
                   /\ Copies(Append(s, e), k) =
                        Copies(s, k) \cup (IF e.key = k THEN {e.val} ELSE {})
<1>1. Append(s, e) = s \o <<e>>
  BY AppendIsConcat
<1>2. Append(s, e) \in Seq(Entry) /\ Len(Append(s, e)) = Len(s) + 1
  BY AppendProperties
<1>3. <<e>> \in Seq(Entry)
  OBVIOUS
<1>4. /\ KeysOf(s \o <<e>>) = KeysOf(s) \cup KeysOf(<<e>>)
      /\ \A k : /\ CountIn(s \o <<e>>, k) = CountIn(s, k) + CountIn(<<e>>, k)
                /\ Copies(s \o <<e>>, k) = Copies(s, k) \cup Copies(<<e>>, k)
  BY <1>3, BothParts
<1>5. /\ KeysOf(<<e>>) = {e.key}
      /\ \A k : /\ CountIn(<<e>>, k) = IF e.key = k THEN 1 ELSE 0
                /\ Copies(<<e>>, k) = IF e.key = k THEN {e.val} ELSE {}
  BY OneEntry
<1>6. ASSUME NEW k
      PROVE  /\ CountIn(Append(s, e), k) = CountIn(s, k) + (IF e.key = k THEN 1 ELSE 0)
             /\ Copies(Append(s, e), k) = Copies(s, k) \cup (IF e.key = k THEN {e.val} ELSE {})
  BY <1>1, <1>4, <1>5
<1> QED BY <1>1, <1>2, <1>4, <1>5, <1>6

LEMMA NoEntries ==
  /\ <<>> \in Seq(Entry) /\ Len(<<>>) = 0 /\ KeysOf(<<>>) = {} /\ Sorted(<<>>)
  /\ \A k : CountIn(<<>>, k) = 0 /\ Copies(<<>>, k) = {}
<1>1. DOMAIN <<>> = {} /\ <<>> \in Seq(Entry) /\ Len(<<>>) = 0
  OBVIOUS
<1> QED BY <1>1, FS_EmptySet DEF KeysOf, Sorted, CountIn, Copies

LEMMA HasEntries ==
  ASSUME NEW s \in Seq(Entry)
  PROVE  s = <<>> <=> KeysOf(s) = {}
<1>1. s # <<>> => 1 \in DOMAIN s
  OBVIOUS
<1>2. s # <<>> => s[1].key \in KeysOf(s)
  BY <1>1 DEF KeysOf
<1> QED BY <1>2, NoEntries

(* std::sort and std::unique: each key once, in order, with a value it had. *)
LEMMA DeduplicatedFacts ==
  ASSUME NEW s \in Seq(Entry), NEW d \in Deduplicated(s)
  PROVE  /\ Sorted(d) /\ KeysOf(d) = KeysOf(s)
         /\ \A k : Copies(d, k) \subseteq Copies(s, k)
<1> DEFINE K == KeysOf(s)
           n == Cardinality(K)
           B == [k \in K |-> {j \in K : j < k}]
           keys == KeysInOrder(s)
           both == KeysWith(s, Inserted) \cap KeysWith(s, Built)
           Valued(new) == [i \in DOMAIN keys |-> E(keys[i], IF keys[i] \in new THEN Inserted ELSE Built)]
<1>1. IsFiniteSet(K) /\ K \subseteq Nat /\ K \subseteq Keys /\ n \in Nat
  BY KeysOfFacts, FS_CardinalityType
<1>2. Ranked(keys, B, K)
  <2>1. B \in [K -> SUBSET K] /\ \A k \in K : B[k] = {j \in K : j < k}
    OBVIOUS
  <2> HIDE DEF B, K
  <2>2. Linear(B, K)
    <3>1. \A k, j \in K : k \in Nat /\ (j \in B[k] <=> j < k)
      BY <1>1, <2>1
    <3>2. \A x \in K : x \notin B[x]
      BY <3>1
    <3>3. \A x, y \in K : x # y => x \in B[y] \/ y \in B[x]
      BY <3>1
    <3>4. ASSUME NEW x \in K, NEW y \in K, x \in B[y], NEW z \in B[x] PROVE z \in B[y]
      BY <2>1, <3>1, <3>4
    <3> QED BY <2>1, <3>2, <3>3, <3>4 DEF Linear
  <2>3. ASSUME NEW p \in 1..n PROVE keys[p] \in K /\ Cardinality(B[keys[p]]) = p - 1
    <3>1. \E k \in K : Cardinality({j \in K : j < k}) = p - 1
      <4>1. PICK k \in K : Cardinality(B[k]) = p - 1
        BY <1>1, <2>2, RankExists
      <4> QED BY <2>1, <4>1
    <3>2. keys[p] \in K /\ Cardinality({j \in K : j < keys[p]}) = p - 1
      BY <3>1 DEF KeysInOrder, K
    <3> HIDE DEF keys
    <3> QED BY <2>1, <3>2
  <2>4. keys \in [1..n -> K]
    <3> DEFINE at(p) == CHOOSE k \in K : Cardinality({j \in K : j < k}) = p - 1
    <3>1. keys = [p \in 1..n |-> at(p)]
      BY DEF KeysInOrder, K
    <3>2. \A p \in 1..n : at(p) \in K
      BY <2>3, <3>1
    <3> HIDE DEF at, n, keys
    <3> QED BY <3>1, <3>2
  <2> HIDE DEF keys
  <2> QED BY <1>1, <2>2, <2>3, <2>4, Ranking
<1>3. PICK x \in SUBSET both :
        d = Valued((KeysWith(s, Inserted) \ both) \cup x)
  BY DEF Deduplicated
<1> DEFINE new == (KeysWith(s, Inserted) \ both) \cup x
<1>4. /\ keys \in [1..n -> K] /\ DOMAIN keys = 1..n
      /\ \A i, j \in 1..n : i < j => keys[i] < keys[j]
      /\ \A k \in K : \E i \in 1..n : keys[i] = k
  <2> HIDE DEF keys
  <2>1. keys \in [1..n -> K]
    BY <1>2 DEF Ranked
  <2>2. \A i, j \in 1..n : i < j => keys[i] \in B[keys[j]]
    BY <1>2 DEF Ranked
  <2>3. \A k \in K : \E i \in 1..n : keys[i] = k
    BY <1>2 DEF Ranked
  <2> HIDE DEF n, K
  <2> QED BY <2>1, <2>2, <2>3
<1>5. d = [i \in 1..n |-> E(keys[i], IF keys[i] \in new THEN Inserted ELSE Built)]
  BY <1>3, <1>4
<1>6. KeysWith(s, Inserted) \cup KeysWith(s, Built) = K
  <2>1. \A i \in DOMAIN s : s[i].val = Inserted \/ s[i].val = Built
    BY EntryType DEF Values
  <2> QED BY <2>1 DEF KeysOf, KeysWith
<1>7. \A k \in K : IF k \in new THEN k \in KeysWith(s, Inserted) ELSE k \in KeysWith(s, Built)
  <2>1. x \subseteq KeysWith(s, Inserted)
    BY <1>3
  <2>2. new \subseteq KeysWith(s, Inserted) /\ KeysWith(s, Inserted) \ both \subseteq new
    BY <2>1
  <2> HIDE DEF new
  <2> QED BY <1>6, <2>2
<1>8. \A v, k : k \in KeysWith(s, v) => v \in Copies(s, k)
  <2> TAKE v, k
  <2> HAVE k \in KeysWith(s, v)
  <2>1. PICK i \in DOMAIN s : s[i].val = v /\ s[i].key = k
    BY DEF KeysWith
  <2> QED BY <2>1 DEF Copies
<1> HIDE DEF keys, both, new, n, K
<1>9. \A i \in 1..n : /\ d[i].key = keys[i] /\ keys[i] \in K
                      /\ d[i].val \in Values /\ d[i].val \in Copies(s, keys[i])
  <2> TAKE i \in 1..n
  <2>1. keys[i] \in K
    BY <1>4
  <2>2. d[i] = E(keys[i], IF keys[i] \in new THEN Inserted ELSE Built)
    BY <1>5
  <2>3. d[i].key = keys[i] /\ d[i].val = IF keys[i] \in new THEN Inserted ELSE Built
    BY <2>2 DEF E
  <2> QED BY <1>7, <1>8, <2>1, <2>3 DEF Values
<1>10. d \in Seq(Entry) /\ DOMAIN d = 1..n
  <2>1. \A i \in 1..n : d[i] \in Entry
    <3> TAKE i \in 1..n
    <3>1. d[i] = E(keys[i], d[i].val)
      <4>1. d[i] = E(keys[i], IF keys[i] \in new THEN Inserted ELSE Built)
        BY <1>5
      <4> QED BY <4>1 DEF E
    <3> QED BY <1>1, <1>9, <3>1 DEF E, Entry
  <2>2. DOMAIN d = 1..n /\ d = [i \in 1..n |-> d[i]]
    BY <1>5
  <2> QED BY <1>1, <2>1, <2>2
<1>11. KeysOf(d) = K
  <2>1. \A i \in DOMAIN d : d[i].key \in K
    BY <1>9, <1>10
  <2>2. \A k \in K : \E i \in DOMAIN d : d[i].key = k
    BY <1>4, <1>9, <1>10
  <2> QED BY <2>1, <2>2 DEF KeysOf
<1>12. ASSUME NEW k PROVE Copies(d, k) \subseteq Copies(s, k)
  <2>1. \A i \in DOMAIN d : d[i].key = k => d[i].val \in Copies(s, k)
    BY <1>9, <1>10
  <2> QED BY <2>1 DEF Copies
<1>13. ASSUME NEW i \in DOMAIN d, NEW j \in DOMAIN d, i <= j PROVE d[i].key <= d[j].key
  <2>1. i \in 1..n /\ j \in 1..n /\ d[i].key = keys[i] /\ d[j].key = keys[j]
    BY <1>9, <1>10
  <2>2. keys[i] \in Nat /\ keys[j] \in Nat
    BY <1>1, <1>9, <2>1
  <2>3. i = j \/ i < j
    BY <1>1, <1>13, <2>1
  <2> QED BY <1>4, <2>1, <2>2, <2>3
<1>14. Sorted(d)
  BY <1>10, <1>13 DEF Sorted
<1> QED BY <1>11, <1>12, <1>14 DEF K

-----------------------------------------------------------------------------
(* Places that come first in a sequence are counted by the last of them.   *)
LEMMA FirstPlaces ==
  ASSUME NEW n \in Nat, NEW D, D \subseteq 1..n, \A i, j \in 1..n : i <= j /\ j \in D => i \in D
  PROVE  Cardinality(D) \in 0..n /\ \A i \in 1..n : i \in D <=> i <= Cardinality(D)
<1>1. CASE D = {}
  <2>1. Cardinality(D) = 0
    BY <1>1, FS_EmptySet
  <2> QED BY <1>1, <2>1
<1>2. CASE D # {}
  <2> DEFINE m == Max(D)
  <2>1. m \in D /\ \A i \in D : i <= m
    <3>1. 1 \in Int /\ n \in Int
      OBVIOUS
    <3> QED BY ONLY <1>2, <3>1, D \subseteq 1..n, MaxOfInterval
  <2> HIDE DEF m
  <2>2. m \in 1..n
    BY <2>1
  <2>3. D = 1..m
    <3>1. \A i \in D : i \in 1..m
      BY <2>1, <2>2
    <3>2. \A i \in 1..m : i \in 1..n /\ i <= m
      BY <2>2
    <3>3. \A i \in 1..m : i \in D
      BY <2>1, <2>2, <3>2
    <3> QED BY <3>1, <3>3
  <2>4. Cardinality(1..m) = m
    BY <2>2, FS_Interval
  <2> QED BY <2>2, <2>3, <2>4
<1> QED BY <1>1, <1>2

(* std::lower_bound and std::upper_bound of sorted entries.                *)
LEMMA LowerBoundExact ==
  ASSUME NEW s, Sorted(s), NEW k \in Int
  PROVE  /\ LowerBoundOf(s, k) \in 0..Len(s)
         /\ \A i \in DOMAIN s : s[i].key < k <=> i <= LowerBoundOf(s, k)
<1> DEFINE D == {i \in DOMAIN s : s[i].key < k}
<1>1. s \in Seq(Entry) /\ DOMAIN s = 1..Len(s) /\ Len(s) \in Nat
  BY DEF Sorted
<1>2. \A i \in DOMAIN s : s[i].key \in Nat
  BY <1>1, EntryType
<1>3. \A i, j \in DOMAIN s : i <= j => s[i].key <= s[j].key
  BY DEF Sorted
<1>4. \A i, j \in DOMAIN s : i <= j /\ j \in D => i \in D
  BY <1>2, <1>3
<1>5. D \subseteq 1..Len(s) /\ \A i \in DOMAIN s : i \in D <=> s[i].key < k
  BY <1>1
<1> HIDE DEF D
<1>6. Cardinality(D) \in 0..Len(s) /\ \A i \in 1..Len(s) : i \in D <=> i <= Cardinality(D)
  BY <1>1, <1>4, <1>5, FirstPlaces
<1> QED BY <1>1, <1>5, <1>6 DEF LowerBoundOf, D

LEMMA UpperBoundPlaces ==
  ASSUME NEW s, Sorted(s), NEW k \in Int
  PROVE  LET m == Cardinality({i \in DOMAIN s : s[i].key <= k})
         IN m \in 0..Len(s) /\ \A i \in DOMAIN s : s[i].key <= k <=> i <= m
<1> DEFINE D == {i \in DOMAIN s : s[i].key <= k}
<1>1. s \in Seq(Entry) /\ DOMAIN s = 1..Len(s) /\ Len(s) \in Nat
  BY DEF Sorted
<1>2. \A i \in DOMAIN s : s[i].key \in Nat
  BY <1>1, EntryType
<1>3. \A i, j \in DOMAIN s : i <= j => s[i].key <= s[j].key
  BY DEF Sorted
<1>4. \A i, j \in DOMAIN s : i <= j /\ j \in D => i \in D
  BY <1>2, <1>3
<1>5. D \subseteq 1..Len(s) /\ \A i \in DOMAIN s : i \in D <=> s[i].key <= k
  BY <1>1
<1> HIDE DEF D
<1>6. Cardinality(D) \in 0..Len(s) /\ \A i \in 1..Len(s) : i \in D <=> i <= Cardinality(D)
  BY <1>1, <1>4, <1>5, FirstPlaces
<1> QED BY <1>1, <1>5, <1>6 DEF D

(* insert_sorted() adds the entry and keeps the order.                     *)
LEMMA InsertSortedFacts ==
  ASSUME NEW s, Sorted(s), NEW e \in Entry
  PROVE  /\ Sorted(InsertSorted(s, e)) /\ Len(InsertSorted(s, e)) = Len(s) + 1
         /\ KeysOf(InsertSorted(s, e)) = KeysOf(s) \cup {e.key}
         /\ \A k : Copies(InsertSorted(s, e), k) =
                     Copies(s, k) \cup (IF e.key = k THEN {e.val} ELSE {})
<1> DEFINE n == Len(s)
           m == Cardinality({i \in DOMAIN s : s[i].key <= e.key})
           a == SubSeq(s, 1, m)
           b == SubSeq(s, m + 1, n)
           t == InsertSorted(s, e)
<1>1. s \in Seq(Entry) /\ DOMAIN s = 1..n /\ n \in Nat /\ e.key \in Nat
  <2>1. s \in Seq(Entry)
    BY DEF Sorted
  <2>2. e.key \in Nat
    BY KeysAssumption DEF Entry
  <2> QED BY <2>1, <2>2
<1>2. m \in 0..n /\ \A i \in DOMAIN s : s[i].key <= e.key <=> i <= m
  <2>1. e.key \in Int
    BY <1>1
  <2> QED BY ONLY <2>1, Sorted(s), UpperBoundPlaces
<1>3. t = a \o <<e>> \o b
  <2>1. (m + 1) - 1 = m
    BY <1>2
  <2>2. t = InsertAt(s, m + 1, e)
    BY DEF InsertSorted
  <2> HIDE DEF m, t
  <2>3. InsertAt(s, m + 1, e) = SubSeq(s, 1, (m + 1) - 1) \o <<e>> \o SubSeq(s, m + 1, n)
    BY DEF InsertAt
  <2> QED BY <2>1, <2>2, <2>3
<1> HIDE DEF t, m
<1>4. a \in Seq(Entry) /\ b \in Seq(Entry) /\ s = a \o b
  <2>1. \A i \in 1..m : s[i] \in Entry
    BY <1>1, <1>2
  <2>2. \A i \in m+1..n : s[i] \in Entry
    BY <1>1, <1>2
  <2>3. a \in Seq(Entry) /\ b \in Seq(Entry)
    BY <1>1, <1>2, <2>1, <2>2, SubSeqProperties
  <2>4. SubSeq(s, 1, m) \o SubSeq(s, m + 1, n) = SubSeq(s, 1, n)
    <3>1. 1 \in 1..Len(s)+1 /\ m \in 1-1..Len(s) /\ n \in m..Len(s)
      BY <1>1, <1>2
    <3> HIDE DEF n
    <3> QED BY <1>1, <3>1, ConcatAdjacentSubSeq
  <2>5. SubSeq(s, 1, n) = s
    BY <1>1, SubSeqFull
  <2> QED BY <2>3, <2>4, <2>5
<1>5. Len(a) = m /\ Len(b) = n - m
  <2>1. \A i \in 1..m : s[i] \in Entry
    BY <1>1, <1>2
  <2>2. \A i \in m+1..n : s[i] \in Entry
    BY <1>1, <1>2
  <2>3. Len(a) = IF 1 <= m THEN m - 1 + 1 ELSE 0
    BY <1>2, <2>1, SubSeqProperties
  <2>4. Len(b) = IF m + 1 <= n THEN n - (m + 1) + 1 ELSE 0
    BY <1>1, <1>2, <2>2, SubSeqProperties
  <2> HIDE DEF a, b, n
  <2> QED BY <1>1, <1>2, <2>3, <2>4
<1> HIDE DEF a, b
<1>6. /\ <<e>> \in Seq(Entry) /\ a \o <<e>> \in Seq(Entry) /\ Len(<<e>>) = 1
      /\ Len(a \o <<e>>) = m + 1
  BY <1>4, <1>5, OneEntry, Concatenated
<1>7. t \in Seq(Entry) /\ Len(t) = n + 1
  BY <1>1, <1>2, <1>3, <1>4, <1>5, <1>6, Concatenated
<1>8. KeysOf(t) = KeysOf(s) \cup {e.key}
  <2>1. KeysOf(t) = KeysOf(a \o <<e>>) \cup KeysOf(b)
    BY <1>3, <1>4, <1>6, BothParts
  <2>2. KeysOf(a \o <<e>>) = KeysOf(a) \cup {e.key}
    <3>1. KeysOf(a \o <<e>>) = KeysOf(a) \cup KeysOf(<<e>>)
      BY <1>4, <1>6, BothParts
    <3> QED BY <3>1, OneEntry
  <2>3. KeysOf(s) = KeysOf(a) \cup KeysOf(b)
    BY <1>4, BothParts
  <2> QED BY <2>1, <2>2, <2>3
<1>9. ASSUME NEW k PROVE Copies(t, k) = Copies(s, k) \cup (IF e.key = k THEN {e.val} ELSE {})
  <2>1. \A x : Copies(t, x) = Copies(a \o <<e>>, x) \cup Copies(b, x)
    <3> DEFINE u == a \o <<e>>
    <3>1. u \in Seq(Entry) /\ b \in Seq(Entry) /\ t = u \o b
      BY <1>3, <1>4, <1>6
    <3> HIDE DEF u
    <3>2. \A x : Copies(u \o b, x) = Copies(u, x) \cup Copies(b, x)
      BY <3>1, BothParts
    <3> QED BY <3>1, <3>2 DEF u
  <2>2. \A x : Copies(a \o <<e>>, x) = Copies(a, x) \cup Copies(<<e>>, x)
    <3> DEFINE w == <<e>>
    <3>1. w \in Seq(Entry) /\ a \in Seq(Entry)
      BY <1>4, <1>6
    <3> HIDE DEF w
    <3>2. \A x : Copies(a \o w, x) = Copies(a, x) \cup Copies(w, x)
      BY ONLY <3>1, BothParts
    <3> QED BY <3>2 DEF w
  <2>3. \A x : Copies(s, x) = Copies(a, x) \cup Copies(b, x)
    BY <1>4, BothParts
  <2>4. \A x : Copies(<<e>>, x) = IF e.key = x THEN {e.val} ELSE {}
    BY OneEntry
  <2> QED BY <2>1, <2>2, <2>3, <2>4
<1>10. \A i \in DOMAIN t : \/ i \in 1..m /\ t[i] = s[i]
                           \/ i = m + 1 /\ t[i] = e
                           \/ i \in m+2..n+1 /\ i - 1 \in m+1..n /\ t[i] = s[i - 1]
  <2>1. /\ \A i \in 1..m + 1 : t[i] = (a \o <<e>>)[i]
        /\ \A i \in DOMAIN b : t[(m + 1) + i] = b[i]
    <3>1. DOMAIN (a \o <<e>>) = 1..m + 1
      BY <1>6
    <3> QED BY <1>3, <1>4, <1>6, <3>1, Concatenated
  <2>2. (\A i \in 1..m : (a \o <<e>>)[i] = a[i]) /\ (a \o <<e>>)[m + 1] = e
    <3>1. DOMAIN a = 1..m /\ DOMAIN <<e>> = {1} /\ <<e>>[1] = e
      BY <1>4, <1>5
    <3>2. /\ \A i \in DOMAIN a : (a \o <<e>>)[i] = a[i]
          /\ \A i \in DOMAIN <<e>> : (a \o <<e>>)[Len(a) + i] = <<e>>[i]
      BY <1>4, <1>6, Concatenated
    <3> QED BY <1>5, <3>1, <3>2
  <2>3. (\A i \in 1..m : s[i] = a[i]) /\ \A i \in 1..n - m : s[m + i] = b[i]
    <3>1. DOMAIN a = 1..m /\ DOMAIN b = 1..n - m
      BY <1>4, <1>5
    <3>2. /\ \A i \in DOMAIN a : (a \o b)[i] = a[i]
          /\ \A i \in DOMAIN b : (a \o b)[Len(a) + i] = b[i]
      BY <1>4, Concatenated
    <3> QED BY <1>4, <1>5, <3>1, <3>2
  <2>4. DOMAIN b = 1..n - m /\ DOMAIN t = 1..n + 1
    BY <1>4, <1>5, <1>7
  <2> TAKE i \in DOMAIN t
  <2>5. CASE i \in 1..m
    <3>1. i \in 1..m + 1
      BY <1>2, <2>5
    <3> QED BY <2>1, <2>2, <2>3, <2>5, <3>1
  <2>6. CASE i = m + 1
    <3>1. m + 1 \in 1..m + 1
      BY <1>2
    <3> QED BY <2>1, <2>2, <2>6, <3>1
  <2>7. CASE i \in m+2..n+1
    <3>1. m \in Int /\ n \in Int
      BY <1>1, <1>2
    <3>2. /\ i - (m + 1) \in 1..n - m /\ (m + 1) + (i - (m + 1)) = i
          /\ m + (i - (m + 1)) = i - 1 /\ i - 1 \in m+1..n
      BY ONLY <2>7, <3>1
    <3> QED BY <2>1, <2>3, <2>4, <2>7, <3>2
  <2> QED BY <1>1, <1>2, <2>4, <2>5, <2>6, <2>7
<1>11. ASSUME NEW i \in DOMAIN t, NEW j \in DOMAIN t, i <= j PROVE t[i].key <= t[j].key
  <2>1. \A p, q \in DOMAIN s : p <= q => s[p].key <= s[q].key
    BY DEF Sorted
  <2>2. \A p \in DOMAIN s : s[p].key \in Nat
    BY <1>1, EntryType
  <2>3. \A p \in 1..m : p \in DOMAIN s /\ s[p].key <= e.key
    BY <1>1, <1>2
  <2>4. \A p \in m+1..n : p \in DOMAIN s /\ e.key <= s[p].key
    <3> TAKE p \in m+1..n
    <3>1. p \in DOMAIN s /\ ~ (p <= m)
      BY <1>1, <1>2
    <3>2. ~ (s[p].key <= e.key)
      BY <1>2, <3>1
    <3> QED BY <1>1, <2>2, <3>1, <3>2
  <2>5. \/ i \in 1..m /\ t[i] = s[i]
        \/ i = m + 1 /\ t[i] = e
        \/ i \in m+2..n+1 /\ i - 1 \in m+1..n /\ t[i] = s[i - 1]
    BY <1>10
  <2>6. \/ j \in 1..m /\ t[j] = s[j]
        \/ j = m + 1 /\ t[j] = e
        \/ j \in m+2..n+1 /\ j - 1 \in m+1..n /\ t[j] = s[j - 1]
    BY <1>10
  <2>7. m \in Nat /\ n \in Nat /\ e.key \in Nat
    BY <1>1, <1>2
  <2>8. CASE i \in 1..m /\ t[i] = s[i]
    <3>1. CASE j \in 1..m /\ t[j] = s[j]
      BY <1>11, <2>1, <2>3, <2>8, <3>1
    <3>2. CASE j = m + 1 /\ t[j] = e
      BY <2>3, <2>8, <3>2
    <3>3. CASE j - 1 \in m+1..n /\ t[j] = s[j - 1]
      <4>1. s[i].key <= e.key /\ e.key <= s[j - 1].key /\ s[i].key \in Nat /\ s[j-1].key \in Nat
        BY <2>2, <2>3, <2>4, <2>8, <3>3
      <4> QED BY <2>7, <2>8, <3>3, <4>1
    <3> QED BY <2>6, <3>1, <3>2, <3>3
  <2>9. CASE i = m + 1 /\ t[i] = e
    <3>1. CASE j = m + 1 /\ t[j] = e
      BY <2>7, <2>9, <3>1
    <3>2. CASE j - 1 \in m+1..n /\ t[j] = s[j - 1]
      BY <2>4, <2>9, <3>2
    <3>3. ~ (j \in 1..m)
      BY <1>11, <2>7, <2>9
    <3> QED BY <2>6, <3>1, <3>2, <3>3
  <2>10. CASE i \in m+2..n+1 /\ i - 1 \in m+1..n /\ t[i] = s[i - 1]
    <3>1. j \in m+2..n+1 /\ j - 1 \in m+1..n /\ t[j] = s[j - 1] /\ i - 1 <= j - 1
      BY <1>11, <2>6, <2>7, <2>10
    <3>2. i - 1 \in DOMAIN s /\ j - 1 \in DOMAIN s
      BY <2>4, <2>10, <3>1
    <3> QED BY <2>1, <2>10, <3>1, <3>2
  <2> QED BY <2>5, <2>8, <2>9, <2>10
<1>12. Sorted(t)
  BY <1>7, <1>11 DEF Sorted
<1> QED BY <1>7, <1>8, <1>9, <1>12 DEF t, n

-----------------------------------------------------------------------------
(* Runs() cuts 1..n into c pieces that lie end to end.                     *)
Pieces(r, c, n, size) ==
  /\ c \in 0..n /\ r = [j \in 1..c |-> r[j]]
  /\ \A j \in 1..c : /\ r[j][1] \in 1..n /\ r[j][2] \in r[j][1]..n
                     /\ r[j][2] - r[j][1] < size
  /\ \A j \in 2..c : r[j][1] = r[j - 1][2] + 1
  /\ n >= 1 => c >= 1 /\ r[1][1] = 1 /\ r[c][2] = n
  /\ c <= 1 => n <= size
  /\ n <= size => c <= 1
  /\ n >= 2 /\ size >= 2 => c < n

LEMMA RunsArePieces ==
  ASSUME NEW n \in Nat, NEW size \in Nat \ {0}
  PROVE  Pieces(Runs(n, size), (n + size - 1) \div size, n, size)
<1> DEFINE c == (n + size - 1) \div size
           r == Runs(n, size)
<1>1. c \in Int /\ c * size <= n + size - 1 /\ n + size - 1 < (c + 1) * size
  BY Division
<1> HIDE DEF c
<1>2. /\ c * size \in Int /\ (c + 1) * size = c * size + size
      /\ (c - 1) * size = c * size - size
  BY <1>1
<1>4. n <= c * size /\ (c - 1) * size <= n - 1
  BY <1>1, <1>2
<1>5. c >= 0
  <2>1. 0 * size < (c + 1) * size
    BY <1>1, <1>2
  <2>2. 0 < c + 1
    BY <1>1, <2>1, Multiply
  <2> QED BY <1>1, <2>2
<1>6. n = 0 => c = 0
  <2>1. ASSUME n = 0 PROVE c * size < 1 * size
    BY <1>1, <1>2, <2>1
  <2>2. ASSUME n = 0 PROVE c < 1
    BY <1>1, <2>1, <2>2, Multiply
  <2> QED BY <1>1, <1>5, <2>2
<1>7. n >= 1 => c >= 1
  <2>1. ASSUME n >= 1 PROVE 0 * size < c * size
    BY <1>1, <1>2, <2>1
  <2> QED BY <1>1, <2>1, Multiply
<1>8. c <= n
  <2>1. CASE c = 0
    BY <2>1
  <2>2. CASE c >= 1
    <3>1. (c - 1) * 1 <= (c - 1) * size
      <4>1. c - 1 \in Nat /\ 1 <= size
        BY <1>1, <2>2
      <4>2. 1 * (c - 1) <= size * (c - 1)
        BY <4>1, Multiply
      <4> QED BY <4>1, <4>2
    <3> QED BY <1>1, <1>2, <1>4, <2>2, <3>1
  <2> QED BY <1>1, <1>5, <2>1, <2>2
<1>9. r = [j \in 1..c |-> <<(j - 1) * size + 1, Min({j * size, n})>>]
  BY DEF Runs, c
<1> HIDE DEF r
<1>10. ASSUME NEW j \in 1..c
       PROVE  /\ r[j][1] = (j - 1) * size + 1 /\ r[j][1] \in 1..n
              /\ r[j][2] = IF j = c THEN n ELSE j * size
              /\ r[j][2] \in r[j][1]..n /\ r[j][2] - r[j][1] < size
  <2>1. /\ j * size \in Int /\ (j - 1) * size = j * size - size
        /\ (j - 1) * size \in Nat
    <3>1. j - 1 \in Nat /\ j \in Int
      BY <1>1
    <3> QED BY <3>1
  <2>2. (j - 1) * size <= (c - 1) * size
    <3>1. j - 1 \in Int /\ c - 1 \in Int /\ j - 1 <= c - 1
      BY <1>1
    <3> QED BY <3>1, Multiply
  <2>3. j < c => j * size <= (c - 1) * size
    <3>1. j \in Int /\ c - 1 \in Int /\ (j < c => j <= c - 1)
      BY <1>1
    <3> QED BY <3>1, Multiply
  <2>4. r[j] = <<(j - 1) * size + 1, Min({j * size, n})>>
    BY <1>9
  <2>5. Min({j * size, n}) = IF j * size <= n THEN j * size ELSE n
    BY <2>1, MinOfTwo
  <2>6. r[j][1] = (j - 1) * size + 1 /\ r[j][2] = IF j * size <= n THEN j * size ELSE n
    BY <2>4, <2>5
  <2>7. r[j][2] = IF j = c THEN n ELSE j * size
    <3>1. CASE j = c
      BY <1>2, <1>4, <2>1, <2>6, <3>1
    <3>2. CASE j # c
      <4>1. j * size <= n
        BY <1>1, <1>2, <1>4, <2>1, <2>3, <3>2
      <4> QED BY <2>6, <3>2, <4>1
    <3> QED BY <3>1, <3>2
  <2>8. r[j][1] \in 1..n
    BY <1>2, <1>4, <2>1, <2>2, <2>6
  <2>9. r[j][2] - r[j][1] < size
    BY <2>1, <2>6
  <2>10. r[j][2] \in r[j][1]..n
    BY <2>1, <2>6, <2>8
  <2> QED BY <2>6, <2>7, <2>8, <2>9, <2>10
<1>11. ASSUME NEW j \in 2..c PROVE r[j][1] = r[j - 1][2] + 1
  <2>1. j \in 1..c /\ j - 1 \in 1..c /\ j - 1 # c
    BY <1>1
  <2> QED BY <1>10, <2>1
<1>12. n >= 1 => c >= 1 /\ r[1][1] = 1 /\ r[c][2] = n
  <2> HAVE n >= 1
  <2>1. 1 \in 1..c /\ c \in 1..c /\ (1 - 1) * size = 0
    BY <1>1, <1>7
  <2> QED BY <1>10, <2>1
<1>13. c <= 1 => n <= size
  <2>1. c <= 1 => c * size <= 1 * size
    BY <1>1, Multiply
  <2> QED BY <1>2, <1>4, <2>1
<1>14. n <= size => c <= 1
  <2>1. ASSUME n <= size, c >= 2 PROVE FALSE
    <3>1. 1 * size <= (c - 1) * size
      <4>1. c - 1 \in Int /\ 1 <= c - 1
        BY <1>1, <2>1
      <4> QED BY <4>1, Multiply
    <3> QED BY <1>1, <1>2, <1>4, <2>1, <3>1
  <2> QED BY <1>1, <2>1
<1>15. n >= 2 /\ size >= 2 => c < n
  <2> HAVE n >= 2 /\ size >= 2
  <2>1. CASE c = 0
    BY <2>1
  <2>2. CASE c >= 1
    <3>1. 2 * (c - 1) <= size * (c - 1)
      <4>1. c - 1 \in Nat /\ 2 <= size
        BY <1>1, <2>2
      <4> QED BY <4>1, Multiply
    <3>2. size * (c - 1) = (c - 1) * size
      BY <1>1, Products
    <3> QED BY <1>1, <1>2, <1>4, <2>2, <3>1, <3>2
  <2> QED BY <1>1, <1>5, <2>1, <2>2
<1>16. r = [j \in 1..c |-> r[j]]
  BY <1>9
<1>17. c \in 0..n /\ \A j \in 1..c : /\ r[j][1] \in 1..n /\ r[j][2] \in r[j][1]..n
                                    /\ r[j][2] - r[j][1] < size
  BY <1>1, <1>5, <1>8, <1>10
<1>18. Pieces(r, c, n, size)
  BY <1>11, <1>12, <1>13, <1>14, <1>15, <1>16, <1>17 DEF Pieces
<1> QED BY <1>18 DEF c, r

(* Pieces further on start further on, and every place is in a piece.      *)
LEMMA PiecesAscend ==
  ASSUME NEW n \in Nat, NEW size \in Nat, NEW r, NEW c, Pieces(r, c, n, size),
         NEW i \in 1..c, NEW j \in i..c
  PROVE  r[i][1] <= r[j][1]
<1>1. c \in Nat /\ i \in Int
  BY DEF Pieces
<1>2. \A x \in 1..c : r[x][1] \in Int /\ r[x][2] \in Int /\ r[x][1] <= r[x][2]
  BY DEF Pieces
<1> DEFINE T == {x \in i..c : r[i][1] <= r[x][1]}
<1>3. i \in T
  BY <1>1, <1>2
<1>4. ASSUME NEW x \in i+1..c, x - 1 \in T PROVE x \in T
  <2>1. x \in 1..c /\ x - 1 \in 1..c /\ x \in 2..c /\ x \in i..c
    BY <1>1, <1>4
  <2>2. r[x][1] = r[x - 1][2] + 1
    BY <2>1 DEF Pieces
  <2>3. /\ r[i][1] \in Int /\ r[x - 1][1] \in Int /\ r[x - 1][2] \in Int
        /\ r[x - 1][1] <= r[x - 1][2] /\ r[i][1] <= r[x - 1][1]
    BY <1>2, <1>4, <2>1
  <2> QED BY <2>1, <2>2, <2>3
<1>5. i..c \subseteq T
  <2> HIDE DEF T
  <2> QED BY ONLY <1>1, <1>3, <1>4, IntervalInduction
<1> QED BY <1>5

LEMMA PieceOf ==
  ASSUME NEW n \in Nat, NEW size \in Nat, NEW r, NEW c, Pieces(r, c, n, size), NEW i \in 1..n
  PROVE  \E j \in 1..c : i \in r[j][1]..r[j][2]
<1>1. c \in Nat /\ c >= 1 /\ r[1][1] = 1 /\ r[c][2] = n
  BY DEF Pieces
<1>2. \A x \in 1..c : r[x][1] \in Int /\ r[x][2] \in Int
  BY DEF Pieces
<1> DEFINE S == {x \in 1..c : r[x][1] <= i}
<1>3. S \subseteq 1..c /\ S # {} /\ 1 \in Int /\ c \in Int
  BY <1>1
<1> DEFINE j == Max(S)
<1>4. j \in S /\ \A x \in S : x <= j
  <2> HIDE DEF S
  <2> QED BY ONLY <1>3, MaxOfInterval
<1> HIDE DEF j
<1>5. CASE j = c
  BY <1>1, <1>4, <1>5
<1>6. CASE j < c
  <2>1. j + 1 \in 2..c /\ j + 1 \in 1..c /\ (j + 1) - 1 = j /\ ~ (j + 1 <= j)
    BY <1>1, <1>4, <1>6
  <2>2. j + 1 \notin S
    BY <1>4, <2>1
  <2>3. ~ (r[j + 1][1] <= i)
    BY <2>1, <2>2
  <2>4. r[j + 1][1] = r[(j + 1) - 1][2] + 1
    BY <2>1 DEF Pieces
  <2>5. r[j + 1][1] = r[j][2] + 1 /\ r[j][2] \in Int /\ r[j][1] \in Int /\ r[j][1] <= i
    BY <1>2, <1>4, <2>1, <2>4
  <2> QED BY <1>4, <2>3, <2>5
<1> QED BY <1>1, <1>4, <1>5, <1>6

(* BTREE_ORDER * 3 / 4 keys go into a leaf.                                *)
LeafSize == (Order * 3) \div 4

LEMMA LeafSizeFits ==
  /\ LeafSize \in Nat \ {0} /\ LeafSize <= Order
  /\ Order \in Nat /\ Order >= 2 /\ Order + 1 \in Nat \ {0}
<1>1. Order \in Nat /\ Order >= 2
  BY OrderAssumption
<1> QED BY <1>1 DEF LeafSize

(* The leaves of a bulk load hold its data, piece by piece.                *)
Chunked(data, leaves) ==
  \E r :
    /\ Pieces(r, Len(leaves), Len(data), LeafSize)
    /\ \A j \in 1..Len(leaves) : leaves[j] = SubSeq(data, r[j][1], r[j][2])

LEMMA LeavesAreChunks ==
  ASSUME NEW data \in Seq(Entry)
  PROVE  LeavesFor(data) \in Seq(Seq(Entry)) /\ Chunked(data, LeavesFor(data))
<1> DEFINE n == Len(data)
           size == LeafSize
           c == (n + size - 1) \div size
           r == Runs(n, size)
           leaves == LeavesFor(data)
<1>1. n \in Nat /\ size \in Nat \ {0} /\ size <= Order /\ DOMAIN data = 1..n
  BY LeafSizeFits
<1>2. leaves = [j \in DOMAIN r |-> SubSeq(data, r[j][1], r[j][2])]
  BY DEF LeavesFor, LeafSize
<1> HIDE DEF size
<1>3. Pieces(r, c, n, size)
  BY <1>1, RunsArePieces
<1> HIDE DEF r, c, leaves
<1>4. c \in Nat /\ DOMAIN r = 1..c
  BY <1>1, <1>3 DEF Pieces
<1>5. \A j \in 1..c : r[j][1] \in 1..n /\ r[j][2] \in r[j][1]..n /\ r[j][2] - r[j][1] < size
  BY <1>3 DEF Pieces
<1>6. ASSUME NEW j \in 1..c PROVE SubSeq(data, r[j][1], r[j][2]) \in Seq(Entry)
  <2>1. r[j][1] \in 1..n /\ r[j][2] \in r[j][1]..n
    BY <1>5
  <2>2. \A i \in r[j][1]..r[j][2] : data[i] \in Entry
    BY <1>1, <2>1
  <2> QED BY <2>1, <2>2, SubSeqProperties
<1>7. leaves \in Seq(Seq(Entry)) /\ Len(leaves) = c
  BY <1>2, <1>4, <1>6
<1>8. \A j \in 1..Len(leaves) : leaves[j] = SubSeq(data, r[j][1], r[j][2])
  BY <1>2, <1>4, <1>7
<1>9. Pieces(r, Len(leaves), n, size)
  BY <1>3, <1>7
<1> QED BY <1>7, <1>8, <1>9 DEF Chunked, leaves, n, size

LEMMA FlattenNone == FlattenSeq(<<>>) = <<>>
<1>1. Len(<<>>) = 0
  OBVIOUS
<1> QED BY <1>1 DEF FlattenSeq

LEMMA FlattenOne ==
  ASSUME NEW leaf \in Seq(Entry)
  PROVE  FlattenSeq(<<leaf>>) = leaf
<1> DEFINE p == <<leaf>>
<1>1. p \in Seq(Seq(Entry)) /\ Len(p) = 1 /\ p[1] = leaf
  OBVIOUS
<1> HIDE DEF p
<1>2. PICK flat \in [1..Len(p) -> Seq(Entry)] :
        FlattenSeq(p) = flat[Len(p)] /\ flat[1] = p[1]
  <2>1. Len(p) >= 1
    BY <1>1
  <2> QED BY <1>1, <2>1, Flattening
<1> QED BY <1>1, <1>2 DEF p

LEMMA FlattenChunks ==
  ASSUME NEW data \in Seq(Entry), NEW leaves \in Seq(Seq(Entry)), Chunked(data, leaves)
  PROVE  FlattenSeq(leaves) = data
<1> DEFINE n == Len(data)
           c == Len(leaves)
<1>1. PICK r : Pieces(r, c, n, LeafSize) /\ \A j \in 1..c : leaves[j] = SubSeq(data, r[j][1], r[j][2])
  BY DEF Chunked
<1>2. c \in Nat /\ n \in Nat /\ DOMAIN data = 1..n
  OBVIOUS
<1>3. CASE n = 0
  <2>1. c = 0
    BY <1>1, <1>3 DEF Pieces
  <2>2. leaves = <<>> /\ data = <<>>
    BY <1>3, <2>1
  <2> QED BY <2>2, FlattenNone
<1>4. CASE n >= 1
  <2>1. c >= 1 /\ r[1][1] = 1 /\ r[c][2] = n
    BY <1>1, <1>4 DEF Pieces
  <2>2. PICK flat \in [1..c -> Seq(Entry)] :
          /\ FlattenSeq(leaves) = flat[c] /\ flat[1] = leaves[1]
          /\ \A i \in 2..c : flat[i] = flat[i-1] \o leaves[i]
    <3>1. Len(leaves) >= 1
      BY <2>1
    <3> HIDE DEF c
    <3>2. \E flat \in [1..Len(leaves) -> Seq(Entry)] :
            /\ FlattenSeq(leaves) = flat[Len(leaves)] /\ flat[1] = leaves[1]
            /\ \A i \in 2..Len(leaves) : flat[i] = flat[i-1] \o leaves[i]
      BY ONLY <3>1, leaves \in Seq(Seq(Entry)), Flattening
    <3> QED BY <3>2 DEF c
  <2> DEFINE T == {j \in 1..c : flat[j] = SubSeq(data, 1, r[j][2])}
  <2>3. 1 \in T
    <3>1. 1 \in 1..c
      BY <1>2, <2>1
    <3>2. flat[1] = SubSeq(data, r[1][1], r[1][2])
      BY <1>1, <2>2, <3>1
    <3> QED BY <2>1, <3>1, <3>2
  <2>4. ASSUME NEW j \in 1+1..c, j - 1 \in T PROVE j \in T
    <3>1. j \in 2..c /\ j \in 1..c /\ j - 1 \in 1..c
      BY <1>2
    <3>2. flat[j] = SubSeq(data, 1, r[j - 1][2]) \o SubSeq(data, r[j][1], r[j][2])
      BY <1>1, <2>2, <2>4, <3>1
    <3>3. r[j][1] = r[j - 1][2] + 1 /\ r[j - 1][2] \in 1..n /\ r[j][2] \in r[j][1]..n
      <4>1. r[j - 1][1] \in 1..n /\ r[j - 1][2] \in r[j - 1][1]..n /\ r[j][2] \in r[j][1]..n
        BY <1>1, <3>1 DEF Pieces
      <4>2. r[j][1] = r[j - 1][2] + 1
        BY <1>1, <3>1 DEF Pieces
      <4> HIDE DEF n
      <4> QED BY <1>2, <4>1, <4>2
    <3> DEFINE k == r[j - 1][2]
               m == r[j][2]
    <3>4. 1 \in 1..Len(data)+1 /\ k \in 1-1..Len(data) /\ m \in k..Len(data)
      <4>1. k \in 1..n /\ m \in k+1..n
        BY <3>3
      <4> HIDE DEF k, m
      <4> QED BY <1>2, <4>1
    <3> HIDE DEF k, m
    <3>5. SubSeq(data, 1, k) \o SubSeq(data, k+1, m) = SubSeq(data, 1, m)
      BY <3>4, ConcatAdjacentSubSeq
    <3>6. r[j][1] = k + 1 /\ r[j][2] = m /\ r[j - 1][2] = k
      BY <3>3 DEF k, m
    <3> QED BY <3>1, <3>2, <3>5, <3>6
  <2>5. 1..c \subseteq T
    <3>1. 1 \in Int /\ c \in Int
      BY <1>2
    <3> HIDE DEF T, c
    <3> QED BY ONLY <2>3, <2>4, <3>1, IntervalInduction
  <2>6. flat[c] = SubSeq(data, 1, n)
    <3>1. c \in T
      <4>1. c \in 1..c
        BY <1>2, <2>1
      <4> HIDE DEF T
      <4> QED BY <2>5, <4>1
    <3> QED BY <2>1, <3>1
  <2> QED BY <2>2, <2>6, SubSeqFull
<1> QED BY <1>2, <1>3, <1>4

LEMMA FlattenLeaves ==
  ASSUME NEW data \in Seq(Entry)
  PROVE  /\ LeavesFor(data) \in Seq(Seq(Entry)) /\ FlattenSeq(LeavesFor(data)) = data
         /\ LeavesFor(data) = <<>> <=> data = <<>>
<1>1. LeavesFor(data) \in Seq(Seq(Entry)) /\ Chunked(data, LeavesFor(data))
  BY LeavesAreChunks
<1>2. FlattenSeq(LeavesFor(data)) = data
  BY <1>1, FlattenChunks
<1>4. Len(LeavesFor(data)) = 0 <=> Len(data) = 0
  <2> DEFINE c == Len(LeavesFor(data))
  <2>1. c \in Nat /\ c \in 0..Len(data) /\ (Len(data) >= 1 => c >= 1) /\ Len(data) \in Nat
    BY <1>1 DEF Chunked, Pieces
  <2> HIDE DEF c
  <2>2. c = 0 <=> Len(data) = 0
    BY <2>1
  <2> QED BY <2>2 DEF c
<1> QED BY <1>1, <1>2, <1>4

-----------------------------------------------------------------------------
(* Least keys of the nodes of a level, and the node a search takes among   *)
(* them: the last whose least key is no greater, or the first.             *)
Ascending(m) == m \in Seq(Nat) /\ \A i, j \in DOMAIN m : i <= j => m[i] <= m[j]

Leads(m, j, k) ==
  j \in 1..Len(m) /\ (j = 1 \/ m[j] <= k) /\ \A i \in j+1..Len(m) : k < m[i]

(* The pieces a level is made of.                                          *)
LevelPieces(m, r, c) ==
  /\ Pieces(r, c, Len(m), Order + 1)
  /\ LevelOver(m).mins = [j \in 1..c |-> m[r[j][1]]]
  /\ LevelOver(m).nodes =
       [j \in 1..c |-> [keys |-> SubSeq(m, r[j][1] + 1, r[j][2]), first |-> r[j][1]]]

LEMMA LevelHasPieces ==
  ASSUME NEW m, Ascending(m)
  PROVE  \E r, c : LevelPieces(m, r, c)
<1> DEFINE r == Runs(Len(m), Order + 1)
           c == (Len(m) + (Order + 1) - 1) \div (Order + 1)
<1>1. Len(m) \in Nat
  BY DEF Ascending
<1>2. Pieces(r, c, Len(m), Order + 1)
  BY <1>1, LeafSizeFits, RunsArePieces
<1>3. LevelOver(m) =
        [nodes |-> [j \in DOMAIN r |->
                      [keys |-> SubSeq(m, r[j][1] + 1, r[j][2]), first |-> r[j][1]]],
         mins |-> [j \in DOMAIN r |-> m[r[j][1]]]]
  BY DEF LevelOver
<1> HIDE DEF r, c
<1>4. DOMAIN r = 1..c
  BY <1>2 DEF Pieces
<1>5. LevelPieces(m, r, c)
  BY <1>2, <1>3, <1>4 DEF LevelPieces
<1> QED BY <1>5

LEMMA PieceBounds ==
  ASSUME NEW m, Ascending(m), NEW r, NEW c, LevelPieces(m, r, c), NEW j \in 1..c
  PROVE  /\ c \in Nat /\ r[j][1] \in 1..Len(m) /\ r[j][2] \in r[j][1]..Len(m)
         /\ r[j][2] - r[j][1] <= Order /\ Len(m) \in Nat /\ DOMAIN m = 1..Len(m)
<1>1. Len(m) \in Nat /\ DOMAIN m = 1..Len(m)
  BY DEF Ascending
<1>2. /\ c \in 0..Len(m) /\ r[j][1] \in 1..Len(m) /\ r[j][2] \in r[j][1]..Len(m)
      /\ r[j][2] - r[j][1] < Order + 1
  BY DEF LevelPieces, Pieces
<1> QED BY <1>1, <1>2, LeafSizeFits

LEMMA NodesAscend ==
  ASSUME NEW m, Ascending(m), NEW r, NEW c, LevelPieces(m, r, c),
         NEW i \in 1..c, NEW j \in i..c
  PROVE  r[i][1] <= r[j][1]
<1>1. Len(m) \in Nat /\ Order + 1 \in Nat
  BY LeafSizeFits DEF Ascending
<1>2. Pieces(r, c, Len(m), Order + 1)
  BY DEF LevelPieces
<1> QED BY <1>1, <1>2, PiecesAscend

LEMMA LevelAscends ==
  ASSUME NEW m, Ascending(m), NEW r, NEW c, LevelPieces(m, r, c)
  PROVE  /\ Ascending(LevelOver(m).mins) /\ c \in Nat
         /\ Len(LevelOver(m).mins) = c /\ DOMAIN LevelOver(m).mins = 1..c
         /\ \A j \in 1..c : LevelOver(m).mins[j] = m[r[j][1]]
<1> DEFINE u == LevelOver(m).mins
<1>1. u = [j \in 1..c |-> m[r[j][1]]] /\ c \in 0..Len(m) /\ Len(m) \in Nat
  BY DEF LevelPieces, Pieces, Ascending
<1> HIDE DEF u
<1>2. \A j \in 1..c : u[j] = m[r[j][1]] /\ r[j][1] \in DOMAIN m /\ m[r[j][1]] \in Nat
  <2> TAKE j \in 1..c
  <2>1. r[j][1] \in 1..Len(m) /\ DOMAIN m = 1..Len(m)
    BY PieceBounds
  <2>2. m \in Seq(Nat)
    BY DEF Ascending
  <2> QED BY <1>1, <2>1, <2>2
<1>3. u \in Seq(Nat) /\ Len(u) = c /\ DOMAIN u = 1..c /\ c \in Nat
  BY <1>1, <1>2
<1>4. ASSUME NEW i \in 1..c, NEW j \in 1..c, i <= j PROVE u[i] <= u[j]
  <2>1. j \in i..c
    BY <1>3, <1>4
  <2>2. r[i][1] <= r[j][1]
    BY <2>1, NodesAscend
  <2> QED BY <1>2, <2>2 DEF Ascending
<1>5. Ascending(u)
  BY <1>3, <1>4 DEF Ascending
<1> QED BY <1>2, <1>3, <1>5 DEF u

(* One step down: the separators of the node lead to the right child.      *)
Separated(parent, k) ==
  parent.first + Cardinality({i \in DOMAIN parent.keys : parent.keys[i] <= k})

LEMMA StepDown ==
  ASSUME NEW m, Ascending(m), NEW r, NEW c, LevelPieces(m, r, c), NEW k \in Int,
         NEW j, Leads(LevelOver(m).mins, j, k)
  PROVE  Leads(m, Separated(LevelOver(m).nodes[j], k), k)
<1> DEFINE n == Len(m)
           a == r[j][1]
           b == r[j][2]
           seps == SubSeq(m, a + 1, b)
           D == {i \in DOMAIN seps : seps[i] <= k}
           d == Cardinality(D)
<1>0. m \in Seq(Nat) /\ \A p, q \in DOMAIN m : p <= q => m[p] <= m[q]
  BY DEF Ascending
<1>1. /\ c \in Nat /\ j \in 1..c /\ (j = 1 \/ m[a] <= k)
      /\ \A i \in j+1..c : k < m[r[i][1]]
  <2>1. j \in 1..c /\ (j = 1 \/ LevelOver(m).mins[j] <= k) /\ \A i \in j+1..c : k < LevelOver(m).mins[i]
    BY LevelAscends DEF Leads
  <2>2. c \in Nat /\ \A i \in 1..c : LevelOver(m).mins[i] = m[r[i][1]]
    BY LevelAscends
  <2>3. \A i \in j+1..c : i \in 1..c
    BY <2>1, <2>2
  <2> QED BY <2>1, <2>2, <2>3
<1>2. a \in 1..n /\ b \in a..n /\ n \in Nat /\ DOMAIN m = 1..n
  BY <1>1, PieceBounds
<1>3. LevelOver(m).nodes[j] = [keys |-> seps, first |-> a]
  BY <1>1 DEF LevelPieces
<1>4. Separated(LevelOver(m).nodes[j], k) = a + d
  <2> DEFINE p == LevelOver(m).nodes[j]
  <2> HIDE DEF p, seps, a
  <2>1. p.keys = seps /\ p.first = a
    <3>1. p = [keys |-> seps, first |-> a]
      BY <1>3 DEF p
    <3> QED BY <3>1
  <2>2. {i \in DOMAIN p.keys : p.keys[i] <= k} = {i \in DOMAIN seps : seps[i] <= k}
    BY <2>1
  <2>3. Separated(p, k) = p.first + Cardinality({i \in DOMAIN p.keys : p.keys[i] <= k})
    BY DEF Separated
  <2> QED BY <2>1, <2>2, <2>3 DEF p
<1> HIDE DEF a, b, n
<1>5. \A i \in a+1..b : m[i] \in Nat
  BY <1>0, <1>2
<1>6. seps \in Seq(Nat) /\ Len(seps) = b - a /\ \A i \in 1..b-a : seps[i] = m[a + i]
  <2>1. a + 1 \in Int /\ b \in Int
    BY <1>2
  <2>2. /\ seps \in Seq(Nat) /\ Len(seps) = IF a + 1 <= b THEN b - (a + 1) + 1 ELSE 0
        /\ \A i \in 1..(b - (a + 1) + 1) : seps[i] = m[((a + 1) + i) - 1]
    BY <1>5, <2>1, SubSeqProperties
  <2>3. b - (a + 1) + 1 = b - a /\ \A i \in 1..b-a : ((a + 1) + i) - 1 = a + i
    BY <1>2
  <2>4. Len(seps) = b - a
    BY <1>2, <2>2
  <2> HIDE DEF seps
  <2> QED BY <2>2, <2>3, <2>4
<1>7. DOMAIN seps = 1..b-a /\ b - a \in Nat
  BY <1>2, <1>6
<1> HIDE DEF seps
<1>8. \A i \in 1..b-a : i \in D <=> m[a + i] <= k
  BY <1>6, <1>7
<1>9. \A i \in 1..b-a : a + i \in DOMAIN m /\ m[a + i] \in Nat
  BY <1>0, <1>2
<1>10. D \subseteq 1..b-a /\ \A p, q \in 1..b-a : p <= q /\ q \in D => p \in D
  <2>1. D \subseteq 1..b-a
    BY <1>7
  <2>2. ASSUME NEW p \in 1..b-a, NEW q \in 1..b-a, p <= q, q \in D PROVE p \in D
    <3>1. a + p <= a + q
      BY <1>2, <2>2
    <3>2. m[a + p] <= m[a + q] /\ m[a + q] <= k
      BY <1>0, <1>8, <1>9, <2>2, <3>1
    <3>3. m[a + p] \in Int /\ m[a + q] \in Int
      BY <1>9
    <3>4. m[a + p] <= k
      BY <3>2, <3>3
    <3> QED BY <1>8, <3>4
  <2> HIDE DEF D
  <2> QED BY <2>1, <2>2
<1> HIDE DEF D
<1>11. d \in 0..b-a /\ \A i \in 1..b-a : i \in D <=> i <= d
  BY <1>7, <1>10, FirstPlaces
<1> HIDE DEF d
<1>12. a + d \in 1..n
  BY <1>2, <1>11
<1>13. a + d = 1 \/ m[a + d] <= k
  <2>1. CASE d >= 1
    <3>1. d \in 1..b-a
      BY <1>7, <1>11, <2>1
    <3> QED BY <1>8, <1>11, <3>1
  <2>2. CASE d = 0
    <3>1. j = 1 => a = 1
      <4>1. n >= 1
        BY <1>2
      <4> QED BY <4>1 DEF LevelPieces, Pieces, a, n
    <3>2. a + d = a
      BY <1>2, <2>2
    <3> QED BY <1>1, <3>1, <3>2 DEF a
  <2> QED BY <1>7, <1>11, <2>1, <2>2
<1>14. ASSUME NEW i \in a+d+1..n PROVE k < m[i]
  <2>1. i \in DOMAIN m /\ m[i] \in Nat
    BY <1>0, <1>2, <1>11
  <2>2. CASE i <= b
    <3>1. i - a \in 1..b-a /\ a + (i - a) = i /\ ~ (i - a <= d)
      BY <1>2, <1>11, <2>2
    <3>2. ~ (m[i] <= k)
      BY <1>8, <1>11, <3>1
    <3> QED BY <2>1, <3>2
  <2>3. CASE i > b
    <3>1. j # c
      <4>1. n >= 1
        BY <1>2
      <4>2. r[c][2] = n
        BY <4>1 DEF LevelPieces, Pieces, n
      <4>3. b # n
        BY <1>2, <2>3
      <4> QED BY <4>2, <4>3 DEF b
    <3>2. j + 1 \in 2..c /\ j + 1 \in 1..c /\ j + 1 \in j+1..c /\ (j + 1) - 1 = j
      BY <1>1, <3>1
    <3>3. r[j + 1][1] = b + 1
      <4>1. r[j + 1][1] = r[(j + 1) - 1][2] + 1
        BY <3>2 DEF LevelPieces, Pieces
      <4> QED BY <3>2, <4>1 DEF b
    <3>4. k < m[b + 1]
      BY <1>1, <3>2, <3>3
    <3>5. b + 1 \in DOMAIN m /\ b + 1 <= i
      BY <1>2, <2>1, <2>3
    <3>6. m[b + 1] <= m[i] /\ m[b + 1] \in Nat
      BY <1>0, <2>1, <3>5
    <3> QED BY <2>1, <3>4, <3>6
  <2> QED BY <1>2, <2>1, <2>2, <2>3
<1> QED BY <1>4, <1>12, <1>13, <1>14 DEF Leads, n

(* The least keys of the levels over some leaves, and the levels LevelsFor *)
(* builds of them, up to the first of a single node.                       *)
LeafMins(leaves) == [j \in DOMAIN leaves |-> leaves[j][1].key]

HasLevels(leaves, mins, h) ==
  /\ h \in Nat /\ mins[0] = LeafMins(leaves)
  /\ \A l \in 0..h : Ascending(mins[l]) /\ (leaves # <<>> => Len(mins[l]) >= 1)
  /\ \A l \in 1..h : mins[l] = LevelOver(mins[l - 1]).mins
  /\ h = 0 <=> Len(leaves) <= 1
  /\ Len(mins[h]) <= 1
  /\ LevelsFor(leaves) = [l \in 1..h |-> LevelOver(mins[l - 1]).nodes]

(* Leaves that are not empty and lie in order.                             *)
Leafed(leaves) ==
  /\ leaves \in Seq(Seq(Entry))
  /\ \A j \in DOMAIN leaves : leaves[j] # <<>> /\ Sorted(leaves[j])
  /\ \A i, j \in DOMAIN leaves : i < j =>
       \A p \in DOMAIN leaves[i], q \in DOMAIN leaves[j] : leaves[i][p].key <= leaves[j][q].key

LEMMA LeafMinsAscend ==
  ASSUME NEW leaves, Leafed(leaves)
  PROVE  /\ Ascending(LeafMins(leaves)) /\ Len(LeafMins(leaves)) = Len(leaves)
         /\ DOMAIN LeafMins(leaves) = DOMAIN leaves
<1>1. /\ leaves \in Seq(Seq(Entry)) /\ DOMAIN leaves = 1..Len(leaves) /\ Len(leaves) \in Nat
      /\ \A j \in DOMAIN leaves : leaves[j] # <<>> /\ leaves[j] \in Seq(Entry)
  BY DEF Leafed
<1>2. ASSUME NEW j \in DOMAIN leaves PROVE 1 \in DOMAIN leaves[j] /\ leaves[j][1].key \in Nat
  <2>1. leaves[j] # <<>> /\ leaves[j] \in Seq(Entry)
    BY <1>1
  <2>2. 1 \in DOMAIN leaves[j]
    BY <2>1
  <2> QED BY <2>1, <2>2, EntryType
<1>3. /\ LeafMins(leaves) \in Seq(Nat) /\ Len(LeafMins(leaves)) = Len(leaves)
      /\ DOMAIN LeafMins(leaves) = DOMAIN leaves
      /\ \A j \in DOMAIN leaves : LeafMins(leaves)[j] = leaves[j][1].key
  BY <1>1, <1>2 DEF LeafMins
<1>4. ASSUME NEW i \in DOMAIN leaves, NEW j \in DOMAIN leaves, i <= j
      PROVE  leaves[i][1].key <= leaves[j][1].key
  <2>1. i = j \/ i < j
    BY <1>1, <1>4
  <2> QED BY <1>2, <2>1 DEF Leafed
<1> QED BY <1>3, <1>4 DEF Ascending

LEMMA LevelsExist ==
  ASSUME NEW leaves, Leafed(leaves)
  PROVE  \E mins, h : HasLevels(leaves, mins, h)
<1> DEFINE n == Len(leaves)
           V == {m \in Seq(Nat) : Ascending(m)}
           Over(m) == IF Len(m) = 1 THEN m ELSE LevelOver(m).mins
           F == [p \in V \X (1..n) |-> Over(p[1])]
           Equation(g) == g = [l \in 0..n |-> IF l = 0 THEN LeafMins(leaves) ELSE Over(g[l - 1])]
           mins == CHOOSE g : Equation(g)
           height == Min({l \in DOMAIN mins : Len(mins[l]) <= 1})
<1>1. n \in Nat /\ (n = 0 <=> leaves = <<>>)
  BY DEF Leafed
<1>2. \A m \in V : Over(m) \in V
  <2> TAKE m \in V
  <2>1. PICK r, c : LevelPieces(m, r, c)
    BY LevelHasPieces
  <2>2. Ascending(LevelOver(m).mins)
    BY <2>1, LevelAscends
  <2> QED BY <2>2 DEF Ascending
<1>3. LeafMins(leaves) \in V /\ Len(LeafMins(leaves)) = n
  BY LeafMinsAscend DEF Ascending
<1>4. LevelsFor(leaves) = [l \in 1..height |-> LevelOver(mins[l - 1]).nodes]
  BY DEF LevelsFor, LeafMins
<1> HIDE DEF Over, V, n
<1>5. PICK f \in [0..n -> V] : Follows(f, F, LeafMins(leaves), 0, n)
  <2>1. F \in [V \X (1..n) -> V]
    BY <1>2
  <2>2. 0 \in Int /\ n \in Int /\ 0 <= n /\ 1..n = 0+1..n
    BY <1>1
  <2> HIDE DEF F
  <2> QED BY ONLY <1>3, <2>1, <2>2, Iteration
<1>6. f[0] = LeafMins(leaves) /\ \A l \in 1..n : f[l] = Over(f[l - 1])
  <2>1. f[0] = LeafMins(leaves) /\ \A l \in 0+1..n : f[l] = F[<<f[l - 1], l>>]
    BY <1>5 DEF Follows
  <2>2. \A l \in 1..n : l \in 0+1..n /\ l - 1 \in 0..n
    BY <1>1
  <2>3. \A l \in 1..n : F[<<f[l - 1], l>>] = Over(f[l - 1])
    BY <2>2
  <2> HIDE DEF F
  <2> QED BY <2>1, <2>2, <2>3
<1>7. Equation(f)
  <2>1. \A l \in 0..n : l = 0 \/ l \in 1..n
    BY <1>1
  <2>2. \A l \in 0..n : f[l] = IF l = 0 THEN LeafMins(leaves) ELSE Over(f[l - 1])
    BY <1>6, <2>1
  <2> QED BY <2>2
<1>8. Equation(mins)
  <2> HIDE DEF Equation
  <2> QED BY <1>7
<1> HIDE DEF mins
<1>19. DOMAIN mins = 0..n
  BY <1>8
<1>9. mins[0] = LeafMins(leaves) /\ \A l \in 1..n : mins[l] = Over(mins[l - 1])
  <2>1. \A l \in 0..n : mins[l] = IF l = 0 THEN LeafMins(leaves) ELSE Over(mins[l - 1])
    BY <1>8
  <2>2. 0 \in 0..n /\ \A l \in 1..n : l \in 0..n /\ l # 0
    BY <1>1
  <2> QED BY <2>1, <2>2
(* Every level is shorter than the one below, down to one node.            *)
<1> DEFINE Small(l) == /\ mins[l] \in V
                       /\ leaves # <<>> => Len(mins[l]) >= 1
                       /\ Len(mins[l]) <= 1 \/ Len(mins[l]) <= n - l
           T == {l \in 0..n : Small(l)}
<1>10. 0 \in T
  <2>1. 0 \in 0..n /\ n <= n - 0
    BY <1>1
  <2>2. leaves # <<>> => n >= 1
    BY <1>1
  <2> QED BY <1>3, <1>9, <2>1, <2>2
<1>11. ASSUME NEW l \in 0+1..n, l - 1 \in T PROVE l \in T
  <2> DEFINE m == mins[l - 1]
  <2>1. l \in 1..n /\ l \in Int
    BY <1>1
  <2>2. /\ m \in V /\ (leaves # <<>> => Len(m) >= 1)
        /\ Len(m) <= 1 \/ Len(m) <= n - (l - 1)
    BY <1>11
  <2>3. mins[l] = Over(m)
    BY <1>9, <2>1
  <2> HIDE DEF m
  <2>4. Len(m) \in Nat /\ Ascending(m)
    BY <2>2 DEF V
  <2>5. CASE Len(m) = 1
    <3>1. mins[l] = m
      BY <2>3, <2>5 DEF Over
    <3>2. Len(m) <= 1 /\ Len(m) >= 1
      BY ONLY <2>5
    <3>3. mins[l] \in V /\ Len(mins[l]) <= 1 /\ Len(mins[l]) >= 1
      BY ONLY <2>2, <3>1, <3>2
    <3>4. Small(l)
      BY ONLY <3>3 DEF Small
    <3> QED BY <2>1, <3>4
  <2>6. CASE Len(m) # 1
    <3>1. PICK r, c : LevelPieces(m, r, c)
      BY <2>4, LevelHasPieces
    <3>2. mins[l] = LevelOver(m).mins /\ Len(mins[l]) = c /\ c \in Nat
      BY <2>3, <2>4, <2>6, <3>1, LevelAscends DEF Over
    <3>3. mins[l] \in V
      BY <1>2, <2>2, <2>3
    <3>4. /\ Len(m) >= 1 => c >= 1
          /\ Len(m) >= 2 /\ Order + 1 >= 2 => c < Len(m)
          /\ c <= Len(m)
      BY <3>1 DEF LevelPieces, Pieces
    <3>5. Order + 1 >= 2
      BY LeafSizeFits
    <3>6. leaves # <<>> => c >= 1
      BY <2>2, <3>4
    <3>7. c <= 1 \/ c <= n - l
      <4>1. CASE Len(m) = 0
        BY <3>2, <3>4, <4>1
      <4>2. CASE Len(m) >= 2
        BY <1>1, <2>1, <2>2, <2>4, <3>2, <3>4, <3>5, <4>2
      <4>3. \A x \in Nat : x # 1 => x = 0 \/ x >= 2
        BY ONLY TRUE
      <4> QED BY <2>4, <2>6, <4>1, <4>2, <4>3
    <3> QED BY <2>1, <3>2, <3>3, <3>6, <3>7
  <2> QED BY <2>5, <2>6
<1>12. 0..n \subseteq T
  <2>1. 0 \in Int /\ n \in Int
    BY <1>1
  <2> HIDE DEF T
  <2> QED BY ONLY <1>10, <1>11, <2>1, IntervalInduction
<1> DEFINE H == {l \in DOMAIN mins : Len(mins[l]) <= 1}
<1>13. n \in H
  <2>1. n \in 0..n /\ n \in T
    BY <1>1, <1>12
  <2>2. Len(mins[n]) \in Nat
    BY <2>1 DEF V
  <2> QED BY <1>1, <1>19, <2>1, <2>2
<1>14. height \in H /\ \A l \in H : height <= l
  <2>1. H \subseteq 0..n /\ H # {} /\ 0 \in Int /\ n \in Int
    BY <1>1, <1>13, <1>19
  <2> HIDE DEF H
  <2>2. Min(H) \in H /\ \A l \in H : Min(H) <= l
    BY ONLY <2>1, MinOfInterval
  <2> QED BY <2>2 DEF H
<1> HIDE DEF height
<1>15. height \in Nat /\ height <= n /\ Len(mins[height]) <= 1
  BY <1>1, <1>14, <1>19
<1>16. \A l \in 0..height : mins[l] \in V /\ (leaves # <<>> => Len(mins[l]) >= 1)
  <2>1. \A l \in 0..height : l \in T
    BY <1>1, <1>12, <1>15
  <2> QED BY <2>1
<1>17. ASSUME NEW l \in 1..height PROVE mins[l] = LevelOver(mins[l - 1]).mins
  <2>1. l \in 1..n /\ l - 1 \in 0..n /\ ~ (height <= l - 1)
    BY <1>1, <1>15
  <2>2. Len(mins[l - 1]) # 1
    <3>1. l - 1 \notin H
      BY <1>1, <1>14, <1>15, <2>1
    <3>2. ~ (Len(mins[l - 1]) <= 1)
      BY <1>19, <2>1, <3>1
    <3>3. l - 1 \in T
      BY <1>12, <2>1
    <3>4. Len(mins[l - 1]) \in Nat
      BY <3>3 DEF V
    <3>5. \A x \in Nat : x = 1 => x <= 1
      BY ONLY TRUE
    <3> QED BY <3>2, <3>4, <3>5
  <2> QED BY <1>9, <2>1, <2>2 DEF Over
<1>18. height = 0 <=> n <= 1
  <2>1. 0 \in H <=> n <= 1
    BY <1>1, <1>3, <1>9, <1>19
  <2>2. height = 0 => 0 \in H
    BY <1>14
  <2>3. 0 \in H => height = 0
    BY <1>14, <1>15
  <2> QED BY <2>1, <2>2, <2>3
<1> QED BY <1>4, <1>9, <1>15, <1>16, <1>17, <1>18 DEF HasLevels, V, n

-----------------------------------------------------------------------------
(* The leaves hold the entries of s and no others.                         *)
Spread(s, leaves) ==
  /\ \A i \in DOMAIN s : \E j \in DOMAIN leaves : \E p \in DOMAIN leaves[j] : leaves[j][p] = s[i]
  /\ \A j \in DOMAIN leaves : \A p \in DOMAIN leaves[j] : \E i \in DOMAIN s : s[i] = leaves[j][p]

LEMMA ChunksLeafed ==
  ASSUME NEW data, Sorted(data)
  PROVE  /\ Leafed(LeavesFor(data)) /\ Spread(data, LeavesFor(data))
         /\ \A j \in DOMAIN LeavesFor(data) : Len(LeavesFor(data)[j]) \in 1..Order
<1> DEFINE n == Len(data)
           leaves == LeavesFor(data)
           c == Len(leaves)
<1>1. data \in Seq(Entry) /\ n \in Nat /\ DOMAIN data = 1..n
      /\ \A i, j \in 1..n : i <= j => data[i].key <= data[j].key
  BY DEF Sorted
<1>2. leaves \in Seq(Seq(Entry)) /\ Chunked(data, leaves)
  BY <1>1, LeavesAreChunks
<1> HIDE DEF leaves
<1>3. PICK r : /\ Pieces(r, c, n, LeafSize)
               /\ \A j \in 1..c : leaves[j] = SubSeq(data, r[j][1], r[j][2])
  BY <1>2 DEF Chunked
<1>4. c \in Nat /\ DOMAIN leaves = 1..c
  BY <1>2
<1>20. \A i \in 1..n : data[i].key \in Nat
  BY <1>1, EntryType
<1> HIDE DEF c, n
<1>5. \A j \in 1..c : r[j][1] \in 1..n /\ r[j][2] \in r[j][1]..n /\ r[j][2] - r[j][1] < LeafSize
  BY <1>3 DEF Pieces
<1>6. ASSUME NEW j \in 1..c
      PROVE  /\ leaves[j] \in Seq(Entry) /\ Len(leaves[j]) = r[j][2] - r[j][1] + 1
             /\ Len(leaves[j]) \in 1..Order /\ DOMAIN leaves[j] = 1..Len(leaves[j])
             /\ \A p \in DOMAIN leaves[j] : /\ (r[j][1] + p) - 1 \in r[j][1]..r[j][2]
                                            /\ leaves[j][p] = data[(r[j][1] + p) - 1]
  <2> DEFINE a == r[j][1]
             b == r[j][2]
  <2>1. a \in 1..n /\ b \in a..n /\ b - a < LeafSize
    BY <1>5
  <2>2. leaves[j] = SubSeq(data, a, b)
    BY <1>3
  <2> HIDE DEF a, b
  <2>3. \A i \in a..b : data[i] \in Entry
    BY <1>1, <2>1
  <2>4. a \in Int /\ b \in Int /\ a <= b
    BY <1>1, <2>1
  <2>5. /\ leaves[j] \in Seq(Entry) /\ Len(leaves[j]) = b - a + 1
        /\ \A i \in 1..(b - a + 1) : leaves[j][i] = data[(a + i) - 1]
    BY <2>2, <2>3, <2>4, SubSeqProperties
  <2>6. b - a + 1 \in 1..Order
    BY <1>1, <2>1, <2>4, LeafSizeFits
  <2>7. DOMAIN leaves[j] = 1..Len(leaves[j])
    BY <2>5
  <2>8. \A p \in 1..(b - a + 1) : (a + p) - 1 \in a..b
    BY <2>4
  <2>9. b - a + 1 = (b - a) + 1
    BY <2>4
  <2> QED BY <2>5, <2>6, <2>7, <2>8 DEF a, b
<1>7. ASSUME NEW j \in 1..c PROVE leaves[j] # <<>> /\ Sorted(leaves[j])
  <2>1. leaves[j] \in Seq(Entry) /\ Len(leaves[j]) \in 1..Order
    BY <1>6
  <2>2. ASSUME NEW p \in DOMAIN leaves[j], NEW q \in DOMAIN leaves[j], p <= q
        PROVE  leaves[j][p].key <= leaves[j][q].key
    <3>1. /\ (r[j][1] + p) - 1 \in 1..n /\ (r[j][1] + q) - 1 \in 1..n
          /\ (r[j][1] + p) - 1 <= (r[j][1] + q) - 1
      <4>1. p \in Int /\ q \in Int
        BY <2>1
      <4>2. r[j][1] \in 1..n /\ r[j][2] \in r[j][1]..n
        BY <1>5
      <4>3. (r[j][1] + p) - 1 \in r[j][1]..r[j][2] /\ (r[j][1] + q) - 1 \in r[j][1]..r[j][2]
        BY <1>6
      <4> QED BY <1>1, <2>2, <4>1, <4>2, <4>3
    <3>2. leaves[j][p] = data[(r[j][1] + p) - 1] /\ leaves[j][q] = data[(r[j][1] + q) - 1]
      BY <1>6
    <3> QED BY <1>1, <3>1, <3>2
  <2> QED BY <2>1, <2>2 DEF Sorted
<1>8. ASSUME NEW i \in 1..c, NEW j \in 1..c, i < j,
             NEW p \in DOMAIN leaves[i], NEW q \in DOMAIN leaves[j]
      PROVE  leaves[i][p].key <= leaves[j][q].key
  <2>1. i + 1 \in 1..c /\ j \in i+1..c /\ i + 1 \in 2..c /\ (i + 1) - 1 = i
    BY <1>4, <1>8
  <2>2. r[i + 1][1] <= r[j][1]
    BY <1>1, <1>3, <2>1, LeafSizeFits, PiecesAscend
  <2>3. r[i + 1][1] = r[i][2] + 1
    <3>1. r[i + 1][1] = r[(i + 1) - 1][2] + 1
      BY <1>3, <2>1 DEF Pieces
    <3> QED BY <2>1, <3>1
  <2>4. /\ (r[i][1] + p) - 1 \in r[i][1]..r[i][2] /\ (r[j][1] + q) - 1 \in r[j][1]..r[j][2]
        /\ leaves[i][p] = data[(r[i][1] + p) - 1] /\ leaves[j][q] = data[(r[j][1] + q) - 1]
    BY <1>6
  <2>5. /\ r[i][1] \in 1..n /\ r[i][2] \in r[i][1]..n
        /\ r[j][1] \in 1..n /\ r[j][2] \in r[j][1]..n
    BY <1>5
  <2> DEFINE x == (r[i][1] + p) - 1
             y == (r[j][1] + q) - 1
  <2>6. x \in r[i][1]..r[i][2] /\ y \in r[j][1]..r[j][2]
    BY <2>4
  <2>7. leaves[i][p] = data[x] /\ leaves[j][q] = data[y]
    BY <2>4
  <2> HIDE DEF x, y
  <2>8. x \in 1..n /\ y \in 1..n /\ x <= y
    BY ONLY <1>1, <2>2, <2>3, <2>5, <2>6
  <2> QED BY <1>1, <2>7, <2>8
<1>9. Leafed(leaves)
  BY <1>2, <1>4, <1>7, <1>8 DEF Leafed
<1>10. ASSUME NEW i \in 1..n PROVE \E j \in 1..c : \E p \in DOMAIN leaves[j] : leaves[j][p] = data[i]
  <2>1. PICK j \in 1..c : i \in r[j][1]..r[j][2]
    BY <1>1, <1>3, LeafSizeFits, PieceOf
  <2> DEFINE p == (i - r[j][1]) + 1
  <2>2. r[j][1] \in 1..n /\ r[j][2] \in r[j][1]..n
    BY <1>5
  <2>3. p \in 1..(r[j][2] - r[j][1] + 1) /\ (r[j][1] + p) - 1 = i
    <3>1. r[j][1] \in Nat /\ r[j][2] \in Nat /\ i \in Nat /\ r[j][1] <= i /\ i <= r[j][2]
      BY <1>1, <2>1, <2>2
    <3> QED BY ONLY <3>1
  <2> HIDE DEF p
  <2>4. p \in DOMAIN leaves[j]
    BY <1>6, <2>3
  <2>5. leaves[j][p] = data[(r[j][1] + p) - 1]
    BY <1>6, <2>4
  <2> QED BY <2>3, <2>4, <2>5
<1>11. ASSUME NEW j \in 1..c, NEW p \in DOMAIN leaves[j] PROVE \E i \in 1..n : data[i] = leaves[j][p]
  <2>1. /\ (r[j][1] + p) - 1 \in r[j][1]..r[j][2] /\ leaves[j][p] = data[(r[j][1] + p) - 1]
    BY <1>6
  <2>2. r[j][1] \in 1..n /\ r[j][2] \in r[j][1]..n
    BY <1>5
  <2>3. (r[j][1] + p) - 1 \in 1..n
    BY <1>1, <2>1, <2>2
  <2> QED BY <2>1, <2>3
<1>12. Spread(data, leaves)
  BY <1>1, <1>4, <1>10, <1>11 DEF Spread
<1>13. \A j \in DOMAIN leaves : Len(leaves[j]) \in 1..Order
  BY <1>4, <1>6
<1> QED BY <1>9, <1>12, <1>13 DEF leaves

LEMMA OneLeafed ==
  ASSUME NEW leaf, Sorted(leaf), leaf # <<>>
  PROVE  Leafed(<<leaf>>) /\ Spread(leaf, <<leaf>>)
<1> DEFINE p == <<leaf>>
<1>1. leaf \in Seq(Entry) /\ p \in Seq(Seq(Entry)) /\ DOMAIN p = {1} /\ p[1] = leaf
  BY DEF Sorted
<1> HIDE DEF p
<1>2. Leafed(p)
  <2>1. \A i, j \in DOMAIN p : ~ (i < j)
    BY <1>1
  <2> QED BY <1>1, <2>1 DEF Leafed
<1>3. Spread(leaf, p)
  BY <1>1 DEF Spread
<1> QED BY <1>2, <1>3 DEF p
(* The separators lead to the last leaf whose least key is no greater, or  *)
(* to the first leaf.                                                      *)
LEMMA LeafForLeads ==
  ASSUME NEW k \in Int, Leafed(bt_leaves), bt_leaves # <<>>, bt_levels = LevelsFor(bt_leaves)
  PROVE  \E j : Leads(LeafMins(bt_leaves), j, k) /\ LeafFor(k) = bt_leaves[j]
<1>1. PICK mins, h : HasLevels(bt_leaves, mins, h)
  BY LevelsExist
<1>2. /\ h \in Nat /\ mins[0] = LeafMins(bt_leaves) /\ Len(mins[h]) <= 1
      /\ \A l \in 0..h : Ascending(mins[l]) /\ Len(mins[l]) >= 1
      /\ \A l \in 1..h : mins[l] = LevelOver(mins[l - 1]).mins
  BY <1>1 DEF HasLevels
<1>3. bt_levels = [l \in 1..h |-> LevelOver(mins[l - 1]).nodes]
  BY <1>1 DEF HasLevels
<1>4. Len(bt_levels) = h /\ \A l \in 1..h : bt_levels[l] = LevelOver(mins[l - 1]).nodes
  <2> DEFINE g == [l \in 1..h |-> LevelOver(mins[l - 1]).nodes]
  <2>1. Len(g) = h
    BY <1>2
  <2>2. \A l \in 1..h : g[l] = LevelOver(mins[l - 1]).nodes
    OBVIOUS
  <2> HIDE DEF g
  <2>3. bt_levels = g
    BY <1>3 DEF g
  <2> QED BY <2>1, <2>2, <2>3
<1> DEFINE Step(v, l) == Separated(bt_levels[Len(bt_levels) + 1 - l][v], k)
           Equation(g) == g = [l \in 0..Len(bt_levels) |-> IF l = 0 THEN 1 ELSE Step(g[l - 1], l)]
           node == CHOOSE g : Equation(g)
           F == [p \in Nat \X (1..h) |-> IF Step(p[1], p[2]) \in Nat THEN Step(p[1], p[2]) ELSE 0]
<1>5. LeafFor(k) = bt_leaves[node[Len(bt_levels)]]
  BY DEF LeafFor, Separated
<1>6. PICK f \in [0..h -> Nat] : Follows(f, F, 1, 0, h)
  <2>1. F \in [Nat \X (1..h) -> Nat] /\ 1 \in Nat
    OBVIOUS
  <2>2. 0 \in Int /\ h \in Int /\ 0 <= h /\ 1..h = 0+1..h
    BY <1>2
  <2> HIDE DEF F
  <2> QED BY ONLY <2>1, <2>2, Iteration
<1>7. /\ f[0] = 1
      /\ \A l \in 1..h : f[l] = IF Step(f[l - 1], l) \in Nat THEN Step(f[l - 1], l) ELSE 0
  <2> HIDE DEF Step
  <2>1. f[0] = 1 /\ \A l \in 0+1..h : f[l] = F[<<f[l - 1], l>>]
    BY <1>6 DEF Follows
  <2>2. \A l \in 1..h : l \in 0+1..h /\ l - 1 \in 0..h
    BY <1>2
  <2>3. \A l \in 1..h : F[<<f[l - 1], l>>] =
          IF Step(f[l - 1], l) \in Nat THEN Step(f[l - 1], l) ELSE 0
    <3> TAKE l \in 1..h
    <3>1. f[l - 1] \in Nat
      BY <2>2
    <3> DEFINE v == f[l - 1]
    <3> HIDE DEF v
    <3>2. <<v, l>> \in Nat \X (1..h)
      BY <3>1 DEF v
    <3>3. F[<<v, l>>] = IF Step(v, l) \in Nat THEN Step(v, l) ELSE 0
      BY <3>2
    <3> QED BY <3>3 DEF v
  <2> HIDE DEF F
  <2> QED BY <2>1, <2>2, <2>3
<1> HIDE DEF F
(* Going down, the node taken is always the one led to.                    *)
<1> DEFINE T == {l \in 0..h : Leads(mins[h - l], f[l], k)}
<1>8. 0 \in T
  <2>1. 0 \in 0..h /\ h \in 0..h /\ h - 0 = h
    BY <1>2
  <2>2. Len(mins[h]) \in Nat /\ Len(mins[h]) <= 1 /\ Len(mins[h]) >= 1
    BY <1>2, <2>1 DEF Ascending
  <2>5. \A x \in Nat : x <= 1 /\ x >= 1 => x = 1
    BY ONLY TRUE
  <2>3. Len(mins[h]) = 1
    BY ONLY <2>2, <2>5
  <2>4. Leads(mins[h], 1, k)
    BY <2>3 DEF Leads
  <2> QED BY <1>7, <2>1, <2>4
<1>9. ASSUME NEW l \in 0+1..h, l - 1 \in T
      PROVE  Leads(mins[h - l], f[l], k) /\ f[l] = Step(f[l - 1], l)
  <2> DEFINE m == mins[h - l]
  <2>1. l \in 1..h /\ h - l \in 0..h /\ (h + 1) - l \in 1..h /\ ((h + 1) - l) - 1 = h - l
        /\ h - (l - 1) = (h + 1) - l
    BY <1>2
  <2>2. mins[(h + 1) - l] = LevelOver(m).mins /\ bt_levels[(h + 1) - l] = LevelOver(m).nodes
    <3>1. /\ mins[(h + 1) - l] = LevelOver(mins[((h + 1) - l) - 1]).mins
          /\ bt_levels[(h + 1) - l] = LevelOver(mins[((h + 1) - l) - 1]).nodes
      BY <1>2, <1>4, <2>1
    <3> QED BY <2>1, <3>1
  <2>3. Leads(LevelOver(m).mins, f[l - 1], k)
    BY <1>9, <2>1, <2>2
  <2>4. Ascending(m)
    BY <1>2, <2>1
  <2> HIDE DEF m
  <2>5. PICK r, c : LevelPieces(m, r, c)
    BY <2>4, LevelHasPieces
  <2>6. Leads(m, Separated(LevelOver(m).nodes[f[l - 1]], k), k)
    BY <2>3, <2>4, <2>5, StepDown
  <2>7. Len(bt_levels) + 1 - l = (h + 1) - l
    BY <1>2, <1>4
  <2>8. Step(f[l - 1], l) = Separated(LevelOver(m).nodes[f[l - 1]], k)
    BY <2>2, <2>7
  <2> HIDE DEF Step
  <2>9. Leads(m, Step(f[l - 1], l), k)
    BY <2>6, <2>8
  <2>10. Step(f[l - 1], l) \in Nat
    BY <2>9 DEF Leads
  <2>11. f[l] = Step(f[l - 1], l)
    BY <1>7, <2>1, <2>10
  <2> QED BY <2>9, <2>11 DEF m
<1>10. 0..h \subseteq T
  <2>1. \A l \in 0+1..h : l - 1 \in T => l \in T
    <3> TAKE l \in 0+1..h
    <3>1. l \in 0..h
      BY <1>2
    <3> QED BY <1>9, <3>1
  <2>2. 0 \in Int /\ h \in Int
    BY <1>2
  <2> HIDE DEF T
  <2> QED BY ONLY <1>8, <2>1, <2>2, IntervalInduction
<1>11. Equation(f)
  <2>1. \A l \in 0..h : l = 0 \/ (l \in 0+1..h /\ l - 1 \in 0..h)
    BY <1>2
  <2>2. \A l \in 0+1..h : l - 1 \in 0..h => f[l] = Step(f[l - 1], l)
    <3> TAKE l \in 0+1..h
    <3> HAVE l - 1 \in 0..h
    <3>1. l - 1 \in T
      BY <1>10
    <3> QED BY <1>9, <3>1
  <2> HIDE DEF Step
  <2>3. \A l \in 0..h : f[l] = IF l = 0 THEN 1 ELSE Step(f[l - 1], l)
    <3> TAKE l \in 0..h
    <3>1. CASE l = 0
      BY <1>7, <3>1
    <3>2. CASE l # 0
      BY <2>1, <2>2, <3>2
    <3> QED BY <3>1, <3>2
  <2>4. f = [l \in 0..h |-> IF l = 0 THEN 1 ELSE Step(f[l - 1], l)]
    BY <2>3
  <2> QED BY <1>4, <2>4
<1>12. Equation(node)
  <2> HIDE DEF Equation
  <2> QED BY <1>11
<1> HIDE DEF node
(* The equation has one solution.                                          *)
<1> DEFINE U == {l \in 0..h : node[l] = f[l]}
<1>13. \A l \in 0..h : node[l] = IF l = 0 THEN 1 ELSE Step(node[l - 1], l)
  <2> HIDE DEF Step
  <2> QED BY <1>4, <1>12
<1>14. 0 \in U
  <2>1. 0 \in 0..h
    BY <1>2
  <2> HIDE DEF Step
  <2> QED BY <1>7, <1>13, <2>1
<1>15. ASSUME NEW l \in 0+1..h, l - 1 \in U PROVE l \in U
  <2>1. l \in 0..h /\ l # 0 /\ l - 1 \in 0..h
    BY <1>2
  <2>2. l - 1 \in T
    BY <1>10, <2>1
  <2>3. f[l] = Step(f[l - 1], l)
    BY <1>9, <2>2
  <2> HIDE DEF Step
  <2>4. node[l] = Step(node[l - 1], l)
    BY <1>13, <2>1
  <2>5. node[l - 1] = f[l - 1]
    BY <1>15
  <2> QED BY <2>1, <2>3, <2>4, <2>5
<1>16. 0..h \subseteq U
  <2>1. 0 \in Int /\ h \in Int
    BY <1>2
  <2> HIDE DEF U
  <2> QED BY ONLY <1>14, <1>15, <2>1, IntervalInduction
<1>17. h \in 0..h /\ h - h = 0
  BY <1>2
<1>18. node[h] = f[h] /\ Leads(mins[h - h], f[h], k)
  BY <1>10, <1>16, <1>17
<1>19. Leads(LeafMins(bt_leaves), f[h], k) /\ LeafFor(k) = bt_leaves[f[h]]
  BY <1>2, <1>4, <1>5, <1>17, <1>18
<1> QED BY <1>19

(* A lookup in the tree finds a key that is stored, with a value it is     *)
(* stored with, and no other key.                                          *)
LEMMA BtFinds ==
  ASSUME NEW s, Sorted(s), Leafed(bt_leaves), Spread(s, bt_leaves),
         bt_levels = LevelsFor(bt_leaves), NEW k \in Nat
  PROVE  IF k \in KeysOf(s) THEN \E e \in BtLookup(k) : e.val \in Copies(s, k)
         ELSE BtLookup(k) = {}
<1>1. CASE bt_leaves = <<>>
  <2>3. DOMAIN bt_leaves = {}
    BY <1>1
  <2>1. BtLookup(k) = {} /\ DOMAIN s = {}
    BY <1>1, <2>3 DEF BtLookup, Spread
  <2>2. k \notin KeysOf(s)
    BY <2>1 DEF KeysOf
  <2> QED BY <2>1, <2>2
<1>2. CASE bt_leaves # <<>>
  <2>1. PICK j : Leads(LeafMins(bt_leaves), j, k) /\ LeafFor(k) = bt_leaves[j]
    BY <1>2, LeafForLeads
  <2> DEFINE leaf == bt_leaves[j]
             mins == LeafMins(bt_leaves)
             x == LowerBoundOf(leaf, k) + 1
  <2>2. /\ Len(mins) = Len(bt_leaves) /\ bt_leaves \in Seq(Seq(Entry))
        /\ DOMAIN bt_leaves = 1..Len(bt_leaves) /\ Len(bt_leaves) \in Nat
        /\ \A i \in DOMAIN bt_leaves : mins[i] = bt_leaves[i][1].key
    BY LeafMinsAscend DEF Leafed, LeafMins
  <2> HIDE DEF mins
  <2>3. /\ j \in DOMAIN bt_leaves /\ (j = 1 \/ leaf[1].key <= k)
        /\ \A i \in DOMAIN bt_leaves : i > j => k < bt_leaves[i][1].key
    <3>1. j \in 1..Len(mins) /\ (j = 1 \/ mins[j] <= k) /\ \A i \in j+1..Len(mins) : k < mins[i]
      BY <2>1 DEF Leads, mins
    <3>2. \A i \in DOMAIN bt_leaves : i > j => i \in j+1..Len(mins)
      BY <2>2, <3>1
    <3> QED BY <2>2, <3>1, <3>2
  <2>4. \A i \in DOMAIN bt_leaves : Sorted(bt_leaves[i]) /\ 1 \in DOMAIN bt_leaves[i]
    <3> TAKE i \in DOMAIN bt_leaves
    <3>1. Sorted(bt_leaves[i]) /\ bt_leaves[i] # <<>> /\ bt_leaves[i] \in Seq(Entry)
      BY DEF Leafed
    <3> QED BY <3>1
  <2>5. \A i \in DOMAIN bt_leaves : \A p \in DOMAIN bt_leaves[i] : bt_leaves[i][p].key \in Nat
    BY <2>4, EntryType DEF Sorted
  <2>6. /\ LowerBoundOf(leaf, k) \in 0..Len(leaf)
        /\ \A i \in DOMAIN leaf : leaf[i].key < k <=> i <= LowerBoundOf(leaf, k)
    BY <2>3, <2>4, LowerBoundExact
  <2>7. Len(leaf) \in Nat /\ DOMAIN leaf = 1..Len(leaf)
    BY <2>3, <2>4 DEF Sorted
  <2>8. BtLookup(k) = Answer(leaf, k)
    BY <1>2, <2>1 DEF BtLookup
  <2>9. Answer(leaf, k) = IF x <= Len(leaf) /\ leaf[x].key = k THEN {leaf[x]} ELSE {}
    BY DEF Answer
  <2> HIDE DEF leaf, x
  <2>10. CASE k \in KeysOf(s)
    <3>1. PICK i \in DOMAIN s : s[i].key = k
      BY <2>10 DEF KeysOf
    <3>2. PICK a \in DOMAIN bt_leaves : \E p \in DOMAIN bt_leaves[a] : bt_leaves[a][p] = s[i]
      BY DEF Spread
    <3>3. PICK p \in DOMAIN bt_leaves[a] : bt_leaves[a][p].key = k
      BY <3>1, <3>2
    <3>4. \E q \in DOMAIN leaf : leaf[q].key = k
      <4>1. CASE a = j
        BY <3>3, <4>1 DEF leaf
      <4>2. CASE a > j
        <5>1. k < bt_leaves[a][1].key /\ bt_leaves[a][1].key <= bt_leaves[a][p].key
          <6>1. 1 \in DOMAIN bt_leaves[a] /\ 1 <= p /\ Sorted(bt_leaves[a])
            BY <2>4 DEF Sorted
          <6> QED BY <2>3, <4>2, <6>1 DEF Sorted
        <5>2. bt_leaves[a][1].key \in Nat
          BY <2>4, <2>5
        <5> QED BY <3>3, <5>1, <5>2
      <4>3. CASE a < j
        <5>1. 1 \in DOMAIN bt_leaves[j]
          BY <2>3, <2>4
        <5>2. bt_leaves[a][p].key <= bt_leaves[j][1].key
          BY <2>3, <4>3, <5>1 DEF Leafed
        <5>3. j # 1
          BY <2>2, <4>3
        <5>4. leaf[1].key <= k /\ k <= leaf[1].key /\ leaf[1].key \in Nat /\ 1 \in DOMAIN leaf
          BY <2>3, <2>5, <3>3, <5>1, <5>2, <5>3 DEF leaf
        <5>5. leaf[1].key = k
          BY <5>4
        <5> QED BY <5>4, <5>5
      <4>4. a = j \/ a > j \/ a < j
        BY <2>2, <2>3
      <4> QED BY <4>1, <4>2, <4>3, <4>4
    <3>5. PICK q \in DOMAIN leaf : leaf[q].key = k
      BY <3>4
    <3>6. ~ (leaf[q].key < k) /\ x \in 1..q /\ x \in DOMAIN leaf /\ ~ (x <= LowerBoundOf(leaf, k))
      BY <2>6, <2>7, <3>5 DEF x
    <3>7. ~ (leaf[x].key < k)
      BY <2>6, <3>6
    <3>8. leaf[x].key <= leaf[q].key /\ leaf[x].key \in Nat
      <4>1. x <= q /\ Sorted(leaf)
        BY <2>3, <2>4, <2>7, <3>6 DEF leaf
      <4>2. leaf[x].key <= leaf[q].key
        BY <3>6, <4>1 DEF Sorted
      <4> QED BY <2>3, <2>5, <3>6, <4>2 DEF leaf
    <3>9. leaf[x].key = k
      BY <3>5, <3>7, <3>8
    <3>10. BtLookup(k) = {leaf[x]}
      BY <2>7, <2>8, <2>9, <3>6, <3>9
    <3>11. leaf[x].val \in Copies(s, k)
      <4>1. PICK b \in DOMAIN s : s[b] = leaf[x]
        BY <2>3, <3>6 DEF Spread, leaf
      <4> QED BY <3>9, <4>1 DEF Copies
    <3> QED BY <2>10, <3>10, <3>11
  <2>11. CASE k \notin KeysOf(s)
    <3>1. ASSUME NEW q \in DOMAIN leaf PROVE leaf[q].key # k
      <4>1. PICK b \in DOMAIN s : s[b] = leaf[q]
        BY <2>3 DEF Spread, leaf
      <4> QED BY <2>11, <4>1 DEF KeysOf
    <3>2. x <= Len(leaf) => x \in DOMAIN leaf
      BY <2>6, <2>7 DEF x
    <3>3. BtLookup(k) = {}
      BY <2>8, <2>9, <3>1, <3>2
    <3> QED BY <2>11, <3>3
  <2> QED BY <2>10, <2>11
<1> QED BY <1>1, <1>2
-----------------------------------------------------------------------------
(* The RMI: lines that do not fall give predictions that do not.           *)
Rising(line) ==
  line.x \in Int /\ line.y \in Int /\ line.num \in Nat /\ line.den \in Nat \ {0}

LEMMA Remainder ==
  ASSUME NEW x \in Int, NEW d \in Nat \ {0}
  PROVE  x % d = 0 => x = (x \div d) * d
OBVIOUS

LEMMA ValueMonotone ==
  ASSUME NEW line, Rising(line), NEW short \in BOOLEAN, NEW a \in Int, NEW b \in Int, a <= b
  PROVE  /\ ValueAt(line, a, short) \in Int /\ ValueAt(line, b, short) \in Int
         /\ ValueAt(line, a, short) <= ValueAt(line, b, short)
<1> DEFINE d == line.den
           na == line.num * (a - line.x) + line.y * line.den
           nb == line.num * (b - line.x) + line.y * line.den
           Cast(n) == IF short /\ n % d = 0 /\ n > 0 THEN n \div d - 1 ELSE n \div d
<1>1. d \in Nat \ {0} /\ line.num \in Nat /\ a - line.x \in Int /\ b - line.x \in Int
      /\ a - line.x <= b - line.x /\ line.y * line.den \in Int
  BY Products DEF Rising
<1>2. na \in Int /\ nb \in Int /\ na <= nb
  <2> DEFINE u == line.num * (a - line.x)
             v == line.num * (b - line.x)
             w == line.y * line.den
  <2>1. u \in Int /\ v \in Int /\ w \in Int
    BY <1>1, Products
  <2>2. (a - line.x) * line.num <= (b - line.x) * line.num
    BY <1>1, Multiply
  <2>3. u <= v
    BY <1>1, <2>2, Products
  <2> HIDE DEF u, v, w
  <2>4. u + w \in Int /\ v + w \in Int /\ u + w <= v + w
    BY <2>1, <2>3
  <2> QED BY <2>4 DEF u, v, w
<1>3. ValueAt(line, a, short) = Cast(na) /\ ValueAt(line, b, short) = Cast(nb)
  BY DEF ValueAt
<1> HIDE DEF na, nb, d
<1> DEFINE qa == na \div d
           qb == nb \div d
<1>4. /\ qa \in Int /\ qb \in Int /\ qa * d <= na /\ na < (qa + 1) * d
      /\ qb * d <= nb /\ nb < (qb + 1) * d /\ qa * d \in Int /\ (qb + 1) * d \in Int
      /\ qb * d \in Int
  BY <1>1, <1>2, Division, Products
<1>5. nb % d = 0 => nb = qb * d
  BY <1>1, <1>2, Remainder
<1>6. Cast(na) = (IF short /\ na % d = 0 /\ na > 0 THEN qa - 1 ELSE qa)
      /\ Cast(nb) = (IF short /\ nb % d = 0 /\ nb > 0 THEN qb - 1 ELSE qb)
  OBVIOUS
<1> HIDE DEF qa, qb, Cast
<1>7. qa <= qb
  <2>1. qa * d < (qb + 1) * d
    BY <1>2, <1>4
  <2>2. qa < qb + 1
    BY <1>1, <1>4, <2>1, Multiply
  <2> QED BY <1>4, <2>2
<1>8. ASSUME na < nb, nb % d = 0 PROVE qa <= qb - 1
  <2>1. qa * d < qb * d
    BY <1>2, <1>4, <1>5, <1>8
  <2>2. qa < qb
    BY <1>1, <1>4, <2>1, Multiply
  <2> QED BY <1>4, <2>2
<1>9. Cast(na) \in Int /\ Cast(nb) \in Int
  BY <1>4, <1>6
<1>10. Cast(na) <= Cast(nb)
  <2>1. CASE na = nb
    <3>1. qa = qb
      BY <2>1 DEF qa, qb
    <3>2. Cast(na) = Cast(nb)
      BY <2>1
    <3> QED BY <1>9, <3>2
  <2>2. CASE na < nb
    BY <1>4, <1>6, <1>7, <1>8, <2>2
  <2> QED BY <1>2, <2>1, <2>2
<1> QED BY <1>3, <1>9, <1>10

LEMMA RootPredictMonotone ==
  ASSUME NEW line, Rising(line), NEW short \in BOOLEAN, NEW a \in Int, NEW b \in Int, a <= b
  PROVE  /\ RootPredict(line, a, short) \in 0..L1Size-1
         /\ RootPredict(line, b, short) \in 0..L1Size-1
         /\ RootPredict(line, a, short) <= RootPredict(line, b, short)
<1> DEFINE va == ValueAt(line, a, short)
           vb == ValueAt(line, b, short)
           top == L1Size - 1
<1>1. va \in Int /\ vb \in Int /\ va <= vb
  BY ValueMonotone
<1>2. top \in Nat /\ 0 \in Int
  BY L1SizeAssumption
<1>3. RootPredict(line, a, short) = Max({0, Min({top, va})})
      /\ RootPredict(line, b, short) = Max({0, Min({top, vb})})
  BY DEF RootPredict
<1> HIDE DEF va, vb, top
<1> DEFINE ma == Min({top, va})
           mb == Min({top, vb})
<1>4. ma = (IF top <= va THEN top ELSE va) /\ mb = (IF top <= vb THEN top ELSE vb)
  BY <1>1, <1>2, MinOfTwo
<1> HIDE DEF ma, mb
<1>5. ma \in Int /\ mb \in Int /\ ma <= mb /\ ma <= top /\ mb <= top
  BY <1>1, <1>2, <1>4
<1>6. Max({0, ma}) = (IF 0 >= ma THEN 0 ELSE ma) /\ Max({0, mb}) = (IF 0 >= mb THEN 0 ELSE mb)
  BY <1>2, <1>5, MaxOfTwo
<1>7. /\ Max({0, ma}) \in 0..top /\ Max({0, mb}) \in 0..top
      /\ Max({0, ma}) <= Max({0, mb})
  BY <1>2, <1>5, <1>6
<1> QED BY <1>3, <1>7 DEF ma, mb, top

LEMMA RootRises ==
  ASSUME NEW data, Sorted(data), data # <<>>
  PROVE  Rising(RootFor(data))
<1>1. data \in Seq(Entry) /\ 1 \in DOMAIN data /\ Len(data) \in DOMAIN data /\ 1 <= Len(data)
  BY DEF Sorted
<1> DEFINE lo == data[1].key
           hi == data[Len(data)].key
<1>2. lo \in Nat /\ hi \in Nat /\ lo <= hi
  BY <1>1, EntryType DEF Sorted
<1> HIDE DEF lo, hi
<1>3. RootFor(data) = IF lo = hi THEN LineThrough(0, 0, 0, 1)
                      ELSE LineThrough(lo, 0, L1Size - 1, hi - lo)
  BY DEF RootFor, lo, hi
<1>4. L1Size - 1 \in Nat
  BY L1SizeAssumption
<1> QED BY <1>2, <1>3, <1>4 DEF Rising, LineThrough
(* The binary search of the RMI within the array.                          *)
HalvedTo(a, b, lo, hi, k) ==
  /\ a \in lo..hi /\ b \in 0..hi-a
  /\ \A i \in lo..a-1 : rmi_data[i + 1].key < k
  /\ \A i \in a+b..hi-1 : ~ (rmi_data[i + 1].key < k)

LEMMA HalvedType ==
  ASSUME NEW a \in Nat, NEW b \in Nat, NEW k
  PROVE  Halved(a, b, k) \subseteq Nat \X Nat
<1> DEFINE half == b \div 2
<1>1. half \in Nat /\ (b # 0 => b - half - 1 \in Nat)
  OBVIOUS
<1>2. a \in Nat /\ 0 \in Nat /\ (a + half) + 1 \in Nat
  BY <1>1
<1> DEFINE isLess == IF a + half < Len(rmi_data) THEN {rmi_data[a + half + 1].key < k} ELSE BOOLEAN
<1>3. Halved(a, b, k) = IF b = 0 THEN {<<a, 0>>}
        ELSE {IF less THEN <<a + half + 1, b - half - 1>> ELSE <<a, half>> : less \in isLess}
  BY DEF Halved
<1> HIDE DEF half, isLess
<1>4. CASE b = 0
  BY <1>2, <1>3, <1>4
<1>5. CASE b # 0
  <2>1. \A less \in isLess :
          (IF less THEN <<a + half + 1, b - half - 1>> ELSE <<a, half>>) \in Nat \X Nat
    BY <1>1, <1>2, <1>5
  <2> QED BY <1>3, <1>5, <2>1
<1> QED BY <1>4, <1>5

LEMMA HalvedStep ==
  ASSUME Sorted(rmi_data), NEW k \in Int, NEW lo \in Nat, NEW hi \in Nat, hi <= Len(rmi_data),
         NEW a, NEW b, HalvedTo(a, b, lo, hi, k)
  PROVE  \E c, d : /\ Halved(a, b, k) = {<<c, d>>} /\ HalvedTo(c, d, lo, hi, k)
                   /\ d <= b /\ (b > 0 => d < b)
<1> DEFINE half == b \div 2
           mid == a + half
<1>1. a \in lo..hi /\ b \in 0..hi-a /\ a \in Nat /\ b \in Nat
  BY DEF HalvedTo
<1>2. Len(rmi_data) \in Nat /\ DOMAIN rmi_data = 1..Len(rmi_data)
      /\ (\A i \in DOMAIN rmi_data : rmi_data[i].key \in Nat)
      /\ (\A i, j \in DOMAIN rmi_data : i <= j => rmi_data[i].key <= rmi_data[j].key)
  BY EntryType DEF Sorted
<1>3. CASE b = 0
  <2>1. Halved(a, b, k) = {<<a, 0>>}
    BY <1>3 DEF Halved
  <2> QED BY <1>1, <1>3, <2>1
<1>4. CASE b # 0
  <2>1. half \in Nat /\ half < b /\ b - half - 1 \in Nat /\ b > 0
    BY <1>1, <1>4
  <2>2. mid \in Nat /\ mid < a + b /\ mid + 1 \in DOMAIN rmi_data /\ mid < Len(rmi_data)
    <3>1. a + half \in Nat /\ a + half < a + b
      BY <1>1, <2>1
    <3> HIDE DEF mid
    <3>2. mid \in Nat /\ mid < a + b
      BY <3>1 DEF mid
    <3>3. a + b <= hi
      BY <1>1
    <3>4. mid < Len(rmi_data)
      BY <1>1, <1>2, <3>2, <3>3
    <3> QED BY <1>2, <3>2, <3>4
  <2> DEFINE isLess == IF mid < Len(rmi_data) THEN {rmi_data[mid + 1].key < k} ELSE BOOLEAN
             Next2(less) == IF less THEN <<mid + 1, b - half - 1>> ELSE <<a, half>>
  <2>3. Halved(a, b, k) = {Next2(less) : less \in isLess}
    BY <1>4 DEF Halved
  <2>4. isLess = {rmi_data[mid + 1].key < k}
    BY <2>2
  <2> HIDE DEF half, mid, isLess
  <2>5. CASE rmi_data[mid + 1].key < k
    <3>1. isLess = {TRUE}
      BY <2>4, <2>5
    <3>2. Halved(a, b, k) = {<<mid + 1, b - half - 1>>}
      BY <2>3, <3>1
    <3>3. \A i \in lo..(mid + 1)-1 : rmi_data[i + 1].key < k
      <4> TAKE i \in lo..(mid + 1)-1
      <4>1. i \in Nat /\ i <= mid /\ i + 1 \in DOMAIN rmi_data /\ i + 1 <= mid + 1
        BY <1>2, <2>2
      <4>2. rmi_data[i + 1].key <= rmi_data[mid + 1].key
        BY <1>2, <2>2, <4>1
      <4> QED BY <1>2, <2>2, <2>5, <4>1, <4>2
    <3>4. mid = a + half
      BY DEF mid
    <3>5. (mid + 1) + (b - half - 1) = a + b
      BY <1>1, <2>1, <3>4
    <3>6. \A i \in (mid + 1)+(b - half - 1)..hi-1 : ~ (rmi_data[i + 1].key < k)
      BY <3>5 DEF HalvedTo
    <3>7. mid + 1 \in lo..hi /\ b - half - 1 \in 0..hi-(mid + 1)
      BY <1>1, <2>1, <2>2, <3>4
    <3>8. HalvedTo(mid + 1, b - half - 1, lo, hi, k)
      BY <3>3, <3>6, <3>7 DEF HalvedTo
    <3>9. b - half - 1 <= b /\ b - half - 1 < b
      BY <1>1, <2>1
    <3> QED BY <3>2, <3>8, <3>9
  <2>6. CASE ~ (rmi_data[mid + 1].key < k)
    <3>0. (rmi_data[mid + 1].key < k) = FALSE
      BY <2>6
    <3>1. isLess = {FALSE}
      BY <2>4, <3>0
    <3>2. Halved(a, b, k) = {<<a, half>>}
      BY <2>3, <3>1
    <3>3. ASSUME NEW i \in a+half..hi-1 PROVE ~ (rmi_data[i + 1].key < k)
      <4>1. mid = a + half
        BY DEF mid
      <4>2. i \in Nat /\ mid <= i /\ i + 1 \in DOMAIN rmi_data /\ mid + 1 <= i + 1
        BY <1>1, <1>2, <2>1, <2>2, <4>1
      <4>3. rmi_data[mid + 1].key <= rmi_data[i + 1].key
        BY <1>2, <2>2, <4>2
      <4> QED BY <1>2, <2>2, <2>6, <4>2, <4>3
    <3>4. half \in 0..hi-a
      BY <1>1, <2>1
    <3>5. HalvedTo(a, half, lo, hi, k)
      BY <1>1, <3>3, <3>4 DEF HalvedTo
    <3>6. half <= b /\ (b > 0 => half < b)
      BY <1>1, <2>1
    <3> QED BY <3>2, <3>5, <3>6
  <2> QED BY <2>5, <2>6
<1> QED BY <1>3, <1>4

LEMMA LowerBoundsExact ==
  ASSUME Sorted(rmi_data), NEW k \in Int, NEW lo \in Nat, NEW len \in Nat,
         lo + len <= Len(rmi_data)
  PROVE  \E p \in lo..lo+len : /\ LowerBounds(lo, len, k) = {p}
                               /\ \A i \in lo..lo+len-1 : rmi_data[i + 1].key < k <=> i < p
<1> DEFINE V == SUBSET (Nat \X Nat)
           Steps(v) == UNION {Halved(p[1], p[2], k) : p \in v}
           F == [p \in V \X (1..len) |-> Steps(p[1])]
           Equation(g) == g = [n \in 0..len |-> IF n = 0 THEN {<<lo, len>>} ELSE Steps(g[n - 1])]
           left == CHOOSE g : Equation(g)
           hi == lo + len
<1>1. hi \in Nat /\ hi <= Len(rmi_data) /\ len \in Int /\ 0 <= len
  OBVIOUS
<1>2. LowerBounds(lo, len, k) = {p[1] : p \in left[len]}
  BY DEF LowerBounds
<1>3. \A v \in V : Steps(v) \in V
  <2> TAKE v \in V
  <2>1. \A p \in v : p[1] \in Nat /\ p[2] \in Nat
    OBVIOUS
  <2>2. \A p \in v : Halved(p[1], p[2], k) \subseteq Nat \X Nat
    BY <2>1, HalvedType
  <2> QED BY <2>2
<1>4. {<<lo, len>>} \in V
  OBVIOUS
<1> HIDE DEF V, Steps, hi
<1>5. PICK f \in [0..len -> V] : Follows(f, F, {<<lo, len>>}, 0, len)
  <2>1. F \in [V \X (1..len) -> V]
    BY <1>3
  <2>2. 0 \in Int /\ 1..len = 0+1..len
    OBVIOUS
  <2> HIDE DEF F
  <2> QED BY ONLY <1>1, <1>4, <2>1, <2>2, Iteration
<1>6. f[0] = {<<lo, len>>} /\ \A n \in 1..len : f[n] = Steps(f[n - 1])
  <2>1. f[0] = {<<lo, len>>} /\ \A n \in 0+1..len : f[n] = F[<<f[n - 1], n>>]
    BY <1>5 DEF Follows
  <2>2. \A n \in 1..len : n \in 0+1..len /\ n - 1 \in 0..len
    OBVIOUS
  <2>3. ASSUME NEW n \in 1..len PROVE F[<<f[n - 1], n>>] = Steps(f[n - 1])
    <3> DEFINE v == f[n - 1]
    <3>1. v \in V
      BY <2>2
    <3> HIDE DEF v
    <3>2. F[<<v, n>>] = Steps(v)
      BY <3>1
    <3> QED BY <3>2 DEF v
  <2> HIDE DEF F
  <2> QED BY <2>1, <2>2, <2>3
<1>7. Equation(f)
  <2>1. \A n \in 0..len : f[n] = IF n = 0 THEN {<<lo, len>>} ELSE Steps(f[n - 1])
    BY <1>6
  <2> QED BY <2>1
<1>8. Equation(left)
  <2> HIDE DEF Equation
  <2> QED BY <1>7
<1> HIDE DEF left
<1>9. left[0] = {<<lo, len>>} /\ \A n \in 1..len : left[n] = Steps(left[n - 1])
  <2>1. \A n \in 0..len : left[n] = IF n = 0 THEN {<<lo, len>>} ELSE Steps(left[n - 1])
    BY <1>8
  <2>2. 0 \in 0..len /\ \A n \in 1..len : n \in 0..len /\ n # 0
    OBVIOUS
  <2> QED BY <2>1, <2>2
<1> DEFINE Good(n) == \E a, b : /\ left[n] = {<<a, b>>} /\ HalvedTo(a, b, lo, hi, k)
                                /\ b <= len - n
           T == {n \in 0..len : Good(n)}
<1>10. 0 \in T
  <2>1. HalvedTo(lo, len, lo, hi, k)
    BY <1>1 DEF HalvedTo, hi
  <2>2. len <= len - 0 /\ 0 \in 0..len
    OBVIOUS
  <2> QED BY <1>9, <2>1, <2>2
<1>11. ASSUME NEW n \in 0+1..len, n - 1 \in T PROVE n \in T
  <2>1. PICK a, b : left[n - 1] = {<<a, b>>} /\ HalvedTo(a, b, lo, hi, k) /\ b <= len - (n - 1)
    BY <1>11
  <2>2. PICK c, d : /\ Halved(a, b, k) = {<<c, d>>} /\ HalvedTo(c, d, lo, hi, k)
                    /\ d <= b /\ (b > 0 => d < b)
    BY <1>1, <2>1, HalvedStep
  <2>3. b \in Nat /\ d \in Nat
    <3>1. /\ a \in lo..hi /\ b \in 0..hi-a
          /\ c \in lo..hi /\ d \in 0..hi-c
      BY <2>1, <2>2 DEF HalvedTo
    <3> QED BY <1>1, <3>1
  <2>4. Steps({<<a, b>>}) = Halved(a, b, k)
    BY DEF Steps
  <2>5. n \in 1..len /\ n \in 0..len
    OBVIOUS
  <2>6. left[n] = {<<c, d>>}
    BY <1>9, <2>1, <2>2, <2>4, <2>5
  <2>7. d <= len - n
    BY <2>1, <2>2, <2>3, <2>5
  <2> QED BY <2>2, <2>5, <2>6, <2>7
<1>12. 0..len \subseteq T
  <2>1. 0 \in Int
    OBVIOUS
  <2> HIDE DEF T
  <2> QED BY ONLY <1>1, <1>10, <1>11, <2>1, IntervalInduction
<1>13. len \in T
  <2>1. len \in 0..len
    OBVIOUS
  <2> HIDE DEF T
  <2> QED BY <1>12, <2>1
<1>14. PICK p, b : left[len] = {<<p, b>>} /\ HalvedTo(p, b, lo, hi, k) /\ b <= len - len
  BY <1>13
<1>15. p \in lo..hi /\ b = 0
  <2>1. p \in lo..hi /\ b \in 0..hi-p
    BY <1>14 DEF HalvedTo
  <2> QED BY <1>1, <1>14, <2>1
<1>16. LowerBounds(lo, len, k) = {p}
  BY <1>2, <1>14
<1>17. ASSUME NEW i \in lo..hi-1 PROVE rmi_data[i + 1].key < k <=> i < p
  <2>1. CASE i < p
    <3>1. i \in lo..p-1
      BY <1>1, <1>15, <2>1
    <3> QED BY <1>14, <2>1, <3>1 DEF HalvedTo
  <2>2. CASE ~ (i < p)
    <3>1. i \in p+b..hi-1
      BY <1>1, <1>15, <2>2
    <3> QED BY <1>14, <2>2, <3>1 DEF HalvedTo
  <2> QED BY <2>1, <2>2
<1>18. lo..lo+len-1 = lo..hi-1 /\ lo..lo+len = lo..hi
  BY DEF hi
<1> QED BY <1>15, <1>16, <1>17, <1>18
(* A leaf model of the RMI: its error bounds that of every first place.    *)
WellTrained(leaf, data, start, count, short) ==
  /\ leaf.start = start /\ leaf.count = count
  /\ Rising(leaf.line) /\ leaf.max_err \in Nat
  /\ \A i \in start..start+count-1 :
       (\A q \in 1..i : data[q].key < data[i + 1].key) =>
         LET v == ValueAt(leaf.line, data[i + 1].key, short)
         IN /\ v <= i + leaf.max_err
            /\ i - leaf.max_err <= v \/ i - leaf.max_err <= start

LEMMA TrainedFacts ==
  ASSUME NEW data, Sorted(data), NEW start \in Nat, NEW count \in Nat \ {0},
         start + count <= Len(data), NEW short \in BOOLEAN
  PROVE  WellTrained(Trained(data, start, count, short), data, start, count, short)
<1> DEFINE leaf == Trained(data, start, count, short)
           lo == data[start + 1].key
           hi == data[start + count].key
           line == IF count = 0 \/ lo = hi THEN LineThrough(0, start, 0, 1)
                   ELSE LineThrough(lo, start, count - 1, hi - lo)
           Guess(i) == Max({0, ValueAt(line, data[i + 1].key, short)})
           Err(i) == IF Guess(i) > i THEN Guess(i) - i ELSE i - Guess(i)
           errors == {Err(i) : i \in start..start + count - 1}
           max_err == IF count = 0 \/ lo = hi THEN 0 ELSE Max(errors)
<1>1. /\ Len(data) \in Nat /\ DOMAIN data = 1..Len(data)
      /\ (\A i \in DOMAIN data : data[i].key \in Nat)
      /\ (\A i, j \in DOMAIN data : i <= j => data[i].key <= data[j].key)
  BY EntryType DEF Sorted
<1>2. leaf = [start |-> start, count |-> count, line |-> line, max_err |-> max_err]
  BY DEF Trained
<1>3. leaf.start = start /\ leaf.count = count /\ leaf.line = line /\ leaf.max_err = max_err
  <2> HIDE DEF leaf, line, max_err
  <2> QED BY <1>2
<1> HIDE DEF leaf
<1>4. \A i \in start..start+count-1 :
        /\ i \in Nat /\ i + 1 \in DOMAIN data /\ data[i + 1].key \in Nat
        /\ lo <= data[i + 1].key /\ data[i + 1].key <= hi
  <2> TAKE i \in start..start+count-1
  <2>1. /\ i \in Nat /\ i + 1 \in DOMAIN data /\ start + 1 \in DOMAIN data
        /\ start + count \in DOMAIN data /\ start + 1 <= i + 1 /\ i + 1 <= start + count
    BY <1>1
  <2> QED BY <1>1, <2>1
<1>5. lo \in Nat /\ hi \in Nat /\ lo <= hi /\ start + 1 \in DOMAIN data
  <2>1. start + 1 \in DOMAIN data /\ start + count \in DOMAIN data /\ start + 1 <= start + count
    BY <1>1
  <2> QED BY <1>1, <2>1
<1> HIDE DEF hi
<1>6. CASE lo = hi
  <2>1. line = LineThrough(0, start, 0, 1) /\ max_err = 0
    BY <1>6
  <2>2. Rising(line)
    BY <2>1 DEF Rising, LineThrough
  <2> HIDE DEF line, max_err
  <2>3. ASSUME NEW i \in start..start+count-1, \A q \in 1..i : data[q].key < data[i + 1].key
        PROVE  LET v == ValueAt(line, data[i + 1].key, short)
               IN v <= i + max_err /\ (i - max_err <= v \/ i - max_err <= start)
    <3> DEFINE v == ValueAt(line, data[i + 1].key, short)
    <3>1. i \in Nat /\ data[i + 1].key \in Nat /\ data[i + 1].key = lo
      BY <1>4, <1>5, <1>6
    <3>2. i = start
      <4>1. SUFFICES ASSUME start < i PROVE FALSE
        BY <3>1
      <4>2. start + 1 \in 1..i
        BY <3>1, <4>1
      <4>3. data[start + 1].key < data[i + 1].key
        BY <2>3, <4>2
      <4> QED BY <1>5, <3>1, <4>3
    <3>3. v <= start
      <4> DEFINE num == 0 * (data[i + 1].key - 0) + start * 1
      <4>1. num = start
        BY <3>1
      <4>2. v = IF short /\ num % 1 = 0 /\ num > 0 THEN num \div 1 - 1 ELSE num \div 1
        BY <2>1 DEF ValueAt, LineThrough
      <4>3. start \div 1 = start
        OBVIOUS
      <4> HIDE DEF num, v
      <4> QED BY <4>1, <4>2, <4>3
    <3> QED BY <2>1, <3>2, <3>3, ValueMonotone
  <2>4. max_err \in Nat
    BY <2>1
  <2> QED BY <1>3, <2>2, <2>3, <2>4 DEF leaf, WellTrained
<1>7. CASE lo # hi
  <2>1. line = LineThrough(lo, start, count - 1, hi - lo) /\ max_err = Max(errors)
    BY <1>7
  <2>2. Rising(line)
    <3>1. hi - lo \in Nat \ {0} /\ count - 1 \in Nat
      BY <1>5, <1>7
    <3> QED BY <1>5, <2>1, <3>1 DEF Rising, LineThrough
  <2> DEFINE top == ValueAt(line, hi, short)
             bound == (IF top > 0 THEN top ELSE 0) + start + count
  <2> HIDE DEF line, lo
  <2>3. top \in Int /\ bound \in Nat
    <3>1. top \in Int
      BY <1>5, <2>2, ValueMonotone
    <3> HIDE DEF top
    <3> QED BY <3>1
  <2>4. ASSUME NEW i \in start..start+count-1
        PROVE  LET v == ValueAt(line, data[i + 1].key, short)
               IN /\ v \in Int /\ Guess(i) = (IF v > 0 THEN v ELSE 0) /\ Err(i) \in 0..bound
    <3> DEFINE v == ValueAt(line, data[i + 1].key, short)
    <3>1. i \in Nat /\ data[i + 1].key \in Int /\ data[i + 1].key <= hi /\ hi \in Int
      BY <1>4, <1>5
    <3>2. v \in Int /\ v <= top
      BY <2>2, <3>1, ValueMonotone
    <3>3. Guess(i) = IF 0 >= v THEN 0 ELSE v
      <4> HIDE DEF v
      <4>1. Max({0, v}) = IF 0 >= v THEN 0 ELSE v
        BY <3>2, MaxOfTwo
      <4> QED BY <4>1 DEF v
    <3> HIDE DEF v, top, Guess
    <3>4. Guess(i) = (IF v > 0 THEN v ELSE 0)
      BY <3>2, <3>3
    <3>5. Err(i) \in 0..bound
      BY <2>3, <3>1, <3>2, <3>4
    <3> QED BY <3>2, <3>4, <3>5 DEF v
  <2> HIDE DEF bound, top
  <2>5. errors \subseteq 0..bound /\ errors # {}
    <3>1. start \in start..start+count-1
      OBVIOUS
    <3>2. \A i \in start..start+count-1 : Err(i) \in 0..bound
      BY <2>4
    <3> HIDE DEF Err
    <3> QED BY <3>1, <3>2
  <2> HIDE DEF errors
  <2> HIDE DEF max_err
  <2>6. max_err \in errors /\ \A e \in errors : e <= max_err
    <3>1. 0 \in Int /\ bound \in Int
      BY <2>3
    <3>2. Max(errors) \in errors /\ \A e \in errors : e <= Max(errors)
      BY ONLY <2>5, <3>1, MaxOfInterval
    <3> QED BY <2>1, <3>2
  <2>7. max_err \in Nat
    BY <2>3, <2>5, <2>6
  <2>8. ASSUME NEW i \in start..start+count-1
        PROVE  LET v == ValueAt(line, data[i + 1].key, short)
               IN v <= i + max_err /\ (i - max_err <= v \/ i - max_err <= start)
    <3> DEFINE v == ValueAt(line, data[i + 1].key, short)
    <3>5. v \in Int /\ Guess(i) = (IF v > 0 THEN v ELSE 0)
      BY ONLY <2>4, i \in start..start+count-1
    <3>1. v \in Int /\ Guess(i) = (IF v > 0 THEN v ELSE 0) /\ i \in Nat
      BY <1>4, <3>5
    <3> HIDE DEF v, Guess
    <3>2. Err(i) \in errors
      BY DEF errors
    <3>3. Err(i) <= max_err
      <4> HIDE DEF Err
      <4> QED BY <2>6, <3>2
    <3>4. v <= i + max_err /\ (i - max_err <= v \/ i - max_err <= start)
      BY <2>7, <3>1, <3>3
    <3> QED BY <3>4 DEF v
  <2> QED BY <1>3, <2>2, <2>7, <2>8 DEF leaf, WellTrained
<1> QED BY <1>6, <1>7
(* The places whose keys the root sends to leaves before l.                *)
LeafStart(data, root, short, l) ==
  Cardinality({i \in DOMAIN data : RootPredict(root, data[i].key, short) < l})

LEMMA LeafStarts ==
  ASSUME NEW data, Sorted(data), NEW root, Rising(root), NEW short \in BOOLEAN, NEW l \in Int
  PROVE  /\ LeafStart(data, root, short, l) \in 0..Len(data)
         /\ \A i \in DOMAIN data :
              RootPredict(root, data[i].key, short) < l <=> i <= LeafStart(data, root, short, l)
<1> DEFINE D == {i \in DOMAIN data : RootPredict(root, data[i].key, short) < l}
           n == Len(data)
<1>1. /\ n \in Nat /\ DOMAIN data = 1..n
      /\ (\A i \in DOMAIN data : data[i].key \in Nat)
      /\ (\A i, j \in DOMAIN data : i <= j => data[i].key <= data[j].key)
  BY EntryType DEF Sorted
<1>2. D \subseteq 1..n
  BY <1>1
<1>3. ASSUME NEW i \in 1..n, NEW j \in 1..n, i <= j /\ j \in D PROVE i \in D
  <2>1. data[i].key \in Int /\ data[j].key \in Int /\ data[i].key <= data[j].key
    BY <1>1, <1>3
  <2>2. /\ RootPredict(root, data[i].key, short) \in 0..L1Size-1
        /\ RootPredict(root, data[j].key, short) \in 0..L1Size-1
        /\ RootPredict(root, data[i].key, short) <= RootPredict(root, data[j].key, short)
    BY <2>1, RootPredictMonotone
  <2>3. RootPredict(root, data[j].key, short) < l
    BY <1>3
  <2>4. RootPredict(root, data[i].key, short) < l
    BY <2>2, <2>3, L1SizeAssumption
  <2> QED BY <1>1, <2>4
<1>4. \A i \in DOMAIN data : i \in D <=> RootPredict(root, data[i].key, short) < l
  OBVIOUS
<1>5. LeafStart(data, root, short, l) = Cardinality(D)
  BY DEF LeafStart
<1> HIDE DEF D
<1>6. Cardinality(D) \in 0..n /\ \A i \in 1..n : i \in D <=> i <= Cardinality(D)
  BY <1>1, <1>2, <1>3, FirstPlaces
<1> QED BY <1>1, <1>4, <1>5, <1>6

LEMMA RmiFinds ==
  ASSUME Sorted(rmi_data), rmi_short \in BOOLEAN, rmi_n = Len(rmi_data),
         rmi_data # <<>> => /\ rmi_root = RootFor(rmi_data)
                            /\ rmi_leaves = LeavesOf(rmi_data, rmi_root, rmi_short),
         NEW k \in Nat
  PROVE  RmiLookup(k) = {IF k \in KeysOf(rmi_data) THEN "found" ELSE "miss"}
<1> DEFINE n == Len(rmi_data)
           b == RootPredict(rmi_root, k, rmi_short)
           start == LeafStart(rmi_data, rmi_root, rmi_short, b)
           end == LeafStart(rmi_data, rmi_root, rmi_short, b + 1)
           count == end - start
           place == LowerBoundOf(rmi_data, k)
<1>1. /\ n \in Nat /\ DOMAIN rmi_data = 1..n /\ rmi_data \in Seq(Entry)
      /\ (\A i \in DOMAIN rmi_data : rmi_data[i].key \in Nat)
      /\ (\A i, j \in DOMAIN rmi_data : i <= j => rmi_data[i].key <= rmi_data[j].key)
  BY EntryType DEF Sorted
<1>2. CASE rmi_data = <<>>
  <2>1. rmi_n = 0 /\ KeysOf(rmi_data) = {}
    BY <1>2, NoEntries
  <2>2. RmiLookup(k) = {"miss"}
    BY <2>1 DEF RmiLookup
  <2> QED BY <2>1, <2>2
<1>3. CASE rmi_data # <<>>
  <2>1. n \in Nat \ {0} /\ Rising(rmi_root) /\ L1Size \in Nat \ {0} /\ k \in Int
    BY <1>1, <1>3, RootRises, L1SizeAssumption
  <2>2. b \in 0..L1Size-1
    BY <2>1, RootPredictMonotone
  <2>3. start \in 0..n /\ end \in 0..n
        /\ (\A i \in 1..n : RootPredict(rmi_root, rmi_data[i].key, rmi_short) < b <=> i <= start)
        /\ (\A i \in 1..n : RootPredict(rmi_root, rmi_data[i].key, rmi_short) < b + 1 <=> i <= end)
    <3>1. b \in Int /\ b + 1 \in Int
      BY <2>1, <2>2
    <3> HIDE DEF b
    <3> QED BY <1>1, <2>1, <3>1, LeafStarts
  <2>4. rmi_leaves[b] = Trained(rmi_data, start, count, rmi_short) /\ rmi_leaves # <<>>
    <3> DEFINE S(l) == Cardinality({i \in DOMAIN rmi_data :
                                     RootPredict(rmi_root, rmi_data[i].key, rmi_short) < l})
               g == [l \in 0..L1Size-1 |->
                       Trained(rmi_data, S(l), S(l + 1) - S(l), rmi_short)]
    <3>1. rmi_leaves = g
      BY <1>3 DEF LeavesOf
    <3>2. start = S(b) /\ end = S(b + 1)
      BY DEF LeafStart
    <3> HIDE DEF S, b
    <3>3. g[b] = Trained(rmi_data, S(b), S(b + 1) - S(b), rmi_short)
      BY <2>2
    <3>4. 0 \in DOMAIN g /\ ~ (0 \in DOMAIN <<>>)
      BY <2>1
    <3> HIDE DEF g
    <3>5. g # <<>>
      BY <3>4
    <3> HIDE DEF start, end
    <3> QED BY <3>1, <3>2, <3>3, <3>5
  <2> HIDE DEF b, start, end, n
  <2>5. count \in Int /\ (count >= 0 => count \in Nat)
    BY <1>1, <2>3
  (* Where the key is, the leaf is not empty.                              *)
  <2>6. place \in 0..n /\ \A i \in 1..n : rmi_data[i].key < k <=> i <= place
    BY <1>1, <2>1, LowerBoundExact DEF n
  <2> HIDE DEF place
  <2>7. k \in KeysOf(rmi_data) <=> place + 1 \in 1..n /\ rmi_data[place + 1].key = k
    <3>1. ASSUME NEW i \in 1..n, rmi_data[i].key = k
          PROVE  place + 1 \in 1..n /\ rmi_data[place + 1].key = k
      <4>1. ~ (i <= place)
        BY <2>6, <3>1
      <4>2. place + 1 \in 1..n /\ place + 1 <= i /\ ~ (place + 1 <= place)
        BY <1>1, <2>6, <4>1
      <4>3. ~ (rmi_data[place + 1].key < k) /\ rmi_data[place + 1].key <= k
        BY <1>1, <2>6, <3>1, <4>2
      <4> QED BY <1>1, <4>2, <4>3
    <3> QED BY <1>1, <3>1 DEF KeysOf
  <2>8. k \in KeysOf(rmi_data) => start <= place /\ place < end
    <3>1. SUFFICES ASSUME k \in KeysOf(rmi_data) PROVE start <= place /\ place < end
      OBVIOUS
    <3>2. place + 1 \in 1..n /\ RootPredict(rmi_root, rmi_data[place + 1].key, rmi_short) = b
      BY <2>7, <3>1 DEF b
    <3>3. b \in Int
      BY <2>1, <2>2
    <3>4. ~ (place + 1 <= start) /\ place + 1 <= end
      BY <2>3, <3>2, <3>3
    <3> QED BY <1>1, <2>3, <2>6, <3>4
  <2>9. RmiLookup(k) =
          LET leaf == rmi_leaves[b]
              pred == LeafPredict(leaf, k, n)
              err == leaf.max_err + 1
              lo == IF pred > err THEN pred - err ELSE 0
              hi == Min({pred + err + 1, n})
              At(i) == IF i = hi THEN "miss"
                       ELSE IF i >= n THEN "garbage"
                       ELSE IF rmi_data[i + 1].key = k THEN "found" ELSE "miss"
          IN IF leaf.count = 0 THEN {"miss"} ELSE {At(i) : i \in LowerBounds(lo, hi - lo, k)}
    <3>1. rmi_n = n /\ rmi_n # 0
      BY <2>1 DEF n
    <3> QED BY <2>4, <3>1 DEF RmiLookup, b, n
  <2>10. CASE count <= 0
    <3>1. k \notin KeysOf(rmi_data)
      BY <1>1, <2>3, <2>6, <2>8, <2>10
    <3>2. count = 0
      <4>1. start <= end
        <5>1. SUFFICES ASSUME start > end PROVE FALSE
          BY <1>1, <2>3
        <5>2. start \in 1..n /\ ~ (start <= end) /\ start <= start
          BY <1>1, <2>3, <5>1
        <5>3. /\ RootPredict(rmi_root, rmi_data[start].key, rmi_short) < b
              /\ ~ (RootPredict(rmi_root, rmi_data[start].key, rmi_short) < b + 1)
          BY <2>3, <5>2
        <5>4. RootPredict(rmi_root, rmi_data[start].key, rmi_short) \in 0..L1Size-1
          <6>1. rmi_data[start].key \in Int
            BY <1>1, <5>2
          <6> QED BY <2>1, <6>1, RootPredictMonotone
        <5> QED BY <2>1, <2>2, <5>3, <5>4
      <4> QED BY <1>1, <2>3, <2>10, <4>1
    <3>3. rmi_leaves[b].count = 0
      <4> HIDE DEF count
      <4> QED BY <2>4, <3>2 DEF Trained
    <3>4. RmiLookup(k) = {"miss"}
      BY <2>9, <3>3
    <3> QED BY <3>1, <3>4
  <2>11. CASE count >= 1
    <3> DEFINE leaf == rmi_leaves[b]
               v == ValueAt(leaf.line, k, rmi_short)
               pred == LeafPredict(leaf, k, n)
               err == leaf.max_err + 1
               lo == IF pred > err THEN pred - err ELSE 0
               hi == Min({pred + err + 1, n})
               At(i) == IF i = hi THEN "miss"
                        ELSE IF i >= n THEN "garbage"
                        ELSE IF rmi_data[i + 1].key = k THEN "found" ELSE "miss"
    <3>1. start \in Nat /\ count \in Nat \ {0} /\ start + count = end /\ start + count <= n
          /\ end \in 1..n
      BY <1>1, <2>3, <2>5, <2>11
    <3> HIDE DEF count
    <3>14. WellTrained(leaf, rmi_data, start, count, rmi_short)
      <4>1. start + count <= Len(rmi_data)
        BY <3>1 DEF n
      <4> QED BY <2>4, <3>1, <4>1, TrainedFacts
    <3>2. /\ leaf.start = start /\ leaf.count = count /\ Rising(leaf.line)
          /\ leaf.max_err \in Nat
          /\ \A i \in start..start+count-1 :
               (\A q \in 1..i : rmi_data[q].key < rmi_data[i + 1].key) =>
                 LET w == ValueAt(leaf.line, rmi_data[i + 1].key, rmi_short)
                 IN /\ w <= i + leaf.max_err
                    /\ i - leaf.max_err <= w \/ i - leaf.max_err <= start
      <4> HIDE DEF leaf
      <4> QED BY <3>14 DEF WellTrained
    <3>3. v \in Int
      BY <2>1, <3>2, ValueMonotone
    <3>4. pred = Min({n - 1, (start + count) - 1, Max({start, v})})
      <4>1. start + (count - 1) = (start + count) - 1
        BY <3>1
      <4>2. pred = Min({n - 1, leaf.start + (leaf.count - 1), Max({leaf.start, v})})
        BY DEF LeafPredict
      <4> HIDE DEF leaf, v, pred
      <4> QED BY <3>2, <4>1, <4>2
    <3> HIDE DEF leaf, v, pred
    <3>5. /\ pred \in 0..n-1 /\ pred <= (start + count) - 1
          /\ pred = (start + count) - 1 \/ (pred >= start /\ pred >= v)
          /\ pred <= start \/ pred <= v
      <4> DEFINE m == Max({start, v})
                 c == (start + count) - 1
      <4>1. m = IF start >= v THEN start ELSE v
        BY <3>1, <3>3, MaxOfTwo
      <4>2. c \in 0..n-1 /\ n - 1 \in Int /\ start <= c
        BY <1>1, <2>1, <3>1
      <4> HIDE DEF m, c
      <4>3. m \in Nat /\ m >= start /\ m >= v /\ (m <= start \/ m <= v)
        BY <3>1, <3>3, <4>1
      <4> DEFINE S == {n - 1, c, m}
      <4>4. S \subseteq 0..m+n /\ S # {} /\ 0 \in Int /\ m + n \in Int
        BY <1>1, <4>2, <4>3
      <4>5. Min(S) \in S /\ \A y \in S : Min(S) <= y
        <5> HIDE DEF S
        <5> QED BY ONLY <4>4, MinOfInterval
      <4>6. pred = Min(S)
        BY <3>4 DEF m, c
      <4>7. pred \in {n - 1, c, m} /\ pred <= n - 1 /\ pred <= c /\ pred <= m
        BY <4>5, <4>6
      <4> HIDE DEF S
      <4>8. pred = c \/ (pred >= start /\ pred >= v)
        BY <1>1, <4>2, <4>3, <4>7
      <4>9. pred <= start \/ pred <= v
        BY <1>1, <3>1, <3>3, <4>2, <4>3, <4>7
      <4>10. pred \in 0..n-1
        BY <1>1, <2>1, <4>2, <4>3, <4>7
      <4> QED BY <4>7, <4>8, <4>9, <4>10 DEF c
    <3>6. err \in Nat \ {0}
      BY <3>2
    <3> HIDE DEF err
    <3>7. hi = IF pred + err + 1 <= n THEN pred + err + 1 ELSE n
      BY <1>1, <3>5, <3>6, MinOfTwo
    <3> HIDE DEF hi
    <3>8. lo \in Nat /\ hi \in Nat /\ hi <= n /\ lo < hi /\ hi - lo \in Nat
          /\ lo + (hi - lo) = hi
      <4>1. lo \in Nat /\ lo <= pred
        BY <3>5, <3>6
      <4> HIDE DEF lo
      <4>2. hi \in Nat /\ hi <= n /\ pred < hi /\ pred \in Nat
        BY ONLY <1>1, <3>5, <3>6, <3>7
      <4> QED BY ONLY <4>1, <4>2
    <3> HIDE DEF lo
    <3>9. PICK p \in lo..lo+(hi - lo) :
            /\ LowerBounds(lo, hi - lo, k) = {p}
            /\ \A i \in lo..lo+(hi - lo)-1 : rmi_data[i + 1].key < k <=> i < p
      <4>1. lo + (hi - lo) <= Len(rmi_data)
        BY <3>8 DEF n
      <4> QED BY <2>1, <3>8, <4>1, LowerBoundsExact
    <3>10. p \in lo..hi /\ \A i \in lo..hi-1 : rmi_data[i + 1].key < k <=> i < p
      <4>1. lo + (hi - lo) - 1 = hi - 1 /\ lo + (hi - lo) = hi
        BY <3>8
      <4> QED BY ONLY <3>9, <4>1
    <3>11. RmiLookup(k) = {At(p)}
      <4>1. leaf.count # 0
        BY <3>1, <3>2
      <4>2. RmiLookup(k) = {At(i) : i \in LowerBounds(lo, hi - lo, k)}
        BY <2>9, <4>1 DEF leaf, pred, err, lo, hi
      <4> QED BY <3>9, <4>2
    <3>12. CASE k \in KeysOf(rmi_data)
      <4>1. /\ start <= place /\ place < end /\ place + 1 \in 1..n
            /\ rmi_data[place + 1].key = k /\ place \in Nat
        BY <1>1, <2>6, <2>7, <2>8, <3>12
      <4>2. v <= place + leaf.max_err
            /\ (place - leaf.max_err <= v \/ place - leaf.max_err <= start)
        <5>1. place \in start..start+count-1
          BY <3>1, <4>1
        <5>2. \A q \in 1..place : rmi_data[q].key < rmi_data[place + 1].key
          <6> TAKE q \in 1..place
          <6>1. q \in 1..n /\ q <= place
            BY <1>1, <4>1
          <6> QED BY <2>6, <4>1, <6>1
        <5> QED BY <3>2, <4>1, <5>1, <5>2 DEF v
      <4>3. err = leaf.max_err + 1 /\ leaf.max_err \in Nat
        BY <3>2 DEF err
      <4> DEFINE slack == leaf.max_err
      <4>4. slack \in Nat /\ err = slack + 1
        BY <4>3
      <4>5. lo <= place /\ place < hi
        <5>1. /\ n \in Nat /\ start \in Nat /\ end \in Nat /\ count \in Nat
              /\ place \in Nat /\ start <= place /\ place < end
              /\ place <= (start + count) - 1 /\ end <= n
          BY <1>1, <3>1, <4>1
        <5>2. v \in Int /\ v <= place + slack
              /\ (place - slack <= v \/ place - slack <= start)
          BY <3>3, <4>2
        <5> HIDE DEF slack
        <5>3. pred <= place + slack
          BY ONLY <3>5, <4>4, <5>1, <5>2
        <5>4. place - slack <= pred
          BY ONLY <3>5, <4>4, <5>1, <5>2
        <5>5. lo <= place
          BY ONLY <3>5, <4>4, <5>1, <5>3 DEF lo
        <5>6. place < hi
          BY ONLY <3>5, <3>7, <4>4, <5>1, <5>4
        <5> QED BY <5>5, <5>6
      <4>6. p = place
        <5>1. ~ (place < p)
          <6>1. ~ (rmi_data[place + 1].key < k) /\ place \in lo..hi-1
            BY <3>8, <4>1, <4>5
          <6> QED BY <3>10, <6>1
        <5>2. ~ (p < place)
          <6>1. SUFFICES ASSUME p < place PROVE FALSE
            OBVIOUS
          <6>2. p \in lo..hi-1 /\ p + 1 \in 1..n /\ p + 1 <= place /\ ~ (p < p)
            BY <1>1, <3>8, <3>10, <4>1, <4>5, <6>1
          <6>3. rmi_data[p + 1].key < k
            BY <2>6, <6>2
          <6> QED BY <3>10, <6>2, <6>3
        <5> QED BY <3>8, <3>10, <4>1, <5>1, <5>2
      <4>7. At(p) = "found"
        <5>1. p # hi /\ ~ (p >= n) /\ rmi_data[p + 1].key = k
          BY <1>1, <3>8, <4>1, <4>5, <4>6
        <5> QED BY <5>1
      <4> QED BY <3>11, <3>12, <4>7
    <3>13. CASE k \notin KeysOf(rmi_data)
      <4>1. At(p) = "miss"
        <5>1. CASE p = hi
          BY <5>1
        <5>2. CASE p # hi
          <6>1. p + 1 \in 1..n /\ ~ (p >= n)
            BY <1>1, <3>8, <3>10, <5>2
          <6>2. rmi_data[p + 1].key # k
            BY <1>1, <3>13, <6>1 DEF KeysOf
          <6> QED BY <5>2, <6>1, <6>2
        <5> QED BY <5>1, <5>2
      <4> QED BY <3>11, <3>13, <4>1
    <3> QED BY <3>12, <3>13
  <2> QED BY <2>5, <2>10, <2>11
<1> QED BY <1>2, <1>3
-----------------------------------------------------------------------------
(* The invariant, by index.  The tree has the leaves of a bulk load, or    *)
(* one leaf that grew; its levels are those over its leaves.               *)
BtInv ==
  /\ bt_leaves \in Seq(Seq(Entry)) /\ Sorted(BtStored)
  /\ bt_leaves = LeavesFor(BtStored) \/ (Len(bt_leaves) = 1 /\ Len(BtStored) \in 1..Order)
  /\ bt_levels = LevelsFor(bt_leaves)
  /\ bt_pending \in Seq(Entry) /\ Len(bt_pending) < Order * FlushFactor
  /\ bt_leaves = <<>> => bt_pending = <<>>
  /\ bt_n = Len(BtStored) + Len(bt_pending)
  /\ bt_height \in {Len(bt_levels), Len(bt_levels) + 1}

LEMMA BtLeafed ==
  ASSUME BtInv
  PROVE  /\ Leafed(bt_leaves) /\ Spread(BtStored, bt_leaves)
         /\ \A j \in DOMAIN bt_leaves : Len(bt_leaves[j]) \in 1..Order
<1>1. bt_leaves \in Seq(Seq(Entry)) /\ Sorted(BtStored)
  BY DEF BtInv
<1>2. CASE bt_leaves = LeavesFor(BtStored)
  <2> DEFINE s == BtStored
  <2>1. bt_leaves = LeavesFor(s) /\ Sorted(s)
    BY <1>1, <1>2
  <2> HIDE DEF s
  <2>2. Leafed(bt_leaves) /\ Spread(s, bt_leaves)
        /\ (\A j \in DOMAIN bt_leaves : Len(bt_leaves[j]) \in 1..Order)
    BY <2>1, ChunksLeafed
  <2> QED BY <2>2 DEF s
<1>3. CASE Len(bt_leaves) = 1 /\ Len(BtStored) \in 1..Order
  <2> DEFINE leaf == bt_leaves[1]
  <2>1. bt_leaves = <<leaf>> /\ leaf \in Seq(Entry)
    BY <1>1, <1>3
  <2> HIDE DEF leaf
  <2>2. BtStored = leaf
    BY <2>1, FlattenOne DEF BtStored
  <2>3. Sorted(leaf) /\ Len(leaf) \in 1..Order
    BY <1>1, <1>3, <2>2
  <2>4. leaf # <<>>
    BY <2>3
  <2>5. Leafed(<<leaf>>) /\ Spread(leaf, <<leaf>>)
    BY <2>3, <2>4, OneLeafed
  <2>6. \A j \in DOMAIN <<leaf>> : Len(<<leaf>>[j]) \in 1..Order
    BY <2>3
  <2> QED BY <2>1, <2>2, <2>5, <2>6
<1> QED BY <1>2, <1>3 DEF BtInv

LEMMA FewLeaves ==
  ASSUME NEW leaves, Leafed(leaves)
  PROVE  LevelsFor(leaves) = <<>> <=> Len(leaves) <= 1
<1>1. PICK mins, h : HasLevels(leaves, mins, h)
  BY LevelsExist
<1>2. h \in Nat /\ (h = 0 <=> Len(leaves) <= 1)
      /\ LevelsFor(leaves) = [l \in 1..h |-> LevelOver(mins[l - 1]).nodes]
  BY <1>1 DEF HasLevels
<1> DEFINE g == [l \in 1..h |-> LevelOver(mins[l - 1]).nodes]
<1>3. DOMAIN g = 1..h
  OBVIOUS
<1>4. 1..h = {} <=> h = 0
  BY <1>2
<1>5. g = <<>> <=> DOMAIN g = {}
  OBVIOUS
<1> HIDE DEF g
<1> QED BY <1>2, <1>3, <1>4, <1>5 DEF g

LEMMA NodesHaveRoom ==
  ASSUME BtInv, NEW l \in DOMAIN bt_levels, NEW j \in DOMAIN bt_levels[l]
  PROVE  Len(bt_levels[l][j].keys) <= Order
<1>1. Leafed(bt_leaves) /\ bt_levels = LevelsFor(bt_leaves)
  BY BtLeafed DEF BtInv
<1>2. PICK mins, h : HasLevels(bt_leaves, mins, h)
  BY <1>1, LevelsExist
<1>3. /\ h \in Nat /\ bt_levels = [x \in 1..h |-> LevelOver(mins[x - 1]).nodes]
      /\ \A x \in 0..h : Ascending(mins[x])
  BY <1>1, <1>2 DEF HasLevels
<1> DEFINE m == mins[l - 1]
<1>4. l \in 1..h /\ l - 1 \in 0..h
  BY <1>3
<1>5. bt_levels[l] = LevelOver(m).nodes /\ Ascending(m)
  BY <1>3, <1>4
<1> HIDE DEF m
<1>6. PICK r, c : LevelPieces(m, r, c)
  BY <1>5, LevelHasPieces
<1>7. bt_levels[l] =
        [i \in 1..c |-> [keys |-> SubSeq(m, r[i][1] + 1, r[i][2]), first |-> r[i][1]]]
  BY <1>5, <1>6 DEF LevelPieces
<1>8. j \in 1..c
  BY <1>7
<1> DEFINE a == r[j][1]
           b == r[j][2]
<1>9. bt_levels[l][j].keys = SubSeq(m, a + 1, b)
  BY <1>7, <1>8
<1>10. a \in 1..Len(m) /\ b \in a..Len(m) /\ b - a <= Order /\ Len(m) \in Nat /\ DOMAIN m = 1..Len(m)
  BY <1>5, <1>6, <1>8, PieceBounds
<1> HIDE DEF a, b
<1>11. \A i \in a+1..b : m[i] \in Nat
  BY <1>5, <1>10 DEF Ascending
<1>12. a + 1 \in Int /\ b \in Int /\ Order \in Nat
  BY <1>10, LeafSizeFits
<1>13. Len(SubSeq(m, a + 1, b)) = IF a + 1 <= b THEN b - (a + 1) + 1 ELSE 0
  BY <1>11, <1>12, SubSeqProperties
<1> QED BY <1>9, <1>10, <1>12, <1>13

(* A bulk load holds its data.                                             *)
LEMMA BtBuilt ==
  ASSUME NEW data, Sorted(data), BtBuild(data)
  PROVE  BtInv' /\ BtStored' = data /\ bt_pending' = <<>>
<1> DEFINE leaves == LeavesFor(data)
           levels == LevelsFor(leaves)
<1>1. data \in Seq(Entry) /\ Len(data) \in Nat
  BY DEF Sorted
<1>2. /\ bt_leaves' = leaves /\ bt_levels' = levels /\ bt_pending' = <<>>
      /\ bt_n' = Len(data) /\ bt_height' = (IF data = <<>> THEN 0 ELSE Len(levels) + 1)
  BY DEF BtBuild
<1>3. leaves \in Seq(Seq(Entry)) /\ FlattenSeq(leaves) = data /\ (leaves = <<>> <=> data = <<>>)
  BY <1>1, FlattenLeaves
<1>4. Leafed(leaves)
  BY ChunksLeafed
<1> HIDE DEF leaves, levels
<1>5. BtStored' = data
  BY <1>2, <1>3 DEF BtStored
<1>6. bt_height' \in {Len(levels), Len(levels) + 1}
  <2>1. CASE data = <<>>
    <3>1. Len(leaves) <= 1
      BY <1>3, <2>1
    <3>2. levels = <<>>
      BY <1>4, <3>1, FewLeaves DEF levels
    <3> QED BY <1>2, <2>1, <3>2
  <2> QED BY <1>2, <2>1
<1>7. 0 < Order * FlushFactor
  <2>1. Order \in Nat \ {0} /\ FlushFactor \in Nat \ {0}
    BY LeafSizeFits, FlushFactorAssumption
  <2>2. Order * FlushFactor \in Nat \ {0}
    BY ONLY <2>1, Products
  <2> QED BY <2>2
<1>8. <<>> \in Seq(Entry) /\ Len(<<>>) = 0
  OBVIOUS
<1>9. bt_leaves' = LeavesFor(BtStored') /\ bt_levels' = LevelsFor(bt_leaves')
  BY <1>2, <1>5 DEF leaves, levels
<1>10. bt_n' = Len(BtStored') + Len(bt_pending')
  BY <1>1, <1>2, <1>5, <1>8
<1> QED BY <1>2, <1>3, <1>5, <1>6, <1>7, <1>8, <1>9, <1>10 DEF BtInv
(* An insert into the tree adds the entry and loses none.                  *)
LEMMA BtAdds ==
  ASSUME BtInv, NEW e \in Entry, BtInsert(e)
  PROVE  /\ BtInv' /\ BtHeld' = BtHeld \cup {e.key}
         /\ \A k : Copies(BtStored' \o bt_pending', k) \subseteq
                     Copies(BtStored \o bt_pending, k) \cup (IF e.key = k THEN {e.val} ELSE {})
<1> DEFINE pending == Append(bt_pending, e)
           own(k) == IF e.key = k THEN {e.val} ELSE {}
<1>1. /\ bt_leaves \in Seq(Seq(Entry)) /\ Sorted(BtStored) /\ BtStored \in Seq(Entry)
      /\ bt_levels = LevelsFor(bt_leaves)
      /\ bt_pending \in Seq(Entry) /\ Len(bt_pending) < Order * FlushFactor
      /\ bt_leaves = <<>> => bt_pending = <<>>
      /\ bt_n = Len(BtStored) + Len(bt_pending)
      /\ bt_height \in {Len(bt_levels), Len(bt_levels) + 1}
  BY DEF BtInv, Sorted
<1>2. Leafed(bt_leaves)
  BY BtLeafed
<1>3. Order \in Nat /\ Order >= 2
  BY LeafSizeFits
<1>4. /\ pending \in Seq(Entry) /\ Len(pending) = Len(bt_pending) + 1
      /\ KeysOf(pending) = KeysOf(bt_pending) \cup {e.key}
      /\ \A k : Copies(pending, k) = Copies(bt_pending, k) \cup own(k)
  <2>1. bt_pending \in Seq(Entry)
    BY <1>1
  <2> QED BY ONLY <2>1, e \in Entry, OneMore
<1> HIDE DEF pending
<1>5. \A k : Copies(BtStored \o bt_pending, k) = Copies(BtStored, k) \cup Copies(bt_pending, k)
  BY <1>1, BothParts
<1>6. CASE /\ bt_leaves = <<>> /\ bt_leaves' = << <<e>> >> /\ bt_n' = bt_n + 1
           /\ UNCHANGED <<bt_levels, bt_pending, bt_height>>
  <2> DEFINE leaf == <<e>>
  <2>1. /\ leaf \in Seq(Entry) /\ Len(leaf) = 1 /\ KeysOf(leaf) = {e.key}
        /\ \A k : Copies(leaf, k) = own(k)
    BY OneEntry
  <2>2. /\ Sorted(leaf) /\ leaf # <<>> /\ <<leaf>> \in Seq(Seq(Entry)) /\ Len(<<leaf>>) = 1
        /\ Len(<<leaf>>) <= 1
    <3>6. e.key \in Nat
      BY KeysAssumption DEF Entry
    <3>1. DOMAIN leaf = {1} /\ leaf[1] = e /\ e.key \in Nat
      BY <3>6
    <3>2. \A i, j \in DOMAIN leaf : leaf[i].key <= leaf[j].key
      <4> HIDE DEF leaf
      <4> QED BY <3>1
    <3>3. Sorted(leaf)
      BY <2>1, <3>2 DEF Sorted
    <3> HIDE DEF leaf
    <3>4. leaf # <<>>
      BY <3>1
    <3>5. <<leaf>> \in Seq(Seq(Entry)) /\ Len(<<leaf>>) = 1 /\ Len(<<leaf>>) <= 1
      BY <2>1
    <3> QED BY <3>3, <3>4, <3>5
  <2>3. bt_leaves' = <<leaf>>
    BY <1>6
  <2> HIDE DEF leaf
  <2>4. BtStored' = leaf /\ BtStored = <<>>
    BY <1>6, <2>1, <2>3, FlattenOne, FlattenNone DEF BtStored
  <2>5. bt_pending = <<>> /\ bt_pending' = <<>>
    BY <1>1, <1>6
  <2>6. LevelsFor(<<leaf>>) = LevelsFor(bt_leaves)
    <3>1. Leafed(<<leaf>>) /\ Len(bt_leaves) <= 1
      BY <1>6, <2>2, OneLeafed
    <3> QED BY <1>2, <2>2, <3>1, FewLeaves
  <2>7. BtInv'
    <3>1. Len(BtStored) = 0 /\ Len(bt_pending') = 0 /\ Len(bt_pending) = 0 /\ <<>> \in Seq(Entry)
      BY <2>4, <2>5
    <3>2. bt_n' = Len(BtStored') + Len(bt_pending')
      BY <1>1, <1>6, <2>1, <2>4, <3>1
    <3>3. bt_levels' = LevelsFor(bt_leaves')
      BY <1>1, <1>6, <2>3, <2>6
    <3>4. Len(BtStored') \in 1..Order
      BY <1>3, <2>1, <2>4
    <3>5. Len(bt_pending') < Order * FlushFactor /\ bt_pending' \in Seq(Entry)
      BY <1>1, <1>6
    <3>6. bt_height' \in {Len(bt_levels'), Len(bt_levels') + 1}
      BY <1>1, <1>6
    <3>7. bt_leaves' \in Seq(Seq(Entry)) /\ Len(bt_leaves') = 1 /\ Sorted(BtStored')
      BY <2>2, <2>3, <2>4
    <3> QED BY <2>5, <3>2, <3>3, <3>4, <3>5, <3>6, <3>7 DEF BtInv
  <2>8. KeysOf(<<>>) = {} /\ (\A k : Copies(<<>>, k) = {}) /\ <<>> \in Seq(Entry)
    BY NoEntries
  <2>9. BtHeld' = BtHeld \cup {e.key}
    BY <2>1, <2>4, <2>5, <2>8 DEF BtHeld
  <2>10. \A k : Copies(leaf \o <<>>, k) = Copies(leaf, k) \cup Copies(<<>>, k)
    BY <2>1, <2>8, BothParts
  <2>11. \A k : Copies(BtStored' \o bt_pending', k) \subseteq
                 Copies(BtStored \o bt_pending, k) \cup own(k)
    BY <2>1, <2>4, <2>5, <2>8, <2>10
  <2> QED BY <2>7, <2>9, <2>11
<1>7. CASE /\ bt_leaves # <<>> /\ RootLeafHasRoom
           /\ bt_leaves' = <<InsertSorted(bt_leaves[1], e)>> /\ bt_n' = bt_n + 1
           /\ UNCHANGED <<bt_levels, bt_pending, bt_height>>
  <2> DEFINE leaf == bt_leaves[1]
             new == InsertSorted(leaf, e)
  <2>1. bt_levels = <<>> /\ Len(leaf) < Order
    BY <1>7 DEF RootLeafHasRoom
  <2>2. Len(bt_leaves) = 1
    <3>1. Len(bt_leaves) <= 1
      BY <1>1, <1>2, <2>1, FewLeaves
    <3> DEFINE n == Len(bt_leaves)
    <3>2. n \in Nat /\ n # 0
      BY <1>1, <1>7
    <3> HIDE DEF n
    <3>3. n <= 1 => n = 1
      BY <3>2
    <3> QED BY <3>1, <3>3 DEF n
  <2>3. bt_leaves = <<leaf>> /\ leaf \in Seq(Entry) /\ Sorted(leaf) /\ leaf # <<>>
    <3>1. 1 \in DOMAIN bt_leaves
      BY <1>1, <2>2
    <3>4. bt_leaves \in Seq(Seq(Entry)) /\ Len(bt_leaves) = 1
      BY <1>1, <2>2
    <3>2. bt_leaves = <<leaf>> /\ leaf \in Seq(Entry)
      BY ONLY <3>4 DEF leaf
    <3>3. Sorted(leaf) /\ leaf # <<>>
      BY <1>2, <3>1 DEF Leafed
    <3> QED BY <3>2, <3>3
  <2>4. bt_leaves' = <<new>>
    BY <1>7
  <2> HIDE DEF leaf
  <2>5. /\ Sorted(new) /\ Len(new) = Len(leaf) + 1 /\ KeysOf(new) = KeysOf(leaf) \cup {e.key}
        /\ \A k : Copies(new, k) = Copies(leaf, k) \cup own(k)
    BY <2>3, InsertSortedFacts
  <2> HIDE DEF new
  <2>6. new \in Seq(Entry) /\ <<new>> \in Seq(Seq(Entry)) /\ Len(<<new>>) = 1
        /\ Len(leaf) \in Nat
    BY <2>3, <2>5 DEF Sorted
  <2>7. BtStored' = new /\ BtStored = leaf
    BY <2>3, <2>4, <2>6, FlattenOne DEF BtStored
  <2>8. Len(new) \in 1..Order
    BY <1>3, <2>1, <2>5, <2>6
  <2>9. new # <<>>
    BY <2>6, <2>8
  <2>10. LevelsFor(<<new>>) = <<>>
    <3>1. Leafed(<<new>>)
      BY <2>5, <2>9, OneLeafed
    <3>2. Len(<<new>>) <= 1
      OBVIOUS
    <3> QED BY <3>1, <3>2, FewLeaves
  <2>11. BtInv'
    <3>1. bt_n' = Len(BtStored') + Len(bt_pending')
      BY <1>1, <1>7, <2>5, <2>6, <2>7
    <3>2. bt_levels' = LevelsFor(bt_leaves')
      BY <1>7, <2>1, <2>4, <2>10
    <3>3. Len(bt_pending') < Order * FlushFactor /\ bt_pending' \in Seq(Entry)
      BY <1>1, <1>7
    <3>4. bt_height' \in {Len(bt_levels'), Len(bt_levels') + 1}
      BY <1>1, <1>7
    <3>5. /\ bt_leaves' \in Seq(Seq(Entry)) /\ Len(bt_leaves') = 1 /\ Sorted(BtStored')
          /\ Len(BtStored') \in 1..Order /\ bt_leaves' # <<>>
      BY <2>4, <2>5, <2>6, <2>7, <2>8
    <3> QED BY <3>1, <3>2, <3>3, <3>4, <3>5 DEF BtInv
  <2>12. bt_pending' = bt_pending
    BY <1>7
  <2>13. BtHeld' = BtHeld \cup {e.key}
    BY <2>5, <2>7, <2>12 DEF BtHeld
  <2>14. \A k : Copies(new \o bt_pending, k) = Copies(new, k) \cup Copies(bt_pending, k)
    BY <1>1, <2>6, BothParts
  <2>15. \A k : Copies(BtStored' \o bt_pending', k) \subseteq
                 Copies(BtStored \o bt_pending, k) \cup own(k)
    BY <1>5, <2>5, <2>7, <2>12, <2>14
  <2> QED BY <2>11, <2>13, <2>15
<1>8. CASE bt_leaves # <<>> /\ Len(pending) >= Order * FlushFactor /\ BtFlush(pending)
  <2>1. PICK all \in Deduplicated(BtStored \o pending) : BtBuild(all)
    BY <1>8 DEF BtFlush, BtStored
  <2> DEFINE s == BtStored \o pending
  <2>2. /\ s \in Seq(Entry) /\ KeysOf(s) = KeysOf(BtStored) \cup KeysOf(pending)
        /\ \A k : Copies(s, k) = Copies(BtStored, k) \cup Copies(pending, k)
    BY <1>1, <1>4, BothParts, Concatenated
  <2>3. all \in Deduplicated(s)
    BY <2>1
  <2> HIDE DEF s
  <2>4. Sorted(all) /\ KeysOf(all) = KeysOf(s) /\ (\A k : Copies(all, k) \subseteq Copies(s, k))
    BY <2>2, <2>3, DeduplicatedFacts
  <2>5. BtInv' /\ BtStored' = all /\ bt_pending' = <<>>
    BY <2>1, <2>4, BtBuilt
  <2>6. KeysOf(<<>>) = {} /\ (\A k : Copies(<<>>, k) = {}) /\ <<>> \in Seq(Entry)
    BY NoEntries
  <2>7. BtHeld' = BtHeld \cup {e.key}
    BY <1>4, <2>2, <2>4, <2>5, <2>6 DEF BtHeld
  <2>8. \A k : Copies(all \o <<>>, k) = Copies(all, k) \cup Copies(<<>>, k)
    BY <2>4, <2>6, BothParts DEF Sorted
  <2>9. \A k : Copies(BtStored' \o bt_pending', k) \subseteq
                 Copies(BtStored \o bt_pending, k) \cup own(k)
    BY <1>4, <1>5, <2>2, <2>4, <2>5, <2>6, <2>8
  <2> QED BY <2>5, <2>7, <2>9
<1>9. CASE /\ bt_leaves # <<>> /\ ~ (Len(pending) >= Order * FlushFactor)
           /\ bt_pending' = pending /\ bt_n' = bt_n + 1
           /\ UNCHANGED <<bt_leaves, bt_levels, bt_height>>
  <2>1. BtStored' = BtStored
    BY <1>9 DEF BtStored
  <2>2. BtInv'
    <3>1. bt_n' = Len(BtStored') + Len(bt_pending')
      <4>1. bt_n' = bt_n + 1 /\ bt_pending' = pending
        BY <1>9
      <4>2. Len(BtStored) \in Nat /\ Len(bt_pending) \in Nat
        BY <1>1
      <4>3. bt_n' = Len(BtStored) + Len(pending)
        BY <1>1, <1>4, <4>1, <4>2
      <4> QED BY <2>1, <4>1, <4>3
    <3>2. Len(bt_pending') < Order * FlushFactor
      <4>1. FlushFactor \in Nat /\ Order * FlushFactor \in Int
        BY <1>3, FlushFactorAssumption, Products
      <4>2. Len(pending) \in Nat
        BY <1>4
      <4> QED BY <1>9, <4>1, <4>2
    <3>3. bt_leaves' = bt_leaves /\ bt_levels' = bt_levels /\ bt_height' = bt_height
          /\ bt_pending' \in Seq(Entry)
      BY <1>4, <1>9
    <3> QED BY <1>1, <1>9, <2>1, <3>1, <3>2, <3>3 DEF BtInv
  <2>3. BtHeld' = BtHeld \cup {e.key}
    BY <1>4, <1>9, <2>1 DEF BtHeld
  <2>4. \A k : Copies(BtStored \o pending, k) = Copies(BtStored, k) \cup Copies(pending, k)
    BY <1>1, <1>4, BothParts
  <2>5. \A k : Copies(BtStored' \o bt_pending', k) \subseteq
                 Copies(BtStored \o bt_pending, k) \cup own(k)
    BY <1>4, <1>5, <1>9, <2>1, <2>4
  <2> QED BY <2>2, <2>3, <2>5
<1> QED BY <1>6, <1>7, <1>8, <1>9 DEF BtInsert, pending
-----------------------------------------------------------------------------
(* The RMI has the leaf models its array trains.                           *)
RmiInv ==
  /\ Sorted(rmi_data)
  /\ rmi_pending \in Seq(Entry) /\ Len(rmi_pending) < L1Size
  /\ rmi_n \in Nat /\ rmi_short \in BOOLEAN
  /\ rmi_data # <<>> => /\ rmi_root = RootFor(rmi_data)
                        /\ rmi_leaves = LeavesOf(rmi_data, rmi_root, rmi_short)

LEMMA RmiBuilt ==
  ASSUME NEW data, Sorted(data), RmiInv, RmiBuild(data),
         rmi_pending' \in Seq(Entry), Len(rmi_pending') < L1Size
  PROVE  /\ RmiInv' /\ rmi_n' = Len(data)
         /\ rmi_data' = IF data = <<>> THEN rmi_data ELSE data
<1>1. rmi_n' = Len(data) /\ rmi_short' = rmi_short /\ Len(data) \in Nat
  BY DEF RmiBuild, Sorted
<1>2. CASE data = <<>>
  <2>1. rmi_data' = rmi_data /\ rmi_root' = rmi_root /\ rmi_leaves' = rmi_leaves
    BY <1>2 DEF RmiBuild
  <2> QED BY <1>1, <1>2, <2>1 DEF RmiInv
<1>3. CASE data # <<>>
  <2>1. rmi_data' = data /\ rmi_root' = RootFor(data)
        /\ rmi_leaves' = LeavesOf(data, RootFor(data), rmi_short)
    BY <1>3 DEF RmiBuild
  <2>2. rmi_root' = RootFor(rmi_data') /\ rmi_leaves' = LeavesOf(rmi_data', rmi_root', rmi_short')
    BY <1>1, <2>1
  <2>3. Sorted(rmi_data')
    BY <2>1
  <2>4. RmiInv'
    BY <1>1, <2>2, <2>3 DEF RmiInv
  <2> QED BY <1>1, <1>3, <2>1, <2>4
<1> QED BY <1>2, <1>3

LEMMA RmiAdds ==
  ASSUME RmiInv, NEW e \in Entry, RmiInsert(e)
  PROVE  /\ RmiInv' /\ RmiHeld' = RmiHeld \cup {e.key}
         /\ (rmi_n = Len(rmi_data) + Len(rmi_pending) =>
              rmi_n' = Len(rmi_data') + Len(rmi_pending'))
         /\ \A k : Copies(rmi_data' \o rmi_pending', k) \subseteq
                     Copies(rmi_data \o rmi_pending, k) \cup (IF e.key = k THEN {e.val} ELSE {})
<1> DEFINE pending == Append(rmi_pending, e)
           own(k) == IF e.key = k THEN {e.val} ELSE {}
<1>1. /\ Sorted(rmi_data) /\ rmi_data \in Seq(Entry) /\ Len(rmi_data) \in Nat
      /\ rmi_pending \in Seq(Entry) /\ Len(rmi_pending) \in Nat
  BY DEF RmiInv, Sorted
<1>2. /\ pending \in Seq(Entry) /\ Len(pending) = Len(rmi_pending) + 1
      /\ KeysOf(pending) = KeysOf(rmi_pending) \cup {e.key}
      /\ \A k : Copies(pending, k) = Copies(rmi_pending, k) \cup own(k)
  BY <1>1, OneMore
<1>3. \A k : Copies(rmi_data \o rmi_pending, k) = Copies(rmi_data, k) \cup Copies(rmi_pending, k)
  BY <1>1, BothParts
<1>4. RmiInsert(e) =
        IF Len(pending) >= L1Size
          THEN /\ rmi_pending' = <<>>
               /\ \E merged \in Deduplicated(rmi_data \o pending) : RmiBuild(merged)
          ELSE /\ rmi_pending' = pending
               /\ rmi_n' = rmi_n + 1
               /\ UNCHANGED <<rmi_data, rmi_root, rmi_leaves, rmi_short>>
  BY DEF RmiInsert
<1> HIDE DEF pending
<1>5. CASE Len(pending) >= L1Size
  <2>1. rmi_pending' = <<>> /\ \E merged \in Deduplicated(rmi_data \o pending) : RmiBuild(merged)
    BY <1>4, <1>5
  <2> DEFINE s == rmi_data \o pending
  <2>2. PICK merged \in Deduplicated(s) : RmiBuild(merged)
    BY <2>1
  <2>3. /\ s \in Seq(Entry) /\ KeysOf(s) = KeysOf(rmi_data) \cup KeysOf(pending)
        /\ \A k : Copies(s, k) = Copies(rmi_data, k) \cup Copies(pending, k)
    BY <1>1, <1>2, BothParts, Concatenated
  <2> HIDE DEF s
  <2>4. /\ Sorted(merged) /\ KeysOf(merged) = KeysOf(s)
        /\ \A k : Copies(merged, k) \subseteq Copies(s, k)
    BY <2>3, DeduplicatedFacts
  <2>5. merged \in Seq(Entry) /\ Len(merged) \in Nat
    BY <2>4 DEF Sorted
  <2>6. e.key \in KeysOf(merged)
    BY <1>2, <2>3, <2>4
  <2>7. merged # <<>>
    BY <2>5, <2>6, HasEntries
  <2>8. rmi_pending' \in Seq(Entry) /\ Len(rmi_pending') = 0 /\ Len(rmi_pending') < L1Size
    <3>1. <<>> \in Seq(Entry) /\ Len(<<>>) = 0
      OBVIOUS
    <3> QED BY <2>1, <3>1, L1SizeAssumption
  <2>9. RmiInv' /\ rmi_n' = Len(merged) /\ rmi_data' = merged
    BY <2>2, <2>4, <2>7, <2>8, RmiBuilt
  <2>10. rmi_n' = Len(rmi_data') + Len(rmi_pending')
    BY <2>5, <2>8, <2>9
  <2>11. KeysOf(<<>>) = {} /\ (\A k : Copies(<<>>, k) = {}) /\ <<>> \in Seq(Entry)
    BY NoEntries
  <2>12. RmiHeld' = RmiHeld \cup {e.key}
    BY <1>2, <2>1, <2>3, <2>4, <2>9, <2>11 DEF RmiHeld
  <2>13. \A k : Copies(merged \o <<>>, k) = Copies(merged, k) \cup Copies(<<>>, k)
    BY <2>5, <2>11, BothParts
  <2>14. \A k : Copies(rmi_data' \o rmi_pending', k) \subseteq
                  Copies(rmi_data \o rmi_pending, k) \cup own(k)
    BY <1>2, <1>3, <2>1, <2>3, <2>4, <2>9, <2>11, <2>13
  <2> QED BY <2>9, <2>10, <2>12, <2>14
<1>6. CASE ~ (Len(pending) >= L1Size)
  <2>1. /\ rmi_pending' = pending /\ rmi_n' = rmi_n + 1 /\ rmi_data' = rmi_data
        /\ rmi_root' = rmi_root /\ rmi_leaves' = rmi_leaves /\ rmi_short' = rmi_short
    BY <1>4, <1>6
  <2>2. Len(rmi_pending') < L1Size /\ rmi_n \in Nat
    <3>1. Len(pending) \in Nat
      BY <1>2
    <3> QED BY <1>6, <2>1, <3>1, L1SizeAssumption DEF RmiInv
  <2>3. RmiInv'
    BY <1>2, <2>1, <2>2 DEF RmiInv
  <2>4. rmi_n = Len(rmi_data) + Len(rmi_pending) => rmi_n' = Len(rmi_data') + Len(rmi_pending')
    BY <1>1, <1>2, <2>1
  <2>5. RmiHeld' = RmiHeld \cup {e.key}
    BY <1>2, <2>1 DEF RmiHeld
  <2>6. \A k : Copies(rmi_data \o pending, k) = Copies(rmi_data, k) \cup Copies(pending, k)
    BY <1>1, <1>2, BothParts
  <2>7. \A k : Copies(rmi_data' \o rmi_pending', k) \subseteq
                 Copies(rmi_data \o rmi_pending, k) \cup own(k)
    BY <1>2, <1>3, <2>1, <2>6
  <2> QED BY <2>3, <2>4, <2>5, <2>7
<1> QED BY <1>5, <1>6

-----------------------------------------------------------------------------
(* The PGM keeps every entry in its sorted array or in the waiting list.   *)
PgmInv ==
  /\ Sorted(pgm_data) /\ pgm_inserts \in Seq(Entry)
  /\ pgm_size \in Nat

LEMMA PgmFlushes ==
  ASSUME PgmInv, NEW s \in Seq(Entry), PgmFlush(s), pgm_size' \in Nat
  PROVE  /\ PgmInv' /\ pgm_inserts' = <<>> /\ PgmHeld' = KeysOf(pgm_data) \cup KeysOf(s)
         /\ \A k : CountIn(pgm_data' \o pgm_inserts', k) = CountIn(pgm_data, k) + CountIn(s, k)
<1> DEFINE u == pgm_data \o s
           t == SortedByKey(u)
<1>1. pgm_data \in Seq(Entry)
  BY DEF PgmInv, Sorted
<1>2. /\ u \in Seq(Entry) /\ KeysOf(u) = KeysOf(pgm_data) \cup KeysOf(s)
      /\ \A k : CountIn(u, k) = CountIn(pgm_data, k) + CountIn(s, k)
  BY <1>1, BothParts, Concatenated
<1>3. pgm_data' = t /\ pgm_inserts' = <<>>
  BY DEF PgmFlush
<1> HIDE DEF u
<1>4. Sorted(t) /\ SameEntries(u, t)
  BY <1>2, SortedByKeyFacts, RearrangedSame
<1> HIDE DEF t
<1>5. t \in Seq(Entry) /\ KeysOf(t) = KeysOf(u) /\ \A k : CountIn(t, k) = CountIn(u, k)
  BY <1>4 DEF Sorted, SameEntries
<1>6. KeysOf(<<>>) = {} /\ (\A k : CountIn(<<>>, k) = 0) /\ <<>> \in Seq(Entry)
  BY NoEntries
<1>7. \A k : CountIn(t \o <<>>, k) = CountIn(t, k) + CountIn(<<>>, k)
  BY <1>5, <1>6, BothParts
<1>8. \A k : CountIn(t, k) \in Nat
  BY <1>5, CountInType
<1>9. \A k : CountIn(t \o <<>>, k) = CountIn(t, k)
  BY <1>6, <1>7, <1>8
<1>10. PgmInv'
  BY <1>3, <1>4, <1>6 DEF PgmInv
<1>11. PgmHeld' = KeysOf(pgm_data) \cup KeysOf(s)
  BY <1>2, <1>3, <1>5, <1>6 DEF PgmHeld
<1> QED BY <1>2, <1>3, <1>5, <1>9, <1>10, <1>11

(* How many inserts may wait.                                              *)
WaitLimit == Max({FlushMin, Len(pgm_data) \div FlushShare})

LEMMA WaitLimitType ==
  ASSUME NEW n \in Nat
  PROVE  Max({FlushMin, n \div FlushShare}) \in Nat
<1>1. FlushMin \in Nat /\ n \div FlushShare \in Int
  BY FlushAssumption, Division
<1> QED BY <1>1, MaxOfTwo

LEMMA PgmAdds ==
  ASSUME PgmInv, NEW e \in Entry, PgmInsert(e)
  PROVE  /\ PgmInv' /\ PgmHeld' = PgmHeld \cup {e.key} /\ pgm_size' = pgm_size + 1
         /\ Len(pgm_inserts') <= WaitLimit'
         /\ \A k : CountIn(pgm_data' \o pgm_inserts', k) =
                     CountIn(pgm_data \o pgm_inserts, k) + (IF e.key = k THEN 1 ELSE 0)
<1> DEFINE s == Append(pgm_inserts, e)
           one(k) == IF e.key = k THEN 1 ELSE 0
<1>1. pgm_data \in Seq(Entry) /\ pgm_inserts \in Seq(Entry) /\ pgm_size \in Nat
      /\ Len(pgm_data) \in Nat
  BY DEF PgmInv, Sorted
<1>2. /\ s \in Seq(Entry) /\ KeysOf(s) = KeysOf(pgm_inserts) \cup {e.key}
      /\ Len(s) \in Nat
      /\ \A k : CountIn(s, k) = CountIn(pgm_inserts, k) + one(k)
  <2>1. /\ s \in Seq(Entry) /\ Len(s) = Len(pgm_inserts) + 1
        /\ KeysOf(s) = KeysOf(pgm_inserts) \cup {e.key}
    BY <1>1, OneMore
  <2>2. \A k : CountIn(s, k) = CountIn(pgm_inserts, k) + one(k)
    BY ONLY <1>1, e \in Entry, OneMore
  <2> QED BY <1>1, <2>1, <2>2
<1>3. /\ pgm_size' = pgm_size + 1
      /\ IF Len(s) > WaitLimit THEN PgmFlush(s)
         ELSE pgm_inserts' = s /\ UNCHANGED <<pgm_data, pgm_model>>
  BY DEF PgmInsert, WaitLimit
<1> HIDE DEF s
<1>4. pgm_size' \in Nat /\ WaitLimit \in Nat
  BY <1>1, <1>3, WaitLimitType DEF WaitLimit
<1>5. \A k : /\ CountIn(pgm_data, k) \in Nat /\ CountIn(pgm_inserts, k) \in Nat
             /\ one(k) \in Nat
             /\ CountIn(pgm_data \o pgm_inserts, k) = CountIn(pgm_data, k) + CountIn(pgm_inserts, k)
  <2>1. \A k : CountIn(pgm_data, k) \in Nat /\ CountIn(pgm_inserts, k) \in Nat
    BY <1>1, CountInType
  <2>2. \A k : one(k) \in Nat
    OBVIOUS
  <2>3. \A k : CountIn(pgm_data \o pgm_inserts, k) =
                 CountIn(pgm_data, k) + CountIn(pgm_inserts, k)
    BY ONLY <1>1, BothParts
  <2> QED BY <2>1, <2>2, <2>3
<1> HIDE DEF one
<1>6. \A k : CountIn(pgm_data, k) + CountIn(s, k) = CountIn(pgm_data \o pgm_inserts, k) + one(k)
  <2> TAKE k
  <2> DEFINE x == CountIn(pgm_data, k)
             y == CountIn(pgm_inserts, k)
  <2>1. x \in Nat /\ y \in Nat /\ one(k) \in Nat /\ CountIn(pgm_data \o pgm_inserts, k) = x + y
    BY <1>5
  <2>2. CountIn(s, k) = y + one(k)
    BY <1>2
  <2> HIDE DEF x, y
  <2>3. x + (y + one(k)) = (x + y) + one(k)
    BY <2>1
  <2> QED BY <2>1, <2>2, <2>3 DEF x
<1>7. CASE Len(s) > WaitLimit
  <2>1. PgmFlush(s)
    BY <1>3, <1>7
  <2>2. /\ PgmInv' /\ pgm_inserts' = <<>> /\ PgmHeld' = KeysOf(pgm_data) \cup KeysOf(s)
        /\ \A k : CountIn(pgm_data' \o pgm_inserts', k) = CountIn(pgm_data, k) + CountIn(s, k)
    BY <1>2, <1>4, <2>1, PgmFlushes
  <2>3. PgmHeld' = PgmHeld \cup {e.key}
    BY <1>2, <2>2 DEF PgmHeld
  <2>4. Len(pgm_inserts') <= WaitLimit'
    <3>1. Len(pgm_inserts') = 0 /\ Len(pgm_data') \in Nat
      BY <2>2 DEF PgmInv, Sorted
    <3>2. Max({FlushMin, Len(pgm_data') \div FlushShare}) \in Nat
      BY <3>1, WaitLimitType
    <3>3. WaitLimit' = Max({FlushMin, Len(pgm_data') \div FlushShare})
      BY DEF WaitLimit
    <3> QED BY <3>1, <3>2, <3>3
  <2> QED BY <1>3, <1>6, <2>2, <2>3, <2>4 DEF one
<1>8. CASE ~ (Len(s) > WaitLimit)
  <2>1. pgm_inserts' = s /\ pgm_data' = pgm_data
    BY <1>3, <1>8
  <2>2. PgmInv' /\ PgmHeld' = PgmHeld \cup {e.key}
    BY <1>2, <1>4, <2>1 DEF PgmInv, PgmHeld
  <2>3. \A k : CountIn(pgm_data \o s, k) = CountIn(pgm_data, k) + CountIn(s, k)
    BY <1>1, <1>2, BothParts
  <2>4. WaitLimit' = WaitLimit
    BY <2>1 DEF WaitLimit
  <2>5. Len(pgm_inserts') <= WaitLimit'
    BY <1>2, <1>4, <1>8, <2>1, <2>4
  <2> QED BY <1>3, <1>6, <2>1, <2>2, <2>3, <2>5 DEF one
<1> QED BY <1>7, <1>8
-----------------------------------------------------------------------------
(* The inductive invariant of the four together.                           *)
Waiting == rebuilt \/ Len(pgm_inserts) <= WaitLimit

Inv ==
  /\ BtInv /\ RmiInv /\ PgmInv /\ Waiting
  /\ alex_idx \in [Keys -> Nat] /\ alex_size \in Nat
  /\ Sorted(put) /\ rebuilt \in BOOLEAN
  /\ NothingLost

LEMMA DataSorted == ASSUME NEW data \in DataSets PROVE Sorted(data)
<1>1. data \in Seq(Entry) /\ SortedByKey(data) = data
  BY DataSetsAssumption
<1> QED BY <1>1, SortedByKeyFacts

LEMMA EntryOfKey == ASSUME NEW k \in Keys PROVE E(k, Inserted) \in Entry /\ E(k, Inserted).key = k
BY DEF E, Entry, Values

(* Before the first entries are put in there are none anywhere.            *)
LEMMA NothingThere ==
  ASSUME Inv, ~rebuilt, put = <<>>
  PROVE  /\ pgm_data = <<>> /\ pgm_inserts = <<>> /\ pgm_size = 0
         /\ rmi_data = <<>> /\ rmi_pending = <<>>
         /\ alex_size = 0 /\ \A k \in Keys : alex_idx[k] = 0
<1>1. /\ pgm_data \in Seq(Entry) /\ pgm_inserts \in Seq(Entry)
      /\ rmi_data \in Seq(Entry) /\ rmi_pending \in Seq(Entry)
  BY DEF Inv, PgmInv, RmiInv, Sorted
<1> DEFINE u == pgm_data \o pgm_inserts
           w == rmi_data \o rmi_pending
<1>2. \A k \in Keys : /\ CountIn(u, k) = CountIn(put, k) /\ alex_idx[k] = CountIn(put, k)
                      /\ Copies(w, k) \subseteq Copies(put, k)
  BY DEF Inv, NothingLost
<1>3. alex_size = Len(put) /\ (~Refused(put) => pgm_size = Len(put))
  BY DEF Inv, NothingLost
<1>4. \A k : CountIn(put, k) = 0 /\ Copies(put, k) = {}
  BY NoEntries
<1>5. Len(put) = 0 /\ ~Refused(put)
  BY DEF Refused
<1>6. u \in Seq(Entry) /\ KeysOf(u) = KeysOf(pgm_data) \cup KeysOf(pgm_inserts)
  BY <1>1, BothParts, Concatenated
<1>7. w \in Seq(Entry) /\ KeysOf(w) = KeysOf(rmi_data) \cup KeysOf(rmi_pending)
  BY <1>1, BothParts, Concatenated
<1> HIDE DEF u, w
<1>8. KeysOf(u) = {}
  <2>1. ASSUME NEW k \in KeysOf(u) PROVE FALSE
    <3>1. k \in Keys
      BY <1>6, KeysOfFacts
    <3>2. CountIn(u, k) = 0
      BY <1>2, <1>4, <3>1
    <3> QED BY <1>6, <3>2, CountInType
  <2> QED BY <2>1
<1>9. KeysOf(w) = {}
  <2>1. ASSUME NEW k \in KeysOf(w) PROVE FALSE
    <3>1. k \in Keys
      BY <1>7, KeysOfFacts
    <3>2. Copies(w, k) = {}
      BY <1>2, <1>4, <3>1
    <3> QED BY <3>2 DEF Copies, KeysOf
  <2> QED BY <2>1
<1>10. KeysOf(pgm_data) = {} /\ KeysOf(pgm_inserts) = {}
       /\ KeysOf(rmi_data) = {} /\ KeysOf(rmi_pending) = {}
  BY <1>6, <1>7, <1>8, <1>9
<1> QED BY <1>1, <1>2, <1>3, <1>4, <1>5, <1>10, HasEntries

(* The PGM-index refuses what holds the greatest key.                      *)
LEMMA RefusedHolds ==
  ASSUME NEW s, Sorted(s)
  PROVE  Refused(s) <=> Sentinel \in KeysOf(s)
<1>1. /\ s \in Seq(Entry) /\ Len(s) \in Nat /\ DOMAIN s = 1..Len(s)
      /\ (\A i \in DOMAIN s : s[i].key \in 0..Sentinel /\ s[i].key \in Nat)
      /\ (\A i, j \in DOMAIN s : i <= j => s[i].key <= s[j].key)
  BY EntryType, KeyTypeAssumption DEF Sorted
<1>2. ASSUME Refused(s) PROVE Sentinel \in KeysOf(s)
  <2>1. Len(s) \in DOMAIN s
    BY <1>1, <1>2 DEF Refused
  <2> QED BY <1>2, <2>1 DEF Refused, KeysOf
<1>3. ASSUME Sentinel \in KeysOf(s) PROVE Refused(s)
  <2>1. PICK i \in DOMAIN s : s[i].key = Sentinel
    BY <1>3 DEF KeysOf
  <2>2. Len(s) \in DOMAIN s /\ i <= Len(s) /\ s # <<>>
    BY <1>1
  <2>3. s[i].key <= s[Len(s)].key /\ s[Len(s)].key \in 0..Sentinel /\ s[i].key \in Nat
    BY <1>1, <2>2
  <2>4. s[Len(s)].key = Sentinel
    BY <2>1, <2>3
  <2> QED BY <2>2, <2>4 DEF Refused
<1> QED BY <1>2, <1>3

LEMMA InitHolds == ASSUME Init PROVE Inv
<1>1. /\ <<>> \in Seq(Entry) /\ Len(<<>>) = 0 /\ KeysOf(<<>>) = {} /\ Sorted(<<>>)
      /\ \A k : CountIn(<<>>, k) = 0 /\ Copies(<<>>, k) = {}
  BY NoEntries
<1>2. /\ bt_leaves = <<>> /\ bt_levels = <<>> /\ bt_pending = <<>> /\ bt_n = 0 /\ bt_height = 0
      /\ rmi_data = <<>> /\ rmi_leaves = <<>> /\ rmi_pending = <<>> /\ rmi_n = 0
      /\ rmi_short \in BOOLEAN
      /\ pgm_data = <<>> /\ pgm_inserts = <<>> /\ pgm_size = 0
      /\ alex_idx = [k \in Keys |-> 0] /\ alex_size = 0
      /\ put = <<>> /\ rebuilt = FALSE
  BY DEF Init, BtInit, RmiInit, PgmInit, AlexInit
<1>3. BtStored = <<>>
  BY <1>2, FlattenNone DEF BtStored
<1>4. LeavesFor(<<>>) = <<>>
  BY <1>1, FlattenLeaves
<1>5. LevelsFor(<<>>) = <<>>
  <2>1. Leafed(<<>>)
    BY <1>1, <1>4, ChunksLeafed
  <2> QED BY <1>1, <2>1, FewLeaves
<1>6. BtInv
  <2>1. 0 < Order * FlushFactor
    <3>1. Order \in Nat \ {0} /\ FlushFactor \in Nat \ {0}
      BY LeafSizeFits, FlushFactorAssumption
    <3>2. Order * FlushFactor \in Nat \ {0}
      BY ONLY <3>1, Products
    <3> QED BY <3>2
  <2>2. <<>> \in Seq(Seq(Entry))
    OBVIOUS
  <2> QED BY <1>1, <1>2, <1>3, <1>4, <1>5, <2>1, <2>2 DEF BtInv
<1>7. RmiInv
  BY <1>1, <1>2, L1SizeAssumption DEF RmiInv
<1>8. PgmInv /\ Waiting
  <2>1. WaitLimit = Max({FlushMin, 0 \div FlushShare})
    BY <1>1, <1>2 DEF WaitLimit
  <2>2. WaitLimit \in Nat
    BY <2>1, WaitLimitType
  <2> QED BY <1>1, <1>2, <2>2 DEF PgmInv, Waiting
<1>9. NothingLost
  <2> DEFINE u == <<>>
  <2>1. <<>> \o <<>> = <<>>
    OBVIOUS
  <2> QED BY <1>1, <1>2, <1>3, <2>1 DEF NothingLost, BtHeld, RmiHeld, PgmHeld
<1>10. alex_idx \in [Keys -> Nat] /\ alex_size \in Nat
  BY <1>2
<1> QED BY <1>1, <1>2, <1>6, <1>7, <1>8, <1>9, <1>10 DEF Inv

LEMMA LookupHolds == ASSUME Inv, Lookup PROVE Inv'
<1>1. /\ UNCHANGED <<bt_vars, rmi_vars, alex_vars, put, rebuilt>> /\ PgmLookupFlush
  BY DEF Lookup
<1>2. CASE pgm_inserts = <<>>
  <2>1. UNCHANGED <<bt_vars, rmi_vars, pgm_vars, alex_vars, put, rebuilt>>
    BY <1>1, <1>2 DEF PgmLookupFlush
  <2> QED BY <2>1 DEF Inv, BtInv, RmiInv, PgmInv, Waiting, WaitLimit, NothingLost, BtHeld, BtStored,
                      RmiHeld, PgmHeld, bt_vars, rmi_vars, pgm_vars, alex_vars
<1>3. CASE pgm_inserts # <<>>
  <2>1. PgmFlush(pgm_inserts) /\ pgm_size' = pgm_size
    BY <1>1, <1>3 DEF PgmLookupFlush
  <2>2. PgmInv /\ pgm_inserts \in Seq(Entry) /\ pgm_size' \in Nat /\ pgm_data \in Seq(Entry)
    BY <2>1 DEF Inv, PgmInv, Sorted
  <2>3. /\ PgmInv' /\ pgm_inserts' = <<>> /\ PgmHeld' = KeysOf(pgm_data) \cup KeysOf(pgm_inserts)
        /\ \A k : CountIn(pgm_data' \o pgm_inserts', k) =
                    CountIn(pgm_data, k) + CountIn(pgm_inserts, k)
    BY <2>1, <2>2, PgmFlushes
  <2>4. \A k : CountIn(pgm_data' \o pgm_inserts', k) = CountIn(pgm_data \o pgm_inserts, k)
    <3>1. \A k : CountIn(pgm_data \o pgm_inserts, k) =
                   CountIn(pgm_data, k) + CountIn(pgm_inserts, k)
      BY ONLY <2>2, BothParts
    <3> QED BY ONLY <2>3, <3>1
  <2>5. PgmHeld' = PgmHeld
    BY <2>3 DEF PgmHeld
  <2>6. Waiting'
    <3>1. Len(pgm_inserts') = 0 /\ Len(pgm_data') \in Nat
      BY <2>3 DEF PgmInv, Sorted
    <3>2. Max({FlushMin, Len(pgm_data') \div FlushShare}) \in Nat
      BY <3>1, WaitLimitType
    <3>3. WaitLimit' = Max({FlushMin, Len(pgm_data') \div FlushShare})
      BY DEF WaitLimit
    <3>4. Len(pgm_inserts') <= WaitLimit'
      BY <3>1, <3>2, <3>3
    <3> QED BY <3>4 DEF Waiting
  <2>7. BtInv' /\ RmiInv'
    BY <1>1 DEF Inv, BtInv, RmiInv, BtStored, bt_vars, rmi_vars
  <2>8. NothingLost'
    <3>1. /\ bt_leaves' = bt_leaves /\ bt_pending' = bt_pending /\ bt_n' = bt_n
          /\ rmi_data' = rmi_data /\ rmi_pending' = rmi_pending /\ rmi_n' = rmi_n
          /\ alex_idx' = alex_idx /\ alex_size' = alex_size /\ put' = put /\ rebuilt' = rebuilt
      BY <1>1 DEF bt_vars, rmi_vars, alex_vars
    <3>2. BtStored' = BtStored /\ BtHeld' = BtHeld /\ RmiHeld' = RmiHeld
      BY <3>1 DEF BtStored, BtHeld, RmiHeld
    <3>3. NothingLost
      BY DEF Inv
    <3> QED BY <2>1, <2>4, <2>5, <3>1, <3>2, <3>3 DEF NothingLost
  <2>9. alex_idx' \in [Keys -> Nat] /\ alex_size' \in Nat /\ Sorted(put') /\ rebuilt' \in BOOLEAN
    BY <1>1 DEF Inv, alex_vars
  <2> QED BY <2>3, <2>6, <2>7, <2>8, <2>9 DEF Inv
<1> QED BY <1>2, <1>3
LEMMA BuildHolds ==
  ASSUME Inv, NEW data \in DataSets, Build(data)
  PROVE  Inv'
<1>1. Sorted(data) /\ data \in Seq(Entry) /\ Len(data) \in Nat
  BY DataSorted DEF Sorted
<1>2. /\ ~rebuilt /\ BtBuild(data) /\ RmiBuild(data) /\ rmi_pending' = rmi_pending
      /\ PgmBuild(data) /\ AlexBuild(data) /\ put' = data
      /\ rebuilt' = (rebuilt \/ put # <<>>)
  BY DEF Build
<1>3. KeysOf(<<>>) = {} /\ (\A k : CountIn(<<>>, k) = 0 /\ Copies(<<>>, k) = {})
      /\ <<>> \in Seq(Entry) /\ Len(<<>>) = 0
  BY NoEntries
<1>4. BtInv' /\ BtStored' = data /\ bt_pending' = <<>>
  BY <1>1, <1>2, BtBuilt
<1>5. BtHeld' = KeysOf(data) /\ bt_n' = Len(BtStored') + Len(bt_pending')
  BY <1>3, <1>4 DEF BtHeld, BtInv
<1>6. /\ RmiInv' /\ rmi_n' = Len(data)
      /\ rmi_data' = IF data = <<>> THEN rmi_data ELSE data
  <2>1. RmiInv /\ rmi_pending' \in Seq(Entry) /\ Len(rmi_pending') < L1Size
    BY <1>2 DEF Inv, RmiInv
  <2> QED BY <1>1, <1>2, <2>1, RmiBuilt
<1>7. /\ PgmInv' /\ pgm_inserts' = pgm_inserts
      /\ pgm_data' = (IF data = <<>> THEN pgm_data ELSE data)
      /\ pgm_size' = (IF data = <<>> \/ Refused(data) THEN pgm_size ELSE Len(data))
  <2>1. CASE data = <<>>
    <3>1. pgm_data' = pgm_data /\ pgm_inserts' = pgm_inserts /\ pgm_size' = pgm_size
      BY <1>2, <2>1 DEF PgmBuild, pgm_vars
    <3> QED BY <2>1, <3>1 DEF Inv, PgmInv
  <2>2. CASE data # <<>>
    <3>1. /\ pgm_data' = data /\ pgm_inserts' = pgm_inserts
          /\ pgm_size' = (IF Refused(data) THEN pgm_size ELSE Len(data))
      BY <1>2, <2>2 DEF PgmBuild
    <3> QED BY <1>1, <2>2, <3>1 DEF Inv, PgmInv
  <2> QED BY <2>1, <2>2
<1>8. /\ alex_size' = (IF data = <<>> THEN alex_size ELSE Len(data))
      /\ alex_idx' = (IF Stored # {} THEN alex_idx ELSE [k \in Keys |-> CountIn(data, k)])
  BY <1>2 DEF AlexBuild, CountIn
<1>9. alex_idx' \in [Keys -> Nat] /\ alex_size' \in Nat
  <2>1. \A k : CountIn(data, k) \in Nat
    BY <1>1, CountInType
  <2> QED BY <1>1, <1>8, <2>1 DEF Inv
<1>10. rebuilt' = (put # <<>>)
  BY <1>2
<1>11. Waiting'
  <2>1. CASE put # <<>>
    BY <1>10, <2>1 DEF Waiting
  <2>2. CASE put = <<>>
    <3>1. Len(pgm_inserts') = 0
      BY <1>2, <1>3, <1>7, <2>2, NothingThere
    <3>2. Len(pgm_data') \in Nat
      BY <1>7 DEF PgmInv, Sorted
    <3>3. Max({FlushMin, Len(pgm_data') \div FlushShare}) \in Nat
      BY <3>2, WaitLimitType
    <3>4. WaitLimit' = Max({FlushMin, Len(pgm_data') \div FlushShare})
      BY DEF WaitLimit
    <3>5. Len(pgm_inserts') <= WaitLimit'
      BY <3>1, <3>3, <3>4
    <3> QED BY <3>5 DEF Waiting
  <2> QED BY <2>1, <2>2
<1>12. KeysOf(put') \subseteq RmiHeld' \cap PgmHeld'
  <2>1. CASE data = <<>>
    BY <1>2, <1>3, <2>1
  <2>2. CASE data # <<>>
    BY <1>2, <1>6, <1>7, <2>2 DEF RmiHeld, PgmHeld
  <2> QED BY <2>1, <2>2
<1>13. /\ pgm_data' \in Seq(Entry) /\ pgm_inserts' \in Seq(Entry)
       /\ rmi_data' \in Seq(Entry) /\ rmi_pending' \in Seq(Entry)
  BY <1>6, <1>7 DEF PgmInv, RmiInv, Sorted
<1>14. \A k : /\ CountIn(pgm_data' \o pgm_inserts', k) = CountIn(pgm_data', k) + CountIn(pgm_inserts', k)
              /\ CountIn(pgm_data', k) \in Nat /\ CountIn(pgm_inserts', k) \in Nat
              /\ CountIn(data, k) \in Nat
  <2> DEFINE a == pgm_data'
             b == pgm_inserts'
  <2>1. a \in Seq(Entry) /\ b \in Seq(Entry)
    BY <1>13
  <2> HIDE DEF a, b
  <2>2. \A k : CountIn(a \o b, k) = CountIn(a, k) + CountIn(b, k)
    BY <2>1, BothParts
  <2>3. \A k : CountIn(a, k) \in Nat /\ CountIn(b, k) \in Nat /\ CountIn(data, k) \in Nat
    BY <1>1, <2>1, CountInType
  <2> QED BY <2>2, <2>3 DEF a, b
<1>15. \A k \in Keys : CountIn(pgm_data' \o pgm_inserts', k) >= CountIn(put', k)
  <2> TAKE k \in Keys
  <2>1. CASE data = <<>>
    <3>1. CountIn(put', k) = 0
      BY <1>2, <1>3, <2>1
    <3>2. CountIn(pgm_data' \o pgm_inserts', k) \in Nat
      BY <1>14
    <3> QED BY <3>1, <3>2
  <2>2. CASE data # <<>>
    <3>1. put' = data /\ pgm_data' = data
      BY <1>2, <1>7, <2>2
    <3> DEFINE x == CountIn(data, k)
               y == CountIn(pgm_inserts', k)
    <3>2. CountIn(pgm_data' \o pgm_inserts', k) = x + y /\ x \in Nat /\ y \in Nat /\ CountIn(put', k) = x
      BY <1>14, <3>1
    <3> HIDE DEF x, y
    <3> QED BY <3>2
  <2> QED BY <2>1, <2>2
(* A first build starts from nothing and holds the data alone.             *)
<1>16. ASSUME ~rebuilt'
       PROVE  /\ \A k \in Keys : /\ CountIn(pgm_data' \o pgm_inserts', k) = CountIn(put', k)
                                 /\ alex_idx'[k] = CountIn(put', k)
                                 /\ Copies(BtStored' \o bt_pending', k) \subseteq Copies(put', k)
                                 /\ Copies(rmi_data' \o rmi_pending', k) \subseteq Copies(put', k)
              /\ rmi_n' = Len(rmi_data') + Len(rmi_pending')
              /\ alex_size' = Len(put')
              /\ ~Refused(put') => pgm_size' = Len(put')
  <2>1. put = <<>>
    BY <1>10, <1>16
  <2>2. /\ pgm_data = <<>> /\ pgm_inserts = <<>> /\ pgm_size = 0
        /\ rmi_data = <<>> /\ rmi_pending = <<>>
        /\ alex_size = 0 /\ \A k \in Keys : alex_idx[k] = 0
    BY <1>2, <2>1, NothingThere
  <2>3. pgm_data' = data /\ pgm_inserts' = <<>> /\ rmi_data' = data /\ rmi_pending' = <<>>
    BY <1>2, <1>6, <1>7, <2>2
  <2>4. data \o <<>> = data
    BY <1>1
  <2>5. Stored = {}
    BY <2>2 DEF Stored
  <2>6. \A k \in Keys : alex_idx'[k] = CountIn(data, k)
    BY <1>8, <2>5
  <2>7. rmi_n' = Len(rmi_data') + Len(rmi_pending')
    BY <1>1, <1>3, <1>6, <2>3
  <2>8. alex_size' = Len(data) /\ (~Refused(data) => pgm_size' = Len(data))
    BY <1>3, <1>7, <1>8, <2>2
  <2> QED BY <1>2, <1>4, <2>3, <2>4, <2>6, <2>7, <2>8
<1>17. NothingLost'
  BY <1>2, <1>5, <1>12, <1>15, <1>16 DEF NothingLost
<1>18. Sorted(put') /\ rebuilt' \in BOOLEAN
  BY <1>1, <1>2, <1>10
<1> QED BY <1>4, <1>6, <1>7, <1>9, <1>11, <1>17, <1>18 DEF Inv

LEMMA InsertHolds ==
  ASSUME Inv, NEW x \in InsertKeys, Insert(x)
  PROVE  Inv'
<1> DEFINE e == E(x, Inserted)
           u == Append(put, e)
           one(k) == IF e.key = k THEN 1 ELSE 0
           own(k) == IF e.key = k THEN {e.val} ELSE {}
<1>1. x \in Keys
  BY BoundsAssumption
<1>2. e \in Entry /\ e.key = x
  BY <1>1, EntryOfKey
<1>3. /\ BtInsert(e) /\ RmiInsert(e) /\ PgmInsert(e) /\ AlexInsert(e)
      /\ put' = SortedByKey(u) /\ rebuilt' = rebuilt
  BY DEF Insert
<1> HIDE DEF e
<1>4. /\ BtInv /\ RmiInv /\ PgmInv /\ Waiting /\ NothingLost /\ rebuilt \in BOOLEAN
      /\ alex_idx \in [Keys -> Nat] /\ alex_size \in Nat
      /\ Sorted(put) /\ put \in Seq(Entry) /\ Len(put) \in Nat
  BY DEF Inv, Sorted
<1>5. /\ u \in Seq(Entry) /\ Len(u) = Len(put) + 1 /\ KeysOf(u) = KeysOf(put) \cup {e.key}
      /\ \A k : CountIn(u, k) = CountIn(put, k) + one(k) /\ Copies(u, k) = Copies(put, k) \cup own(k)
  BY ONLY <1>2, <1>4, OneMore
<1> HIDE DEF u
<1>6. Sorted(put') /\ Rearranged(u, put')
  BY <1>3, <1>5, SortedByKeyFacts
<1>7. /\ KeysOf(put') = KeysOf(put) \cup {e.key} /\ Len(put') = Len(put) + 1
      /\ \A k : CountIn(put', k) = CountIn(put, k) + one(k) /\ Copies(put', k) = Copies(put, k) \cup own(k)
  <2> DEFINE t == put'
  <2>1. Rearranged(u, t)
    BY <1>6
  <2> HIDE DEF t
  <2>2. SameEntries(u, t) /\ Len(t) = Len(u)
    BY <2>1, RearrangedSame DEF Rearranged
  <2>3. KeysOf(t) = KeysOf(u) /\ \A k : CountIn(t, k) = CountIn(u, k) /\ Copies(t, k) = Copies(u, k)
    BY <2>2 DEF SameEntries
  <2> QED BY <1>5, <2>2, <2>3 DEF t
<1>8. /\ BtInv' /\ BtHeld' = BtHeld \cup {e.key}
      /\ \A k : Copies(BtStored' \o bt_pending', k) \subseteq
                  Copies(BtStored \o bt_pending, k) \cup own(k)
  BY <1>2, <1>3, <1>4, BtAdds
<1>9. /\ RmiInv' /\ RmiHeld' = RmiHeld \cup {e.key}
      /\ (rmi_n = Len(rmi_data) + Len(rmi_pending) =>
           rmi_n' = Len(rmi_data') + Len(rmi_pending'))
      /\ \A k : Copies(rmi_data' \o rmi_pending', k) \subseteq
                  Copies(rmi_data \o rmi_pending, k) \cup own(k)
  BY <1>2, <1>3, <1>4, RmiAdds
<1>10. /\ PgmInv' /\ PgmHeld' = PgmHeld \cup {e.key} /\ pgm_size' = pgm_size + 1
       /\ Len(pgm_inserts') <= WaitLimit'
       /\ \A k : CountIn(pgm_data' \o pgm_inserts', k) =
                   CountIn(pgm_data \o pgm_inserts, k) + one(k)
  BY <1>2, <1>3, <1>4, PgmAdds
<1>11. /\ alex_size' = alex_size + 1 /\ alex_size' \in Nat /\ alex_idx' \in [Keys -> Nat]
       /\ \A k \in Keys : alex_idx'[k] = alex_idx[k] + one(k)
  <2>1. alex_idx' = [alex_idx EXCEPT ![e.key] = @ + 1] /\ alex_size' = alex_size + 1
    BY <1>3 DEF AlexInsert
  <2> QED BY <1>1, <1>2, <1>4, <2>1
<1> HIDE DEF one, own
<1>12. \A k \in Keys : CountIn(pgm_data' \o pgm_inserts', k) >= CountIn(put', k)
  <2> TAKE k \in Keys
  <2> DEFINE a == CountIn(pgm_data \o pgm_inserts, k)
             b == CountIn(put, k)
  <2>1. a >= b
    BY <1>4 DEF NothingLost
  <2>2. CountIn(pgm_data' \o pgm_inserts', k) = a + one(k) /\ CountIn(put', k) = b + one(k)
    BY <1>7, <1>10
  <2>3. a \in Nat /\ b \in Nat /\ one(k) \in Nat
    <3>1. pgm_data \o pgm_inserts \in Seq(Entry)
      BY <1>4, Concatenated DEF PgmInv, Sorted
    <3>2. one(k) \in Nat
      BY DEF one
    <3> QED BY <1>4, <3>1, <3>2, CountInType
  <2> HIDE DEF a, b
  <2>4. a + one(k) >= b + one(k)
    BY <2>1, <2>3
  <2> QED BY <2>2, <2>4
<1>13. ASSUME ~rebuilt'
       PROVE  /\ \A k \in Keys : /\ CountIn(pgm_data' \o pgm_inserts', k) = CountIn(put', k)
                                 /\ alex_idx'[k] = CountIn(put', k)
                                 /\ Copies(BtStored' \o bt_pending', k) \subseteq Copies(put', k)
                                 /\ Copies(rmi_data' \o rmi_pending', k) \subseteq Copies(put', k)
              /\ rmi_n' = Len(rmi_data') + Len(rmi_pending')
              /\ alex_size' = Len(put')
              /\ ~Refused(put') => pgm_size' = Len(put')
  <2>1. ~rebuilt
    BY <1>3, <1>13
  <2>2. /\ \A k \in Keys : /\ CountIn(pgm_data \o pgm_inserts, k) = CountIn(put, k)
                           /\ alex_idx[k] = CountIn(put, k)
                           /\ Copies(BtStored \o bt_pending, k) \subseteq Copies(put, k)
                           /\ Copies(rmi_data \o rmi_pending, k) \subseteq Copies(put, k)
        /\ rmi_n = Len(rmi_data) + Len(rmi_pending)
        /\ alex_size = Len(put)
        /\ ~Refused(put) => pgm_size = Len(put)
    BY <1>4, <2>1 DEF NothingLost
  <2>3. ~Refused(put') => ~Refused(put)
    <3>1. KeysOf(put) \subseteq KeysOf(put')
      BY <1>7
    <3>2. Refused(put) <=> Sentinel \in KeysOf(put)
      BY <1>4, RefusedHolds
    <3>3. Refused(put') <=> Sentinel \in KeysOf(put')
      BY <1>6, RefusedHolds
    <3> QED BY <3>1, <3>2, <3>3
  <2>4. \A k \in Keys : /\ CountIn(pgm_data' \o pgm_inserts', k) = CountIn(put', k)
                        /\ alex_idx'[k] = CountIn(put', k)
    BY ONLY <1>7, <1>10, <1>11, <2>2
  <2>5. \A k \in Keys : /\ Copies(BtStored' \o bt_pending', k) \subseteq Copies(put', k)
                        /\ Copies(rmi_data' \o rmi_pending', k) \subseteq Copies(put', k)
    BY ONLY <1>7, <1>8, <1>9, <2>2
  <2>6. rmi_n' = Len(rmi_data') + Len(rmi_pending') /\ alex_size' = Len(put')
    BY <1>7, <1>9, <1>11, <2>2
  <2>7. ~Refused(put') => pgm_size' = Len(put')
    BY <1>7, <1>10, <2>2, <2>3
  <2> QED BY <2>4, <2>5, <2>6, <2>7
<1>14. BtHeld' = KeysOf(put') /\ KeysOf(put') \subseteq RmiHeld' \cap PgmHeld'
  BY <1>4, <1>7, <1>8, <1>9, <1>10 DEF NothingLost
<1>15. bt_n' = Len(BtStored') + Len(bt_pending')
  BY <1>8 DEF BtInv
<1>16. NothingLost'
  BY <1>12, <1>13, <1>14, <1>15 DEF NothingLost
<1>17. Waiting'
  BY <1>10 DEF Waiting
<1> QED BY <1>3, <1>4, <1>6, <1>8, <1>9, <1>10, <1>11, <1>16, <1>17 DEF Inv

-----------------------------------------------------------------------------
(* The slopes the code compares and the chords it draws.                  *)
LEMMA SlopesCompare ==
  ASSUME NEW s \in Slopes, NEW t \in Slopes
  PROVE  /\ Steeper(s, t) <=> ~NoSteeper(s, t)
         /\ NoSteeper(s, t) \/ NoSteeper(t, s)
<1>1. s.dx \in Int /\ s.dy \in Int /\ t.dx \in Int /\ t.dy \in Int
  BY SlopeTypes
<1> DEFINE a == s.dy * t.dx
           b == t.dy * s.dx
<1>2. a \in Int /\ b \in Int /\ s.dx * t.dy = b
  BY <1>1, Products
<1>3. Steeper(s, t) <=> a > b
  BY <1>2 DEF Steeper
<1>4. /\ NoSteeper(s, t) <=> a <= b
      /\ NoSteeper(t, s) <=> b <= a
  BY DEF NoSteeper
<1> HIDE DEF a, b
<1> QED BY <1>2, <1>3, <1>4

(* The chord from p to a point q right of it.                              *)
LEMMA Chord ==
  ASSUME NEW p \in Plane, NEW q \in Plane, p.x < q.x
  PROVE  /\ Minus(q, p) \in Slopes
         /\ Rise(q, p, Minus(q, p)) = 0
         /\ \A s \in Slopes : /\ Rise(q, p, s) >= 0 <=> NoSteeper(s, Minus(q, p))
                              /\ Rise(q, p, s) <= 0 <=> NoSteeper(Minus(q, p), s)
<1> DEFINE x == q.x - p.x
           y == q.y - p.y
           t == Minus(q, p)
<1>1. x \in Nat \ {0} /\ y \in Int
  BY PlaneTypes
<1>2. t = [dx |-> x, dy |-> y] /\ t.dx = x /\ t.dy = y
  BY DEF Minus
<1>3. t \in Slopes
  BY <1>1, <1>2 DEF Slopes
<1>4. \A s : Rise(q, p, s) = y * s.dx - s.dy * x
  BY DEF Rise
<1> HIDE DEF x, y, t
<1>5. Rise(q, p, t) = 0
  <2>1. y * x - y * x = 0
    <3>1. y * x \in Int
      BY <1>1, Products
    <3> QED BY ONLY <3>1
  <2> QED BY <1>2, <1>4, <2>1
<1>6. ASSUME NEW s \in Slopes
      PROVE  /\ Rise(q, p, s) >= 0 <=> NoSteeper(s, t)
             /\ Rise(q, p, s) <= 0 <=> NoSteeper(t, s)
  <2>1. y * s.dx \in Int /\ s.dy * x \in Int
    BY <1>1, SlopeTypes, Products
  <2>2. /\ NoSteeper(s, t) <=> s.dy * x <= y * s.dx
        /\ NoSteeper(t, s) <=> y * s.dx <= s.dy * x
    BY <1>2 DEF NoSteeper
  <2> QED BY <1>4, <2>1, <2>2
<1> QED BY <1>3, <1>5, <1>6 DEF t

(* What the code computes of three points.                                 *)
LEMMA CrossIsRise ==
  ASSUME NEW o \in Plane, NEW a \in Plane, NEW b \in Plane
  PROVE  Cross(o, a, b) = Rise(b, o, Minus(a, o))
<1> DEFINE k == a.x - o.x  l == a.y - o.y  m == b.x - o.x  n == b.y - o.y
<1>1. k \in Int /\ l \in Int /\ m \in Int /\ n \in Int
  BY PlaneTypes
<1>2. Cross(o, a, b) = k * n - l * m
  BY DEF Cross, Minus
<1>3. Rise(b, o, Minus(a, o)) = n * k - l * m
  BY DEF Rise, Minus
<1> HIDE DEF k, l, m, n
<1>4. n * k = k * n
  BY <1>1, Products
<1> QED BY <1>2, <1>3, <1>4

(* Seen from either side, slopes are ordered.                              *)
LEMMA FlatterFacts ==
  ASSUME NEW g \in Sides, NEW s \in Slopes, NEW t \in Slopes
  PROVE  /\ Flatter(g, s, t) \/ Flatter(g, t, s)
         /\ \A u \in Slopes : Flatter(g, s, t) /\ Flatter(g, t, u) => Flatter(g, s, u)
         /\ Flatter(g, s, s)
<1>1. NoSteeper(s, t) \/ NoSteeper(t, s)
  BY SlopesCompare
<1>2. NoSteeper(s, s)
  BY SlopesCompare
<1>3. ASSUME NEW u \in Slopes, Flatter(g, s, t), Flatter(g, t, u) PROVE Flatter(g, s, u)
  BY <1>3, SlopesTransitive DEF Flatter
<1> QED BY <1>1, <1>2, <1>3 DEF Flatter

LEMMA BeyondFlatter ==
  ASSUME NEW g \in Sides, NEW p \in Plane, NEW q \in Plane, NEW s \in Slopes, NEW t \in Slopes,
         \/ Flatter(g, s, t) /\ q.x <= p.x
         \/ Flatter(g, t, s) /\ p.x <= q.x
  PROVE  /\ Beyond(g, p, q, t) >= 0 => Beyond(g, p, q, s) >= 0
         /\ Beyond(g, p, q, s) <= 0 => Beyond(g, p, q, t) <= 0
<1>1. CASE g = 1
  BY <1>1, RiseFlatter DEF Beyond, Flatter
<1>2. CASE g = -1
  <2>1. /\ Rise(p, q, s) >= 0 => Rise(p, q, t) >= 0
        /\ Rise(p, q, t) <= 0 => Rise(p, q, s) <= 0
    BY <1>2, RiseFlatter DEF Flatter
  <2> QED BY <1>2, <2>1, RiseType DEF Beyond
<1> QED BY <1>1, <1>2 DEF Sides

LEMMA BeyondChord ==
  ASSUME NEW g \in Sides, NEW p \in Plane, NEW q \in Plane, p.x < q.x
  PROVE  /\ Minus(q, p) \in Slopes
         /\ Beyond(g, q, p, Minus(q, p)) = 0
         /\ \A s \in Slopes : /\ Beyond(g, q, p, s) >= 0 <=> Flatter(g, s, Minus(q, p))
                              /\ Beyond(g, q, p, s) <= 0 <=> Flatter(g, Minus(q, p), s)
<1> DEFINE t == Minus(q, p)
<1>1. /\ t \in Slopes /\ Rise(q, p, t) = 0
      /\ \A s \in Slopes : /\ Rise(q, p, s) >= 0 <=> NoSteeper(s, t)
                           /\ Rise(q, p, s) <= 0 <=> NoSteeper(t, s)
  BY Chord
<1> HIDE DEF t
<1>2. ASSUME NEW s \in Slopes
      PROVE  /\ Beyond(g, q, p, s) >= 0 <=> Flatter(g, s, t)
             /\ Beyond(g, q, p, s) <= 0 <=> Flatter(g, t, s)
  BY <1>1, RiseType DEF Beyond, Flatter
<1>3. Beyond(g, q, p, t) = 0
  <2>1. Beyond(g, q, p, t) >= 0 /\ Beyond(g, q, p, t) <= 0
    BY <1>1, <1>2, FlatterFacts
  <2> QED BY <1>1, <2>1, BeyondFacts
<1> QED BY <1>1, <1>2, <1>3 DEF t

(* A line below the ends of a chord is below what lies above the chord.    *)
LEMMA BelowChord ==
  ASSUME NEW g \in Sides, NEW a \in Plane, NEW b \in Plane, NEW e \in Plane,
         a.x < b.x, a.x <= e.x, e.x <= b.x, Beyond(g, e, a, Minus(b, a)) >= 0,
         NEW q \in Plane, NEW s \in Slopes, Beyond(g, a, q, s) >= 0, Beyond(g, b, q, s) >= 0
  PROVE  Beyond(g, e, q, s) >= 0
<1> DEFINE t == Minus(b, a)
<1>1. t \in Slopes /\ Beyond(g, b, a, t) = 0 /\ Beyond(g, e, a, t) >= 0
  BY BeyondChord
<1> HIDE DEF t
<1>2. CASE Flatter(g, s, t)
  <2>1. Beyond(g, e, a, s) >= 0
    BY <1>1, <1>2, BeyondFlatter
  <2>2. Beyond(g, e, q, s) = Beyond(g, e, a, s) + Beyond(g, a, q, s)
    BY BeyondSum
  <2>3. Beyond(g, e, a, s) \in Int /\ Beyond(g, a, q, s) \in Int
    BY BeyondFacts
  <2> QED BY <2>1, <2>2, <2>3
<1>3. CASE Flatter(g, t, s)
  <2>1. Beyond(g, e, b, t) >= 0
    <3>1. Beyond(g, e, a, t) = Beyond(g, e, b, t) + Beyond(g, b, a, t)
      BY <1>1, BeyondSum
    <3> QED BY <1>1, <3>1, BeyondFacts
  <2>2. Beyond(g, e, b, s) >= 0
    BY <1>1, <1>3, <2>1, BeyondFlatter
  <2>3. Beyond(g, e, q, s) = Beyond(g, e, b, s) + Beyond(g, b, q, s)
    BY BeyondSum
  <2>4. Beyond(g, e, b, s) \in Int /\ Beyond(g, b, q, s) \in Int
    BY BeyondFacts
  <2> QED BY <2>2, <2>3, <2>4
<1> QED BY <1>1, <1>2, <1>3, FlatterFacts

(* A chord under a line is, between its ends, below what the line is.      *)
LEMMA ChordUnder ==
  ASSUME NEW g \in Sides, NEW a \in Plane, NEW b \in Plane, NEW u \in Plane,
         a.x < b.x, a.x <= u.x, u.x <= b.x,
         NEW q \in Plane, NEW s \in Slopes,
         Beyond(g, a, q, s) <= 0, Beyond(g, b, q, s) <= 0, Beyond(g, u, q, s) >= 0
  PROVE  Beyond(g, u, a, Minus(b, a)) >= 0
<1> DEFINE t == Minus(b, a)
<1>1. t \in Slopes /\ Beyond(g, b, a, t) = 0
  BY BeyondChord
<1> HIDE DEF t
<1>2. Beyond(g, u, a, s) >= 0 /\ Beyond(g, u, b, s) >= 0
  <2>1. /\ Beyond(g, u, q, s) = Beyond(g, u, a, s) + Beyond(g, a, q, s)
        /\ Beyond(g, u, q, s) = Beyond(g, u, b, s) + Beyond(g, b, q, s)
    BY BeyondSum
  <2>2. /\ Beyond(g, u, a, s) \in Int /\ Beyond(g, a, q, s) \in Int
        /\ Beyond(g, u, b, s) \in Int /\ Beyond(g, b, q, s) \in Int
    BY BeyondFacts
  <2> QED BY <2>1, <2>2
<1>3. CASE Flatter(g, t, s)
  <2>1. Beyond(g, u, a, t) >= 0
    BY <1>1, <1>2, <1>3, BeyondFlatter
  <2> QED BY <2>1 DEF t
<1>4. CASE Flatter(g, s, t)
  <2>1. Beyond(g, u, b, t) >= 0
    BY <1>1, <1>2, <1>4, BeyondFlatter
  <2>2. Beyond(g, u, a, t) = Beyond(g, u, b, t) + Beyond(g, b, a, t)
    BY <1>1, BeyondSum
  <2>3. Beyond(g, u, a, t) >= 0
    BY <1>1, <2>1, <2>2, BeyondFacts
  <2> QED BY <2>3 DEF t
<1> QED BY <1>1, <1>3, <1>4, FlatterFacts

(* A line that starts below another and falls away to the left of it.      *)
LEMMA LeftUnder ==
  ASSUME NEW g \in Sides, NEW a \in Plane, NEW u \in Plane, u.x <= a.x,
         NEW q \in Plane, NEW s \in Slopes, NEW t \in Slopes, Flatter(g, s, t),
         Beyond(g, a, q, s) <= 0, Beyond(g, u, q, s) >= 0
  PROVE  Beyond(g, u, a, t) >= 0
<1>1. Beyond(g, u, q, s) = Beyond(g, u, a, s) + Beyond(g, a, q, s)
  BY BeyondSum
<1>2. Beyond(g, u, a, s) \in Int /\ Beyond(g, a, q, s) \in Int
  BY BeyondFacts
<1>3. Beyond(g, u, a, s) >= 0
  BY <1>1, <1>2
<1> QED BY <1>3, BeyondFlatter

-----------------------------------------------------------------------------
(* A hull from place k on: it runs to the right and, seen from g, bends    *)
(* away.  The points of the plane that can come after one of its points.   *)
Chain(g, c, k) ==
  /\ c \in Seq(Plane) /\ k \in 1..Len(c)
  /\ \A i \in k+1..Len(c) : c[i-1].x < c[i].x
  /\ \A i \in k+1..Len(c)-1 : Beyond(g, c[i+1], c[i-1], Minus(c[i], c[i-1])) <= 0

Past(g, p, a) == a.x < p.x \/ (a.x = p.x /\ IF g = 1 THEN a.y < p.y ELSE p.y < a.y)

(* How far p lies beyond the edge of the hull that ends at place i.        *)
Edge(g, c, p, i) == Beyond(g, p, c[i-1], Minus(c[i], c[i-1]))

LEMMA ChainFacts ==
  ASSUME NEW g \in Sides, NEW c, NEW k, Chain(g, c, k)
  PROVE  /\ c \in Seq(Plane) /\ Len(c) \in Nat /\ k \in Nat \ {0} /\ k <= Len(c)
         /\ \A i \in k..Len(c) : c[i] \in Plane
         /\ \A i \in k+1..Len(c) : /\ i - 1 \in k..Len(c) /\ i \in k..Len(c)
                                   /\ c[i-1].x < c[i].x /\ Minus(c[i], c[i-1]) \in Slopes
<1>1. c \in Seq(Plane) /\ Len(c) \in Nat /\ k \in 1..Len(c)
  BY DEF Chain
<1> DEFINE n == Len(c)
<1>2. \A i \in 1..n : c[i] \in Plane
  BY <1>1
<1> HIDE DEF n
<1>3. \A i \in k..n : c[i] \in Plane
  BY <1>1, <1>2 DEF n
<1>4. ASSUME NEW i \in k+1..n
      PROVE  /\ i - 1 \in k..n /\ i \in k..n /\ c[i-1].x < c[i].x
             /\ Minus(c[i], c[i-1]) \in Slopes
  <2>1. i - 1 \in k..n /\ i \in k..n
    BY <1>1 DEF n
  <2>2. c[i-1].x < c[i].x
    BY DEF Chain, n
  <2> QED BY <1>3, <2>1, <2>2, BeyondChord
<1> QED BY <1>1, <1>3, <1>4 DEF n

(* What the code compares while it walks along a hull.                     *)
LEMMA WorseIsBeyond ==
  ASSUME NEW p \in Plane, NEW o \in Plane, NEW a \in Plane, o.x < a.x
  PROVE  /\ Steeper(Minus(a, p), Minus(o, p)) <=> Beyond(1, p, o, Minus(a, o)) > 0
         /\ Steeper(Minus(o, p), Minus(a, p)) <=> Beyond(-1, p, o, Minus(a, o)) > 0
<1> DEFINE e == o.x  f == o.y  k == a.x  l == a.y  m == p.x  n == p.y
           u == (l - n) * (e - m)
           v == (k - m) * (f - n)
           r == (n - f) * (k - e) - (l - f) * (m - e)
<1>1. /\ e \in Int /\ f \in Int /\ k \in Int /\ l \in Int /\ m \in Int /\ n \in Int
  BY PlaneTypes
<1>2. /\ Steeper(Minus(a, p), Minus(o, p)) <=> u > v
      /\ Steeper(Minus(o, p), Minus(a, p)) <=> (f - n) * (k - m) > (e - m) * (l - n)
  BY DEF Steeper, Minus
<1>3. Rise(p, o, Minus(a, o)) = r
  BY DEF Rise, Minus
<1> HIDE DEF e, f, k, l, m, n
<1>4. (f - n) * (k - m) = v /\ (e - m) * (l - n) = u
  BY ONLY <1>1 DEF u, v
<1>5. r = u - v
  BY ONLY <1>1 DEF r, u, v
<1>6. u \in Int /\ v \in Int
  BY ONLY <1>1, Products DEF u, v
<1>7. Beyond(1, p, o, Minus(a, o)) = r /\ Beyond(-1, p, o, Minus(a, o)) = -r
  BY <1>3 DEF Beyond
<1> HIDE DEF u, v, r
<1> QED BY <1>2, <1>4, <1>5, <1>6, <1>7

(* Once p lies beyond an edge, it lies beyond all that follow.             *)
LEMMA EdgesAfter ==
  ASSUME NEW g \in Sides, NEW c, NEW k, Chain(g, c, k), NEW p \in Plane,
         \A i \in k..Len(c) : c[i].x <= p.x,
         NEW m \in k+1..Len(c), Edge(g, c, p, m) >= 0
  PROVE  \A i \in m..Len(c) : Edge(g, c, p, i) >= 0
<1> DEFINE n == Len(c)
           T == {i \in m..n : Edge(g, c, p, i) >= 0}
<1>1. n \in Nat /\ k \in Nat \ {0} /\ m \in Int /\ m \in m..n
  BY ChainFacts
<1>2. ASSUME NEW i \in m+1..n, i - 1 \in T PROVE i \in T
  <2> DEFINE o == c[i-2]  a == c[i-1]  b == c[i]
             s == Minus(a, o)
             t == Minus(b, a)
  <2>1. i \in k+1..n /\ i - 1 \in k+1..n /\ (i - 1) - 1 = i - 2 /\ (i - 1) + 1 = i
    BY <1>1
  <2>2. o \in Plane /\ a \in Plane /\ b \in Plane /\ o.x < a.x /\ a.x < b.x
    BY <2>1, ChainFacts
  <2>3. Edge(g, c, p, i-1) = Beyond(g, p, o, s) /\ Edge(g, c, p, i) = Beyond(g, p, a, t)
    BY <2>1 DEF Edge
  <2>4. Beyond(g, b, o, s) <= 0
    <3>1. i - 1 \in k+1..n-1
      BY <1>1, <1>2
    <3> QED BY <2>1, <3>1 DEF Chain
  <2>5. a.x <= p.x
    BY <2>1, ChainFacts
  <2> HIDE DEF o, a, b
  <2>6. s \in Slopes /\ t \in Slopes /\ Beyond(g, a, o, s) = 0
    BY <2>2, BeyondChord
  <2>7. Flatter(g, t, s)
    <3>1. Beyond(g, b, o, s) = Beyond(g, b, a, s) + Beyond(g, a, o, s)
      BY <2>2, <2>6, BeyondSum
    <3>2. Beyond(g, b, a, s) <= 0
      BY <2>2, <2>4, <2>6, <3>1, BeyondFacts
    <3> QED BY <2>2, <2>6, <3>2, BeyondChord
  <2>8. Beyond(g, p, a, s) >= 0
    <3>1. Beyond(g, p, o, s) = Beyond(g, p, a, s) + Beyond(g, a, o, s)
      BY <2>2, <2>6, BeyondSum
    <3>2. Beyond(g, p, o, s) >= 0
      BY <1>2, <2>3
    <3> QED BY <2>2, <2>6, <3>1, <3>2, BeyondFacts
  <2>9. Beyond(g, p, a, t) >= 0
    <3> HIDE DEF s, t
    <3> QED BY <2>2, <2>5, <2>6, <2>7, <2>8, BeyondFlatter
  <2> QED BY <1>1, <1>2, <2>3, <2>9
<1>3. m..n \subseteq T
  <2>1. m \in T /\ m \in Int /\ n \in Int
    BY <1>1
  <2> HIDE DEF T, n
  <2> QED BY ONLY <1>2, <2>1, IntervalInduction
<1> QED BY <1>3 DEF T, n

(* The line from p to the place where its edges turn passes the hull.      *)
LEMMA Tangent ==
  ASSUME NEW g \in Sides, NEW c, NEW k, Chain(g, c, k), NEW p \in Plane,
         \A i \in k..Len(c) : c[i].x <= p.x,
         NEW m \in k..Len(c), \A i \in k..m : c[i].x < p.x,
         \A i \in k+1..m : Edge(g, c, p, i) <= 0,
         m < Len(c) => Edge(g, c, p, m+1) >= 0
  PROVE  \A j \in k..Len(c) : Beyond(g, c[j], c[m], Minus(p, c[m])) <= 0
<1> DEFINE n == Len(c)
           d == Minus(p, c[m])
           T == {j \in m..n : Beyond(g, c[j], p, d) <= 0}
           U == {j \in 0..m-k : Beyond(g, c[m-j], p, d) <= 0}
<1>1. /\ n \in Nat /\ k \in Nat \ {0} /\ m \in Int /\ m <= n /\ k <= m
      /\ m \in k..n /\ c[m] \in Plane /\ c[m].x < p.x
      /\ \A j \in k..n : c[j] \in Plane
  BY ChainFacts
<1>2. d \in Slopes /\ Beyond(g, p, c[m], d) = 0 /\ Beyond(g, c[m], p, d) = 0
  <2>1. d \in Slopes /\ Beyond(g, p, c[m], d) = 0
    BY <1>1, BeyondChord
  <2>2. Beyond(g, c[m], p, d) = 0 - Beyond(g, p, c[m], d)
    BY <1>1, <2>1, BeyondFacts
  <2> QED BY <2>1, <2>2
<1> HIDE DEF d
<1>3. ASSUME NEW i \in m+1..n, i - 1 \in T PROVE i \in T
  <2> DEFINE a == c[i-1]  b == c[i]
             s == Minus(b, a)
  <2>1. i \in k+1..n /\ m + 1 \in k+1..n /\ i \in m+1..n
    BY <1>1
  <2>2. a \in Plane /\ b \in Plane /\ a.x < b.x /\ a.x <= b.x /\ b.x <= p.x /\ s \in Slopes
    BY <2>1, ChainFacts, PlaneTypes
  <2>3. Edge(g, c, p, i) >= 0
    <3>1. Edge(g, c, p, m+1) >= 0
      BY <1>1, <2>1
    <3> QED BY <2>1, <3>1, EdgesAfter
  <2>4. Beyond(g, p, a, s) >= 0 /\ Beyond(g, a, p, d) <= 0
    BY <1>3, <2>3 DEF Edge
  <2> HIDE DEF a, b
  <2>5. Beyond(g, b, a, s) = 0
    BY <2>2, BeyondChord
  <2> HIDE DEF s
  <2>6. CASE Flatter(g, d, s)
    <3>1. Beyond(g, p, a, s) = Beyond(g, p, b, s) + Beyond(g, b, a, s)
      BY <2>2, BeyondSum
    <3>2. Beyond(g, p, b, s) >= 0
      BY <2>2, <2>4, <2>5, <3>1, BeyondFacts
    <3>3. Beyond(g, p, b, d) >= 0
      BY <1>2, <2>2, <2>6, <3>2, BeyondFlatter
    <3>4. Beyond(g, b, p, d) = 0 - Beyond(g, p, b, d) /\ Beyond(g, p, b, d) \in Int
      BY <1>2, <2>2, BeyondFacts
    <3> QED BY <2>1, <3>3, <3>4 DEF b
  <2>7. CASE Flatter(g, s, d)
    <3>1. Beyond(g, b, a, d) <= 0
      BY <1>2, <2>2, <2>5, <2>7, BeyondFlatter
    <3>2. Beyond(g, b, p, d) = Beyond(g, b, a, d) + Beyond(g, a, p, d)
      BY <1>2, <2>2, BeyondSum
    <3>3. Beyond(g, b, a, d) \in Int /\ Beyond(g, a, p, d) \in Int
      BY <1>2, <2>2, BeyondFacts
    <3>4. Beyond(g, b, p, d) <= 0
      BY <2>4, <3>1, <3>2, <3>3
    <3> QED BY <2>1, <3>4 DEF b
  <2> QED BY <1>2, <2>2, <2>6, <2>7, FlatterFacts
<1>4. m..n \subseteq T
  <2>1. m \in T /\ m \in Int /\ n \in Int
    BY <1>1, <1>2
  <2> HIDE DEF T, n
  <2> QED BY ONLY <1>3, <2>1, IntervalInduction
<1>5. ASSUME NEW j \in 0+1..m-k, j - 1 \in U PROVE j \in U
  <2> DEFINE i == m - (j - 1)
             a == c[m-j]  b == c[i]
             s == Minus(b, a)
             t == Minus(p, b)
  <2>1. i \in k+1..m /\ i \in k+1..n /\ i - 1 = m - j /\ i \in k..m
    BY <1>1
  <2>2. a \in Plane /\ b \in Plane /\ a.x < b.x /\ a.x <= b.x /\ b.x < p.x /\ s \in Slopes
    <3>1. c[i-1] \in Plane /\ c[i] \in Plane /\ c[i-1].x < c[i].x /\ Minus(c[i], c[i-1]) \in Slopes
      <4> HIDE DEF i
      <4> QED BY <2>1, ChainFacts
    <3> QED BY <2>1, <3>1, PlaneTypes
  <2>3. Beyond(g, p, a, s) <= 0
    <3>1. Edge(g, c, p, i) <= 0
      BY <2>1
    <3> QED BY <2>1, <3>1 DEF Edge
  <2>4. Beyond(g, b, p, d) <= 0
    BY <1>5
  <2> HIDE DEF a, b, i
  <2>5. t \in Slopes /\ Beyond(g, b, a, s) = 0
    BY <2>2, BeyondChord
  <2>6. Flatter(g, t, s)
    <3>1. Beyond(g, p, a, s) = Beyond(g, p, b, s) + Beyond(g, b, a, s)
      BY <2>2, BeyondSum
    <3>2. Beyond(g, p, b, s) <= 0
      BY <2>2, <2>3, <2>5, <3>1, BeyondFacts
    <3> QED BY <2>2, <3>2, BeyondChord
  <2>7. Flatter(g, d, t)
    <3>1. Beyond(g, p, b, d) = 0 - Beyond(g, b, p, d) /\ Beyond(g, b, p, d) \in Int
      BY <1>2, <2>2, BeyondFacts
    <3>2. Beyond(g, p, b, d) >= 0
      BY <2>4, <3>1
    <3> QED BY <1>2, <2>2, <3>2, BeyondChord
  <2> HIDE DEF s, t
  <2>8. Flatter(g, d, s)
    BY <1>2, <2>2, <2>5, <2>6, <2>7, FlatterFacts
  <2>9. Beyond(g, a, b, d) <= 0
    <3>1. Beyond(g, a, b, s) = 0
      <4>1. Beyond(g, a, b, s) = 0 - Beyond(g, b, a, s)
        BY <2>2, BeyondFacts
      <4> QED BY <2>5, <4>1
    <3>2. Beyond(g, a, b, s) <= 0
      BY <3>1
    <3> QED BY ONLY <1>2, <2>2, <2>8, <3>2, g \in Sides, BeyondFlatter
  <2>10. Beyond(g, a, p, d) <= 0
    <3>1. Beyond(g, a, p, d) = Beyond(g, a, b, d) + Beyond(g, b, p, d)
      BY <1>2, <2>2, BeyondSum
    <3>2. Beyond(g, a, b, d) \in Int /\ Beyond(g, b, p, d) \in Int
      BY <1>2, <2>2, BeyondFacts
    <3> QED BY <2>4, <2>9, <3>1, <3>2
  <2>11. j \in 0..m-k
    BY <1>1
  <2> QED BY <2>10, <2>11 DEF a
<1>6. 0..m-k \subseteq U
  <2>1. 0 \in U /\ m - k \in Int
    BY <1>1, <1>2
  <2> DEFINE w == m - k
  <2>2. w \in Int /\ 0 \in Int
    BY <2>1
  <2> HIDE DEF U
  <2>3. \A j \in 0+1..w : j - 1 \in U => j \in U
    BY <1>5
  <2>4. 0..w \subseteq U
    <3> HIDE DEF w
    <3> QED BY ONLY <2>1, <2>2, <2>3, IntervalInduction
  <2> QED BY <2>4 DEF w
<1>7. ASSUME NEW j \in k..n PROVE Beyond(g, c[j], p, d) <= 0
  <2>1. CASE j \in m..n
    BY <1>4, <2>1
  <2>2. CASE m - j \in 0..m-k
    <3>1. m - (m - j) = j
      BY <1>1
    <3> QED BY <1>6, <2>2, <3>1
  <2> QED BY <1>1, <2>1, <2>2
<1>8. ASSUME NEW j \in k..n PROVE Beyond(g, c[j], c[m], d) <= 0
  <2>1. Beyond(g, c[j], c[m], d) = Beyond(g, c[j], p, d) + Beyond(g, p, c[m], d)
    BY <1>1, <1>2, BeyondSum
  <2> QED BY <1>1, <1>2, <1>7, <2>1, BeyondFacts
<1> QED BY <1>8 DEF n, d

(* Place m of a hull, where the line to p touches it.                      *)
Touches(g, c, k, p, m) ==
  /\ m \in k..Len(c) /\ c[m].x < p.x
  /\ \A j \in k..Len(c) : Beyond(g, c[j], c[m], Minus(p, c[m])) <= 0

LEMMA TurnTouches ==
  ASSUME NEW g \in Sides, NEW c, NEW k, Chain(g, c, k), NEW p \in Plane,
         \A i \in k..Len(c) : Past(g, p, c[i]), c[k].x < p.x,
         NEW S, S = {m \in k..Len(c) : \A i \in k+1..m : ~(Edge(g, c, p, i) > 0)}
  PROVE  Touches(g, c, k, p, Max(S))
<1> DEFINE n == Len(c)
           m == Max(S)
<1>1. /\ n \in Nat /\ k \in Nat \ {0} /\ k <= n
      /\ \A i \in k..n : c[i] \in Plane
      /\ \A i \in k+1..n : /\ i - 1 \in k..n /\ i \in k..n
                           /\ c[i-1].x < c[i].x /\ Minus(c[i], c[i-1]) \in Slopes
  BY ChainFacts
<1>2. \A i \in k+1..n : Edge(g, c, p, i) \in Int
  <2> TAKE i \in k+1..n
  <2>1. c[i-1] \in Plane /\ c[i] \in Plane /\ Minus(c[i], c[i-1]) \in Slopes
    BY <1>1
  <2> QED BY <2>1, BeyondFacts DEF Edge
<1>3. m \in S /\ \A y \in S : y <= m
  <2>1. k \in S
    BY <1>1
  <2>2. S \subseteq k..n /\ S # {} /\ k \in Int /\ n \in Int
    BY <1>1, <2>1
  <2> HIDE DEF n
  <2> QED BY ONLY <2>2, MaxOfInterval DEF m
<1> HIDE DEF m
<1>4. m \in k..n /\ \A i \in k+1..m : ~(Edge(g, c, p, i) > 0)
  BY <1>3
<1>5. \A i \in k+1..m : Edge(g, c, p, i) <= 0
  <2> TAKE i \in k+1..m
  <2>1. i \in k+1..n
    BY <1>1, <1>4
  <2> QED BY <1>2, <1>4, <2>1
<1>6. ASSUME m < n PROVE Edge(g, c, p, m+1) >= 0
  <2>1. m + 1 \in k+1..n /\ m + 1 \in k..n /\ ~(m + 1 <= m)
    BY <1>1, <1>4, <1>6
  <2>2. m + 1 \notin S
    BY <1>3, <2>1
  <2>3. PICK i \in k+1..m+1 : Edge(g, c, p, i) > 0
    BY <2>1, <2>2
  <2>4. i = m + 1
    BY <1>1, <1>4, <2>3
  <2> QED BY <1>2, <2>1, <2>3, <2>4
<1>7. \A i \in k..n : c[i].x <= p.x
  <2> TAKE i \in k..n
  <2>1. c[i] \in Plane /\ Past(g, p, c[i])
    BY <1>1
  <2> QED BY <2>1, PlaneTypes DEF Past
<1>8. \A i \in k..m : c[i].x < p.x
  <2> TAKE i \in k..m
  <2>1. CASE i = k
    BY <2>1
  <2>2. CASE i # k
    <3> DEFINE o == c[i-1]  a == c[i]
               s == Minus(a, o)
    <3>1. i \in k+1..m /\ i \in k+1..n /\ i \in k..n
      BY <1>1, <1>4, <2>2
    <3>2. o \in Plane /\ a \in Plane /\ o.x < a.x /\ Past(g, p, a)
      BY <1>1, <3>1
    <3>3. Beyond(g, p, o, s) <= 0
      BY <1>5, <3>1 DEF Edge
    <3> HIDE DEF o, a
    <3>4. s \in Slopes /\ Beyond(g, a, o, s) = 0
      BY <3>2, BeyondChord
    <3> HIDE DEF s
    <3>5. Beyond(g, p, a, s) <= 0
      <4>1. Beyond(g, p, o, s) = Beyond(g, p, a, s) + Beyond(g, a, o, s)
        BY <3>2, <3>4, BeyondSum
      <4> QED BY <3>2, <3>3, <3>4, <4>1, BeyondFacts
    <3>6. a.x < p.x
      <4>1. SUFFICES ASSUME ~(a.x < p.x) PROVE FALSE
        OBVIOUS
      <4> DEFINE u == s.dx  y == p.y - a.y
      <4>2. a.x = p.x /\ u \in Nat \ {0} /\ y \in Int /\ s.dy \in Int /\ p.x - a.x = 0
        BY <3>2, <3>4, <4>1, PlaneTypes, SlopeTypes DEF Past
      <4>3. IF g = 1 THEN y > 0 ELSE y < 0
        BY <3>2, <4>1, PlaneTypes DEF Past
      <4>4. Rise(p, a, s) = y * u
        <5>1. s.dy * 0 = 0 /\ y * u \in Int
          BY <4>2, Products
        <5> QED BY <4>2, <5>1 DEF Rise
      <4> HIDE DEF u, y
      <4>5. IF g = 1 THEN y * u > 0 ELSE y * u < 0
        <5>1. y * u \in Int /\ 0 * u = 0
          BY <4>2, Products
        <5>2. ~(y * u <= 0 * u) <=> ~(y <= 0)
          BY <4>2, Multiply
        <5>3. ~(0 * u <= y * u) <=> ~(0 <= y)
          BY <4>2, Multiply
        <5> QED BY <4>2, <4>3, <5>1, <5>2, <5>3
      <4>6. y * u \in Int
        BY <4>2, Products
      <4> QED BY <3>5, <4>4, <4>5, <4>6 DEF Beyond
    <3> QED BY <3>6 DEF a
  <2> QED BY <2>1, <2>2
<1>9. \A j \in k..n : Beyond(g, c[j], c[m], Minus(p, c[m])) <= 0
  BY <1>4, <1>5, <1>6, <1>7, <1>8, Tangent
<1>10. m \in k..m
  BY <1>1, <1>4
<1> QED BY <1>4, <1>8, <1>9, <1>10 DEF Touches, m, n

(* The walk along the lower hull, and the one along the upper.             *)
LEMMA ExtremeTouches ==
  ASSUME NEW c, NEW k, NEW p \in Plane
  PROVE  /\ Chain(1, c, k) /\ (\A i \in k..Len(c) : Past(1, p, c[i])) /\ c[k].x < p.x
              => Touches(1, c, k, p, Extreme(c, k, p, Steeper))
         /\ Chain(-1, c, k) /\ (\A i \in k..Len(c) : Past(-1, p, c[i])) /\ c[k].x < p.x
              => Touches(-1, c, k, p, Extreme(c, k, p, LAMBDA s, t : Steeper(t, s)))
<1>1. 1 \in Sides /\ -1 \in Sides
  BY DEF Sides
<1>2. ASSUME Chain(1, c, k), \A i \in k..Len(c) : Past(1, p, c[i]), c[k].x < p.x
      PROVE  Touches(1, c, k, p, Extreme(c, k, p, Steeper))
  <2> DEFINE S == {m \in k..Len(c) : \A i \in k+1..m : ~(Edge(1, c, p, i) > 0)}
             T == {m \in k..Len(c) :
                     \A i \in k+1..m : ~Steeper(Minus(c[i], p), Minus(c[i-1], p))}
  <2>1. Extreme(c, k, p, Steeper) = Max(T)
    BY DEF Extreme
  <2>2. ASSUME NEW m \in k..Len(c), NEW i \in k+1..m
        PROVE  Steeper(Minus(c[i], p), Minus(c[i-1], p)) <=> Edge(1, c, p, i) > 0
    <3>1. i \in k+1..Len(c)
      BY <1>1, <1>2, ChainFacts
    <3>2. c[i-1] \in Plane /\ c[i] \in Plane /\ c[i-1].x < c[i].x
      BY <1>1, <1>2, <3>1, ChainFacts
    <3> QED BY <3>2, WorseIsBeyond DEF Edge
  <2>3. S = T
    BY <2>2
  <2>4. Touches(1, c, k, p, Max(S))
    <3> HIDE DEF S
    <3>1. S = {m \in k..Len(c) : \A i \in k+1..m : ~(Edge(1, c, p, i) > 0)}
      BY DEF S
    <3> QED BY <1>1, <1>2, <3>1, TurnTouches
  <2> HIDE DEF S, T
  <2> QED BY <2>1, <2>3, <2>4
<1>3. ASSUME Chain(-1, c, k), \A i \in k..Len(c) : Past(-1, p, c[i]), c[k].x < p.x
      PROVE  Touches(-1, c, k, p, Extreme(c, k, p, LAMBDA s, t : Steeper(t, s)))
  <2> DEFINE S == {m \in k..Len(c) : \A i \in k+1..m : ~(Edge(-1, c, p, i) > 0)}
             T == {m \in k..Len(c) :
                     \A i \in k+1..m : ~Steeper(Minus(c[i-1], p), Minus(c[i], p))}
  <2>1. Extreme(c, k, p, LAMBDA s, t : Steeper(t, s)) = Max(T)
    BY DEF Extreme
  <2>2. ASSUME NEW m \in k..Len(c), NEW i \in k+1..m
        PROVE  Steeper(Minus(c[i-1], p), Minus(c[i], p)) <=> Edge(-1, c, p, i) > 0
    <3>1. i \in k+1..Len(c)
      BY <1>1, <1>3, ChainFacts
    <3>2. c[i-1] \in Plane /\ c[i] \in Plane /\ c[i-1].x < c[i].x
      BY <1>1, <1>3, <3>1, ChainFacts
    <3> QED BY <3>2, WorseIsBeyond DEF Edge
  <2>3. S = T
    BY <2>2
  <2>4. Touches(-1, c, k, p, Max(S))
    <3> HIDE DEF S
    <3>1. S = {m \in k..Len(c) : \A i \in k+1..m : ~(Edge(-1, c, p, i) > 0)}
      BY DEF S
    <3> QED BY <1>1, <1>3, <3>1, TurnTouches
  <2> HIDE DEF S, T
  <2> QED BY <2>1, <2>3, <2>4
<1> QED BY <1>2, <1>3

(* A line with no point of a hull beyond it.                               *)
Under(g, c, k, q, s) == \A j \in k..Len(c) : Beyond(g, c[j], q, s) <= 0

(* The hull w is u with p: what is gone bounds no line.                    *)
Wraps(g, u, k, p, w) ==
  /\ Chain(g, w, k) /\ w[k] = u[k] /\ w[Len(w)] = p
  /\ \A j \in k..Len(w) : w[j] = p \/ \E i \in k..Len(u) : w[j] = u[i]
  /\ \A q \in Plane, s \in Slopes : Under(g, w, k, q, s) => Under(g, u, k, q, s)

LEMMA WrappingWraps ==
  ASSUME NEW g \in Sides, NEW u, NEW k, Chain(g, u, k), NEW p \in Plane,
         \A i \in k..Len(u) : u[i].x < p.x,
         NEW S, S = {e \in 0..Len(u) : e <= k \/ ~(Edge(g, u, p, e) >= 0)}
  PROVE  Wraps(g, u, k, p, Append(SubSeq(u, 1, Max(S)), p))
<1> DEFINE n == Len(u)
           e == Max(S)
           w == Append(SubSeq(u, 1, e), p)
<1>1. /\ u \in Seq(Plane) /\ n \in Nat /\ k \in Nat \ {0} /\ k <= n
      /\ \A i \in k..n : u[i] \in Plane
      /\ \A i \in k+1..n : /\ i - 1 \in k..n /\ i \in k..n
                           /\ u[i-1].x < u[i].x /\ Minus(u[i], u[i-1]) \in Slopes
  BY ChainFacts
<1>2. \A i \in k+1..n : Edge(g, u, p, i) \in Int
  <2> TAKE i \in k+1..n
  <2>1. u[i-1] \in Plane /\ u[i] \in Plane /\ Minus(u[i], u[i-1]) \in Slopes
    BY <1>1
  <2> QED BY <2>1, BeyondFacts DEF Edge
<1>3. e \in S /\ \A y \in S : y <= e
  <2>1. k \in S
    BY <1>1
  <2>2. S \subseteq 0..n /\ S # {} /\ 0 \in Int /\ n \in Int
    BY <1>1, <2>1
  <2> HIDE DEF n
  <2> QED BY ONLY <2>2, MaxOfInterval DEF e
<1> HIDE DEF e
<1>4. e \in k..n /\ (e > k => Edge(g, u, p, e) < 0)
  <2>1. k \in S
    BY <1>1
  <2>2. e \in k..n
    BY <1>1, <1>3, <2>1
  <2>3. ASSUME e > k PROVE Edge(g, u, p, e) < 0
    <3>1. e \in k+1..n /\ ~(e <= k)
      BY <1>1, <2>2, <2>3
    <3> QED BY <1>2, <1>3, <3>1
  <2> QED BY <2>2, <2>3
<1>5. \A j \in e+1..n : Edge(g, u, p, j) >= 0
  <2> TAKE j \in e+1..n
  <2>1. j \in 0..n /\ ~(j <= k) /\ ~(j <= e)
    BY <1>1, <1>4
  <2> QED BY <1>3, <2>1
<1>6. /\ w \in Seq(Plane) /\ Len(w) = e + 1
      /\ \A i \in 1..e : w[i] = u[i]
      /\ w[e+1] = p
  <2>1. /\ SubSeq(u, 1, e) \in Seq(Plane) /\ Len(SubSeq(u, 1, e)) = e
        /\ \A i \in 1..e : SubSeq(u, 1, e)[i] = u[i]
    BY <1>1, <1>4
  <2> DEFINE v == SubSeq(u, 1, e)
  <2> HIDE DEF v
  <2>2. v \in Seq(Plane) /\ Len(v) = e /\ (\A i \in 1..e : v[i] = u[i])
    BY <2>1 DEF v
  <2>3. /\ Append(v, p) \in Seq(Plane) /\ Len(Append(v, p)) = e + 1
        /\ \A i \in 1..e : Append(v, p)[i] = v[i]
        /\ Append(v, p)[e+1] = p
    BY ONLY <2>2, p \in Plane, AppendProperties
  <2>4. (\A i \in 1..e : Append(v, p)[i] = u[i]) /\ Append(v, p)[e+1] = p
    BY <2>2, <2>3
  <2> QED BY <2>3, <2>4 DEF v
<1> HIDE DEF w
<1>7. Chain(g, w, k)
  <2>1. k \in 1..Len(w)
    BY <1>1, <1>4, <1>6
  <2>2. ASSUME NEW i \in k+1..Len(w) PROVE w[i-1].x < w[i].x
    <3>1. CASE i \in k+1..e
      <4>1. i \in k+1..n /\ i \in 1..e /\ i - 1 \in 1..e
        BY <1>1, <1>4, <3>1
      <4> QED BY <1>1, <1>6, <4>1
    <3>2. CASE i = e + 1
      <4>1. i - 1 = e /\ e \in 1..e /\ e \in k..n
        BY <1>1, <1>4, <3>2
      <4> QED BY <1>6, <3>2, <4>1
    <3> QED BY <1>1, <1>4, <1>6, <3>1, <3>2
  <2>3. ASSUME NEW i \in k+1..Len(w)-1
        PROVE  Beyond(g, w[i+1], w[i-1], Minus(w[i], w[i-1])) <= 0
    <3>1. i \in k+1..e
      BY <1>1, <1>4, <1>6
    <3>2. i - 1 \in 1..e /\ i \in 1..e /\ i \in k+1..n
      BY <1>1, <1>4, <3>1
    <3>3. w[i-1] = u[i-1] /\ w[i] = u[i]
      BY <1>6, <3>2
    <3>4. CASE i = e
      <4>1. w[i+1] = p /\ e > k
        BY <1>1, <1>4, <1>6, <3>1, <3>4
      <4>2. Edge(g, u, p, i) <= 0
        BY <1>2, <1>4, <3>2, <3>4, <4>1
      <4> QED BY <3>3, <4>1, <4>2 DEF Edge
    <3>5. CASE i # e
      <4>1. i + 1 \in 1..e /\ i \in k+1..n-1
        BY <1>1, <1>4, <3>1, <3>5
      <4>2. w[i+1] = u[i+1]
        BY <1>6, <4>1
      <4>3. Beyond(g, u[i+1], u[i-1], Minus(u[i], u[i-1])) <= 0
        BY <4>1 DEF Chain, n
      <4> QED BY <3>3, <4>2, <4>3
    <3> QED BY <3>4, <3>5
  <2> QED BY <1>6, <2>1, <2>2, <2>3 DEF Chain
<1>8. w[k] = u[k] /\ w[Len(w)] = p
  BY <1>1, <1>4, <1>6
<1>9. \A j \in k..Len(w) : w[j] = p \/ \E i \in k..n : w[j] = u[i]
  <2> TAKE j \in k..Len(w)
  <2>1. CASE j = e + 1
    BY <1>6, <2>1
  <2>2. CASE j # e + 1
    <3>1. j \in 1..e /\ j \in k..n
      BY <1>1, <1>4, <1>6, <2>2
    <3> QED BY <1>6, <3>1
  <2> QED BY <2>1, <2>2
<1>10. ASSUME NEW q \in Plane, NEW s \in Slopes, Under(g, w, k, q, s)
       PROVE  Under(g, u, k, q, s)
  <2> DEFINE T == {j \in e..n : Beyond(g, u[j], q, s) <= 0}
  <2>1. \A j \in k..e : Beyond(g, u[j], q, s) <= 0
    <3> TAKE j \in k..e
    <3>1. j \in 1..e /\ j \in k..Len(w)
      BY <1>1, <1>4, <1>6
    <3>2. Beyond(g, w[j], q, s) <= 0 /\ w[j] = u[j]
      BY <1>6, <1>10, <3>1 DEF Under
    <3> QED BY <3>2
  <2>2. Beyond(g, p, q, s) <= 0
    <3>1. e + 1 \in k..Len(w) /\ w[e+1] = p
      BY <1>1, <1>4, <1>6
    <3> QED BY <1>10, <3>1 DEF Under
  <2>3. ASSUME NEW j \in e+1..n, j - 1 \in T PROVE j \in T
    <3> DEFINE o == u[j-1]  a == u[j]
               t == Minus(a, o)
               z == Minus(p, o)
    <3>1. j \in k+1..n /\ j - 1 \in k..n /\ j \in e..n /\ j \in k..n
      BY <1>1, <1>4
    <3>2. o \in Plane /\ a \in Plane /\ o.x < a.x /\ o.x < p.x /\ a.x < p.x
      BY <1>1, <3>1
    <3>3. Beyond(g, p, o, t) >= 0
      BY <1>5 DEF Edge
    <3>4. Beyond(g, o, q, s) <= 0
      BY <2>3
    <3> HIDE DEF o, a
    <3>5. t \in Slopes /\ z \in Slopes
      BY <3>2, BeyondChord
    <3>6. Flatter(g, t, z)
      BY <3>2, <3>3, <3>5, BeyondChord
    <3>7. Beyond(g, a, o, z) <= 0
      BY <3>2, <3>5, <3>6, BeyondChord
    <3>8. /\ -g \in Sides
          /\ Beyond(-g, a, o, z) = -Beyond(g, a, o, z) /\ Beyond(g, a, o, z) \in Int
          /\ Beyond(-g, o, q, s) = -Beyond(g, o, q, s) /\ Beyond(g, o, q, s) \in Int
          /\ Beyond(-g, p, q, s) = -Beyond(g, p, q, s) /\ Beyond(g, p, q, s) \in Int
          /\ Beyond(-g, a, q, s) = -Beyond(g, a, q, s) /\ Beyond(g, a, q, s) \in Int
      <4>1. -g \in Sides /\ \A b \in Plane, r \in Plane, y \in Slopes :
                               Beyond(-g, b, r, y) = -Beyond(g, b, r, y)
        BY OtherSide
      <4>2. \A b \in Plane, r \in Plane, y \in Slopes : Beyond(g, b, r, y) \in Int
        BY BeyondFacts
      <4> QED BY <3>2, <3>5, <4>1, <4>2
    <3>9. Beyond(-g, a, o, z) >= 0 /\ Beyond(-g, o, q, s) >= 0 /\ Beyond(-g, p, q, s) >= 0
      BY <2>2, <3>4, <3>7, <3>8
    <3>10. o.x <= a.x /\ a.x <= p.x
      BY <3>2, PlaneTypes
    <3>11. Beyond(-g, a, q, s) >= 0
      BY <3>2, <3>8, <3>9, <3>10, BelowChord
    <3>12. Beyond(g, a, q, s) <= 0
      BY <3>8, <3>11
    <3> QED BY <3>1, <3>12 DEF a
  <2>4. e..n \subseteq T
    <3>1. e \in T /\ e \in Int /\ n \in Int
      BY <1>1, <1>4, <2>1
    <3> HIDE DEF T, n
    <3> QED BY ONLY <2>3, <3>1, IntervalInduction
  <2>5. ASSUME NEW j \in k..n PROVE Beyond(g, u[j], q, s) <= 0
    <3>1. j \in k..e \/ j \in e..n
      BY <1>1, <1>4
    <3> QED BY <2>1, <2>4, <3>1
  <2> QED BY <2>5 DEF Under, n
<1> QED BY <1>7, <1>8, <1>9, <1>10 DEF Wraps, w, e, n

LEMMA WrappedWraps ==
  ASSUME NEW u, NEW k, NEW p \in Plane
  PROVE  /\ Chain(1, u, k) /\ (\A i \in k..Len(u) : u[i].x < p.x)
              => Wraps(1, u, k, p, Wrapped(u, k, p, LAMBDA c : c >= 0))
         /\ Chain(-1, u, k) /\ (\A i \in k..Len(u) : u[i].x < p.x)
              => Wraps(-1, u, k, p, Wrapped(u, k, p, LAMBDA c : c <= 0))
<1>1. 1 \in Sides /\ -1 \in Sides
  BY DEF Sides
<1>2. ASSUME NEW g \in Sides, Chain(g, u, k), NEW e \in 0..Len(u), ~(e <= k)
      PROVE  Edge(g, u, p, e) >= 0 <=> IF g = 1 THEN Cross(u[e-1], u[e], p) >= 0
                                                ELSE Cross(u[e-1], u[e], p) <= 0
  <2>1. e \in k+1..Len(u)
    BY <1>2, ChainFacts
  <2>2. u[e-1] \in Plane /\ u[e] \in Plane /\ Minus(u[e], u[e-1]) \in Slopes
    BY <1>2, <2>1, ChainFacts
  <2> DEFINE r == Rise(p, u[e-1], Minus(u[e], u[e-1]))
  <2>3. r \in Int /\ Cross(u[e-1], u[e], p) = r
    BY <2>2, RiseType, CrossIsRise
  <2>4. Edge(g, u, p, e) = IF g = 1 THEN r ELSE -r
    BY DEF Edge, Beyond
  <2> HIDE DEF r
  <2> QED BY <2>3, <2>4
<1>3. ASSUME Chain(1, u, k), \A i \in k..Len(u) : u[i].x < p.x
      PROVE  Wraps(1, u, k, p, Wrapped(u, k, p, LAMBDA c : c >= 0))
  <2> DEFINE S == {e \in 0..Len(u) : e <= k \/ ~(Edge(1, u, p, e) >= 0)}
             T == {e \in 0..Len(u) : e <= k \/ ~(Cross(u[e-1], u[e], p) >= 0)}
  <2>1. Wrapped(u, k, p, LAMBDA c : c >= 0) = Append(SubSeq(u, 1, Max(T)), p)
    BY DEF Wrapped
  <2>2. S = T
    BY <1>1, <1>2, <1>3
  <2>3. Wraps(1, u, k, p, Append(SubSeq(u, 1, Max(S)), p))
    <3>1. S = {e \in 0..Len(u) : e <= k \/ ~(Edge(1, u, p, e) >= 0)}
      OBVIOUS
    <3> HIDE DEF S
    <3> QED BY <1>1, <1>3, <3>1, WrappingWraps
  <2> HIDE DEF S, T
  <2> QED BY <2>1, <2>2, <2>3
<1>4. ASSUME Chain(-1, u, k), \A i \in k..Len(u) : u[i].x < p.x
      PROVE  Wraps(-1, u, k, p, Wrapped(u, k, p, LAMBDA c : c <= 0))
  <2> DEFINE S == {e \in 0..Len(u) : e <= k \/ ~(Edge(-1, u, p, e) >= 0)}
             T == {e \in 0..Len(u) : e <= k \/ ~(Cross(u[e-1], u[e], p) <= 0)}
  <2>1. Wrapped(u, k, p, LAMBDA c : c <= 0) = Append(SubSeq(u, 1, Max(T)), p)
    BY DEF Wrapped
  <2>2. S = T
    BY <1>1, <1>2, <1>4
  <2>3. Wraps(-1, u, k, p, Append(SubSeq(u, 1, Max(S)), p))
    <3>1. S = {e \in 0..Len(u) : e <= k \/ ~(Edge(-1, u, p, e) >= 0)}
      OBVIOUS
    <3> HIDE DEF S
    <3> QED BY <1>1, <1>4, <3>1, WrappingWraps
  <2> HIDE DEF S, T
  <2> QED BY <2>1, <2>2, <2>3
<1> QED BY <1>3, <1>4

-----------------------------------------------------------------------------
(* The two hulls.  A are the points no line may pass above, B those none   *)
(* may pass below, for g = 1; for g = -1 the other way round.  The first   *)
(* point of each hull and the last of the other span the rectangle.        *)
Reach(from, k, to) == Minus(to[Len(to)], from[k])
Fan(g, s, t) == {z \in Slopes : Flatter(g, s, z) /\ Flatter(g, z, t)}

Covers(g, c, k, C, S) ==
  \A q \in Plane, s \in S : Under(g, c, k, q, s) => \A x \in C : Beyond(g, x, q, s) <= 0

Hull(g, c, k, C, S) ==
  /\ Chain(g, c, k)
  /\ \A j \in k..Len(c) : c[j] \in C
  /\ Covers(g, c, k, C, S)

Fits(g, q, s, A, B) ==
  /\ \A a \in A : Beyond(g, a, q, s) >= 0
  /\ \A b \in B : Beyond(g, b, q, s) <= 0

Hulls(g, up, us, lo, ls, A, B) ==
  LET least == Reach(up, us, lo)
      most == Reach(lo, ls, up)
  IN /\ A \subseteq Plane /\ B \subseteq Plane
     /\ Hull(-g, up, us, A, Fan(g, least, most))
     /\ Hull(g, lo, ls, B, Fan(g, least, most))
     /\ up[us].x < lo[Len(lo)].x /\ lo[ls].x < up[Len(up)].x
     /\ Flatter(g, least, most)
     /\ Fits(g, up[us], least, A, B)
     /\ Fits(g, lo[ls], most, A, B)

LEMMA HullsFacts ==
  ASSUME NEW g \in Sides, NEW up, NEW us, NEW lo, NEW ls, NEW A, NEW B,
         Hulls(g, up, us, lo, ls, A, B),
         NEW least, least = Reach(up, us, lo), NEW most, most = Reach(lo, ls, up)
  PROVE  /\ A \subseteq Plane /\ B \subseteq Plane
         /\ Hull(-g, up, us, A, Fan(g, least, most))
         /\ Hull(g, lo, ls, B, Fan(g, least, most))
         /\ up[us].x < lo[Len(lo)].x /\ lo[ls].x < up[Len(up)].x
         /\ Flatter(g, least, most)
         /\ Fits(g, up[us], least, A, B)
         /\ Fits(g, lo[ls], most, A, B)
         /\ up[us] \in A /\ up[Len(up)] \in A /\ lo[ls] \in B /\ lo[Len(lo)] \in B
         /\ least \in Slopes /\ most \in Slopes
         /\ Beyond(g, lo[Len(lo)], up[us], least) = 0
         /\ Beyond(g, up[Len(up)], lo[ls], most) = 0
<1>1. /\ A \subseteq Plane /\ B \subseteq Plane
      /\ Hull(-g, up, us, A, Fan(g, least, most))
      /\ Hull(g, lo, ls, B, Fan(g, least, most))
      /\ up[us].x < lo[Len(lo)].x /\ lo[ls].x < up[Len(up)].x
      /\ Flatter(g, least, most)
      /\ Fits(g, up[us], least, A, B)
      /\ Fits(g, lo[ls], most, A, B)
  BY DEF Hulls
<1>2. up[us] \in A /\ up[Len(up)] \in A
  <2>1. us \in us..Len(up) /\ Len(up) \in us..Len(up)
    BY <1>1, OtherSide, ChainFacts DEF Hull
  <2> QED BY <1>1, <2>1 DEF Hull
<1>3. lo[ls] \in B /\ lo[Len(lo)] \in B
  <2>1. ls \in ls..Len(lo) /\ Len(lo) \in ls..Len(lo)
    BY <1>1, ChainFacts DEF Hull
  <2> QED BY <1>1, <2>1 DEF Hull
<1>4. up[us] \in Plane /\ up[Len(up)] \in Plane /\ lo[ls] \in Plane /\ lo[Len(lo)] \in Plane
  BY <1>1, <1>2, <1>3
<1>5. /\ least \in Slopes /\ most \in Slopes
      /\ Beyond(g, lo[Len(lo)], up[us], least) = 0
      /\ Beyond(g, up[Len(up)], lo[ls], most) = 0
  BY <1>1, <1>4, BeyondChord DEF Reach
<1> QED BY <1>1, <1>2, <1>3, <1>5

LEMMA ChainAscends ==
  ASSUME NEW g \in Sides, NEW c, NEW k, Chain(g, c, k), NEW m \in k..Len(c)
  PROVE  \A j \in k..m : c[j].x <= c[m].x
<1> DEFINE T == {i \in k..Len(c) : \A j \in k..i : c[j].x <= c[i].x}
           n == Len(c)
<1>1. n \in Int /\ k \in Int /\ k <= n /\ \A i \in k..n : c[i] \in Plane
  BY ChainFacts
<1>2. k \in T
  <2>1. \A j \in k..k : j = k
    BY <1>1
  <2>2. c[k].x <= c[k].x
    BY <1>1, PlaneTypes
  <2> QED BY <1>1, <2>1, <2>2
<1>3. ASSUME NEW i \in k+1..n, i - 1 \in T PROVE i \in T
  <2>1. c[i-1].x < c[i].x /\ i - 1 \in k..n /\ i \in k..n
    BY ChainFacts
  <2>2. ASSUME NEW j \in k..i PROVE c[j].x <= c[i].x
    <3>1. CASE j = i
      BY <1>1, <2>1, <3>1, PlaneTypes
    <3>2. CASE j # i
      <4>1. j \in k..i-1 /\ j \in k..n
        BY <1>1, <2>1, <3>2
      <4>2. c[j].x <= c[i-1].x
        BY <1>3, <4>1
      <4> QED BY <1>1, <2>1, <4>1, <4>2, PlaneTypes
    <3> QED BY <3>1, <3>2
  <2> QED BY <2>1, <2>2
<1>4. k..n \subseteq T
  <2> HIDE DEF T, n
  <2> QED BY ONLY <1>1, <1>2, <1>3, IntervalInduction
<1> QED BY <1>4

(* A point below whose predecessors all admitted lines may pass.           *)
LEMMA LooseStep ==
  ASSUME NEW g \in Sides, NEW up, NEW us, NEW lo, NEW ls, NEW A, NEW B,
         Hulls(g, up, us, lo, ls, A, B), NEW p \in Plane,
         \A a \in A : a.x < p.x,
         Beyond(g, p, up[us], Reach(up, us, lo)) >= 0,
         Beyond(g, p, lo[ls], Reach(lo, ls, up)) >= 0
  PROVE  Hulls(g, up, us, lo, ls, A \cup {p}, B)
<1> DEFINE least == Reach(up, us, lo)
           most == Reach(lo, ls, up)
           fan == Fan(g, least, most)
           z == up[Len(up)]
           f == lo[ls]
<1>1. /\ A \subseteq Plane /\ B \subseteq Plane
      /\ Hull(-g, up, us, A, fan) /\ Hull(g, lo, ls, B, fan)
      /\ up[us].x < lo[Len(lo)].x /\ f.x < z.x
      /\ Flatter(g, least, most)
      /\ Fits(g, up[us], least, A, B) /\ Fits(g, f, most, A, B)
      /\ z \in A /\ f \in B /\ least \in Slopes /\ most \in Slopes
      /\ Beyond(g, z, f, most) = 0
  BY HullsFacts
<1> HIDE DEF least, most, fan, z, f
<1>2. Fits(g, up[us], least, A \cup {p}, B) /\ Fits(g, f, most, A \cup {p}, B)
  BY <1>1 DEF Fits, least, most, f
<1>3. Beyond(g, p, z, most) >= 0
  <2>1. Beyond(g, p, f, most) = Beyond(g, p, z, most) + Beyond(g, z, f, most)
    BY <1>1, BeyondSum
  <2>2. Beyond(g, p, f, most) >= 0
    BY DEF f, most
  <2>3. Beyond(g, p, z, most) \in Int
    BY <1>1, BeyondFacts
  <2> QED BY <1>1, <2>1, <2>2, <2>3
<1>4. ASSUME NEW q \in Plane, NEW s \in fan, Under(-g, up, us, q, s)
      PROVE  Beyond(-g, p, q, s) <= 0
  <2>1. s \in Slopes /\ Flatter(g, s, most)
    BY DEF fan, Fan
  <2>2. z \in Plane /\ z.x <= p.x
    BY <1>1, PlaneTypes
  <2>3. Beyond(-g, z, q, s) <= 0
    BY <1>1, <1>4 DEF Hull, Covers
  <2>4. Beyond(g, p, z, s) >= 0
    BY <1>1, <1>3, <2>1, <2>2, BeyondFlatter
  <2>5. /\ Beyond(-g, z, q, s) = -Beyond(g, z, q, s) /\ Beyond(g, z, q, s) \in Int
        /\ Beyond(-g, p, q, s) = -Beyond(g, p, q, s) /\ Beyond(g, p, q, s) \in Int
        /\ Beyond(g, p, z, s) \in Int
    <3>1. \A b \in Plane, r \in Plane, y \in Slopes :
            Beyond(-g, b, r, y) = -Beyond(g, b, r, y)
      BY OtherSide
    <3> QED BY <2>1, <2>2, <3>1, BeyondFacts
  <2>6. Beyond(g, p, q, s) = Beyond(g, p, z, s) + Beyond(g, z, q, s)
    BY <2>1, <2>2, BeyondSum
  <2> QED BY <2>3, <2>4, <2>5, <2>6
<1>5. Hull(-g, up, us, A \cup {p}, fan)
  <2>1. Covers(-g, up, us, A \cup {p}, fan)
    BY <1>1, <1>4 DEF Hull, Covers
  <2> QED BY <1>1, <2>1 DEF Hull
<1> QED BY <1>1, <1>2, <1>5 DEF Hulls, least, most, fan, z, f

(* A point that lowers the steepest line: it turns about the hull below,   *)
(* and the hull the point belongs to is wrapped.                           *)
LEMMA TightStep ==
  ASSUME NEW g \in Sides, NEW up, NEW us, NEW lo, NEW ls, NEW A, NEW B,
         Hulls(g, up, us, lo, ls, A, B), NEW p \in Plane,
         \A a \in A : a.x < p.x, lo[ls].x < p.x,
         Beyond(g, p, up[us], Reach(up, us, lo)) >= 0,
         Beyond(g, p, lo[ls], Reach(lo, ls, up)) < 0,
         NEW m, Touches(g, lo, ls, p, m), NEW w, Wraps(-g, up, us, p, w)
  PROVE  Hulls(g, w, us, lo, m, A \cup {p}, B)
<1> DEFINE least == Reach(up, us, lo)
           most == Reach(lo, ls, up)
           fan == Fan(g, least, most)
           f == lo[ls]
           h == up[us]
           z == lo[m]
           n == Minus(p, z)
           fan2 == Fan(g, least, n)
<1>1. /\ A \subseteq Plane /\ B \subseteq Plane
      /\ Hull(-g, up, us, A, fan) /\ Hull(g, lo, ls, B, fan)
      /\ h.x < lo[Len(lo)].x
      /\ Flatter(g, least, most)
      /\ Fits(g, h, least, A, B) /\ Fits(g, f, most, A, B)
      /\ h \in A /\ f \in B /\ least \in Slopes /\ most \in Slopes
  BY HullsFacts
<1>2. /\ m \in ls..Len(lo) /\ z \in B /\ z.x < p.x
      /\ \A j \in ls..Len(lo) : Beyond(g, lo[j], z, n) <= 0
      /\ \A j \in ls..Len(lo) : lo[j] \in B
  BY <1>1 DEF Touches, Hull
<1>3. z \in Plane /\ f \in Plane /\ h \in Plane /\ f.x < p.x
  BY <1>1, <1>2
<1>4. /\ Chain(-g, w, us) /\ w[us] = h /\ w[Len(w)] = p
      /\ \A j \in us..Len(w) : w[j] = p \/ \E i \in us..Len(up) : w[j] = up[i]
      /\ \A q \in Plane, s \in Slopes : Under(-g, w, us, q, s) => Under(-g, up, us, q, s)
  BY DEF Wraps
<1>5. Reach(w, us, lo) = least /\ Reach(lo, m, w) = n
  BY <1>4 DEF Reach
<1>6. Beyond(g, p, h, least) >= 0 /\ Beyond(g, p, f, most) <= 0
  <2>1. Beyond(g, p, f, most) < 0 /\ Beyond(g, p, f, most) \in Int
    <3>1. Beyond(g, p, f, most) < 0
      OBVIOUS
    <3> HIDE DEF f, most
    <3> QED BY <1>1, <1>3, <3>1, BeyondFacts
  <2>2. Beyond(g, p, h, least) >= 0
    OBVIOUS
  <2> HIDE DEF f, most
  <2> QED BY <2>1, <2>2
<1>7. n \in Slopes /\ Beyond(g, p, z, n) = 0
  <2> HIDE DEF z
  <2> QED BY <1>2, <1>3, BeyondChord
<1> HIDE DEF least, most, fan, f, h, z, n, fan2
<1>8. Flatter(g, n, most)
  <2> DEFINE t == Minus(p, f)
  <2>1. t \in Slopes
    BY <1>3, BeyondChord
  <2>2. Flatter(g, t, most)
    <3> QED BY <1>1, <1>3, <1>6, BeyondChord
  <2>3. Beyond(g, p, f, n) >= 0
    <3>1. Beyond(g, f, z, n) <= 0
      <4>1. ls \in ls..Len(lo)
        BY <1>1, ChainFacts DEF Hull
      <4> QED BY <1>2, <4>1 DEF f
    <3>2. Beyond(g, p, z, n) = Beyond(g, p, f, n) + Beyond(g, f, z, n)
      BY <1>3, <1>7, BeyondSum
    <3>3. Beyond(g, p, f, n) \in Int /\ Beyond(g, f, z, n) \in Int
      BY <1>3, <1>7, BeyondFacts
    <3> QED BY <1>7, <3>1, <3>2, <3>3
  <2>4. Flatter(g, n, t)
    BY <1>3, <1>7, <2>3, BeyondChord
  <2> HIDE DEF t
  <2> QED BY <1>1, <1>7, <2>1, <2>2, <2>4, FlatterFacts
<1>9. Flatter(g, least, n)
  <2>1. Beyond(g, p, z, least) >= 0
    <3>1. Beyond(g, z, h, least) <= 0
      BY <1>1, <1>2 DEF Fits
    <3>2. Beyond(g, p, h, least) = Beyond(g, p, z, least) + Beyond(g, z, h, least)
      BY <1>1, <1>3, BeyondSum
    <3>3. Beyond(g, p, z, least) \in Int /\ Beyond(g, z, h, least) \in Int
      BY <1>1, <1>3, BeyondFacts
    <3> QED BY <1>6, <3>1, <3>2, <3>3
  <2> QED BY <1>1, <1>2, <1>3, <2>1, BeyondChord DEF n
<1>10. fan2 \subseteq fan /\ n \in fan /\ \A s \in fan2 : s \in Slopes /\ Flatter(g, s, n)
  <2>1. \A s \in Slopes : Flatter(g, s, n) => Flatter(g, s, most)
    BY <1>1, <1>7, <1>8, FlatterFacts
  <2> QED BY <1>7, <1>8, <1>9, <2>1 DEF fan, fan2, Fan
<1>11. Fits(g, h, least, A \cup {p}, B)
  BY <1>1, <1>6 DEF Fits
<1>12. Fits(g, z, n, A \cup {p}, B)
  <2>1. ASSUME NEW b \in B PROVE Beyond(g, b, z, n) <= 0
    <3>1. Under(g, lo, ls, z, n)
      BY <1>2 DEF Under
    <3> QED BY <1>1, <1>3, <1>10, <3>1 DEF Hull, Covers
  <2>2. ASSUME NEW u \in A PROVE Beyond(g, u, z, n) >= 0
    <3>1. u \in Plane /\ u.x < p.x /\ u.x <= p.x
      BY <1>1, PlaneTypes
    <3>2. CASE u.x <= z.x
      <4>1. Beyond(g, z, h, least) <= 0 /\ Beyond(g, u, h, least) >= 0
        BY <1>1, <1>2 DEF Fits
      <4> QED BY <1>1, <1>3, <1>7, <1>9, <3>1, <3>2, <4>1, LeftUnder
    <3>3. CASE z.x <= u.x
      <4>1. Beyond(g, z, f, most) <= 0 /\ Beyond(g, u, f, most) >= 0
        BY <1>1, <1>2 DEF Fits
      <4> QED BY <1>1, <1>2, <1>3, <1>6, <3>1, <3>3, <4>1, ChordUnder DEF n
    <3> QED BY <1>3, <3>1, <3>2, <3>3, PlaneTypes
  <2> QED BY <1>7, <2>1, <2>2 DEF Fits
<1>13. Hull(g, lo, m, B, fan2)
  <2>1. Chain(g, lo, ls) /\ Len(lo) \in Nat /\ ls \in Nat \ {0} /\ \A j \in ls..Len(lo) : lo[j] \in Plane
    BY <1>1, ChainFacts DEF Hull
  <2>2. Chain(g, lo, m)
    <3>1. m \in 1..Len(lo)
      BY <1>2, <2>1
    <3>2. /\ \A i \in m+1..Len(lo) : i \in ls+1..Len(lo)
          /\ \A i \in m+1..Len(lo)-1 : i \in ls+1..Len(lo)-1
      BY <1>2, <2>1
    <3> QED BY <2>1, <3>1, <3>2 DEF Chain
  <2>3. \A j \in m..Len(lo) : lo[j] \in B
    BY <1>2, <2>1
  <2>4. ASSUME NEW q \in Plane, NEW s \in fan2, Under(g, lo, m, q, s)
        PROVE  Under(g, lo, ls, q, s)
    <3>1. Beyond(g, z, q, s) <= 0
      <4>1. m \in m..Len(lo)
        BY <1>2, <2>1
      <4> QED BY <2>4, <4>1 DEF Under, z
    <3>2. ASSUME NEW j \in ls..Len(lo) PROVE Beyond(g, lo[j], q, s) <= 0
      <4>1. CASE j \in m..Len(lo)
        BY <2>4, <4>1 DEF Under
      <4>2. CASE j \in ls..m
        <5> DEFINE a == lo[j]
        <5>1. a \in Plane /\ a.x <= z.x /\ Beyond(g, a, z, n) <= 0
          BY <1>2, <2>1, <4>2, ChainAscends DEF z
        <5>2. s \in Slopes /\ Flatter(g, s, n)
          BY <1>10
        <5> HIDE DEF a
        <5>3. Beyond(g, a, z, s) <= 0
          BY <1>3, <1>7, <5>1, <5>2, BeyondFlatter
        <5>4. Beyond(g, a, q, s) = Beyond(g, a, z, s) + Beyond(g, z, q, s)
          BY <1>3, <5>1, <5>2, BeyondSum
        <5>5. Beyond(g, a, z, s) \in Int /\ Beyond(g, z, q, s) \in Int
          BY <1>3, <5>1, <5>2, BeyondFacts
        <5>6. Beyond(g, a, q, s) <= 0
          BY <3>1, <5>3, <5>4, <5>5
        <5> QED BY <5>6 DEF a
      <4> QED BY <1>2, <2>1, <4>1, <4>2
    <3> QED BY <3>2 DEF Under
  <2>5. Covers(g, lo, m, B, fan2)
    <3>1. Covers(g, lo, ls, B, fan)
      BY <1>1 DEF Hull
    <3> QED BY <1>10, <2>4, <3>1 DEF Covers
  <2> QED BY <2>2, <2>3, <2>5 DEF Hull
<1>14. Hull(-g, w, us, A \cup {p}, fan2)
  <2>1. \A j \in us..Len(w) : w[j] \in A \cup {p}
    <3>1. \A i \in us..Len(up) : up[i] \in A
      BY <1>1 DEF Hull
    <3> QED BY <1>4, <3>1
  <2>2. ASSUME NEW q \in Plane, NEW s \in fan2, Under(-g, w, us, q, s),
               NEW x \in A \cup {p}
        PROVE  Beyond(-g, x, q, s) <= 0
    <3>1. CASE x \in A
      <4>1. Covers(-g, up, us, A, fan)
        BY <1>1 DEF Hull
      <4>2. s \in fan /\ Under(-g, up, us, q, s)
        BY <1>4, <1>10, <2>2
      <4> QED BY <3>1, <4>1, <4>2 DEF Covers
    <3>2. CASE x = p
      <4>1. Len(w) \in us..Len(w)
        BY <1>4, OtherSide, ChainFacts
      <4> QED BY <1>4, <2>2, <3>2, <4>1 DEF Under
    <3> QED BY <3>1, <3>2
  <2>3. Covers(-g, w, us, A \cup {p}, fan2)
    BY <2>2 DEF Covers
  <2> QED BY <1>4, <2>1, <2>3 DEF Hull
<1>15. /\ A \cup {p} \subseteq Plane /\ B \subseteq Plane
       /\ w[us].x < lo[Len(lo)].x /\ z.x < w[Len(w)].x
  BY <1>1, <1>2, <1>4
<1>16. lo[m] = z
  BY DEF z
<1>17. Reach(w, us, lo) = least /\ Reach(lo, m, w) = n /\ Fan(g, least, n) = fan2
  BY <1>5 DEF fan2
<1> QED BY <1>4, <1>9, <1>11, <1>12, <1>13, <1>14, <1>15, <1>16, <1>17 DEF Hulls

(* Seen from the other side.                                               *)
LEMMA HullsSwapped ==
  ASSUME NEW g \in Sides, NEW up, NEW us, NEW lo, NEW ls, NEW A, NEW B,
         Hulls(g, up, us, lo, ls, A, B)
  PROVE  Hulls(-g, lo, ls, up, us, B, A)
<1> DEFINE least == Reach(up, us, lo)
           most == Reach(lo, ls, up)
           fan == Fan(g, least, most)
<1>1. /\ A \subseteq Plane /\ B \subseteq Plane
      /\ Hull(-g, up, us, A, fan) /\ Hull(g, lo, ls, B, fan)
      /\ up[us].x < lo[Len(lo)].x /\ lo[ls].x < up[Len(up)].x
      /\ Flatter(g, least, most)
      /\ Fits(g, up[us], least, A, B) /\ Fits(g, lo[ls], most, A, B)
      /\ up[us] \in A /\ lo[ls] \in B /\ least \in Slopes /\ most \in Slopes
  BY HullsFacts
<1> HIDE DEF least, most, fan
<1>2. /\ -(-g) = g
      /\ \A s, t : Flatter(-g, s, t) <=> Flatter(g, t, s)
      /\ \A p \in Plane, q \in Plane, s \in Slopes : Beyond(-g, p, q, s) = -Beyond(g, p, q, s)
  BY OtherSide
<1>3. Fan(-g, most, least) = fan
  <2>1. \A s \in Slopes : Flatter(-g, most, s) /\ Flatter(-g, s, least)
                             <=> Flatter(g, least, s) /\ Flatter(g, s, most)
    BY <1>2
  <2> QED BY <2>1 DEF Fan, fan
<1>4. ASSUME NEW q \in Plane, NEW s \in Slopes, Fits(g, q, s, A, B) PROVE Fits(-g, q, s, B, A)
  <2>1. ASSUME NEW b \in B PROVE Beyond(-g, b, q, s) >= 0
    <3>1. Beyond(g, b, q, s) <= 0 /\ Beyond(-g, b, q, s) = -Beyond(g, b, q, s) /\ Beyond(g, b, q, s) \in Int
      BY <1>1, <1>2, <1>4, BeyondFacts DEF Fits
    <3> QED BY <3>1
  <2>2. ASSUME NEW a \in A PROVE Beyond(-g, a, q, s) <= 0
    <3>1. Beyond(g, a, q, s) >= 0 /\ Beyond(-g, a, q, s) = -Beyond(g, a, q, s) /\ Beyond(g, a, q, s) \in Int
      BY <1>1, <1>2, <1>4, BeyondFacts DEF Fits
    <3> QED BY <3>1
  <2> QED BY <2>1, <2>2 DEF Fits
<1>5. Fits(-g, up[us], least, B, A) /\ Fits(-g, lo[ls], most, B, A)
  <2>1. up[us] \in Plane /\ lo[ls] \in Plane
    BY <1>1
  <2> QED BY <1>1, <1>4, <2>1
<1>6. Flatter(-g, most, least)
  BY <1>1, <1>2
<1>7. Hull(-(-g), lo, ls, B, Fan(-g, most, least)) /\ Hull(-g, up, us, A, Fan(-g, most, least))
  BY <1>1, <1>2, <1>3
<1> QED BY <1>1, <1>5, <1>6, <1>7 DEF Hulls, least, most

-----------------------------------------------------------------------------
(* A point of the segmentation and the interval of epsilon around it.      *)
Samples == [x : Nat, y : Nat]
Upper(p, eps) == Point(p.x, p.y + eps)
Lower(p, eps) == Point(p.x, SubEps(p.y, eps))

LEMMA SampleAt ==
  ASSUME NEW ps \in Seq(Samples)
  PROVE  \A i \in 1..Len(ps) : ps[i] \in Samples /\ ps[i].x \in Nat /\ ps[i].y \in Nat
<1>1. \A i \in 1..Len(ps) : ps[i] \in Samples
  OBVIOUS
<1>2. \A p \in Samples : p.x \in Nat /\ p.y \in Nat
  BY DEF Samples
<1> QED BY <1>1, <1>2

LEMMA IntervalTypes ==
  ASSUME NEW p \in Samples, NEW eps \in Nat \ {0}
  PROVE  /\ p.x \in Nat /\ p.y \in Nat
         /\ Upper(p, eps) \in Plane /\ Upper(p, eps).x = p.x /\ Upper(p, eps).y = p.y + eps
         /\ Lower(p, eps) \in Plane /\ Lower(p, eps).x = p.x /\ Lower(p, eps).y = SubEps(p.y, eps)
         /\ Lower(p, eps).y < Upper(p, eps).y
<1>1. p.x \in Nat /\ p.y \in Nat /\ eps \in Nat \ {0}
  BY DEF Samples
<1>2. SubEps(p.y, eps) \in Int /\ SubEps(p.y, eps) < p.y + eps
  BY <1>1 DEF SubEps
<1> DEFINE e == SubEps(p.y, eps)
           d == p.y + eps
<1>3. e \in Int /\ d \in Int /\ e < d
  BY <1>1, <1>2
<1> HIDE DEF e, d
<1>4. Upper(p, eps) = [x |-> p.x, y |-> d] /\ Lower(p, eps) = [x |-> p.x, y |-> e]
  BY DEF Upper, Lower, Point, d, e
<1> QED BY <1>1, <1>3, <1>4 DEF Plane, d, e

(* What Coverable asks of three points.                                    *)
LEMMA ThreePoints ==
  ASSUME NEW p \in Plane, NEW q \in Plane, NEW r \in Plane
  PROVE  /\ Rise(r, q, Minus(q, p)) >= 0
              <=> q.y * (r.x - p.x) <= p.y * (r.x - q.x) + r.y * (q.x - p.x)
         /\ Rise(r, q, Minus(q, p)) <= 0
              <=> q.y * (r.x - p.x) >= p.y * (r.x - q.x) + r.y * (q.x - p.x)
<1> DEFINE a == p.x  b == p.y  c == q.x  d == q.y  e == r.x  f == r.y
           u == (f - d) * (c - a) - (d - b) * (e - c)
           v == d * (e - a)
           w == b * (e - c) + f * (c - a)
<1>1. a \in Int /\ b \in Int /\ c \in Int /\ d \in Int /\ e \in Int /\ f \in Int
  BY PlaneTypes
<1>2. Rise(r, q, Minus(q, p)) = u
  BY DEF Rise, Minus
<1> HIDE DEF a, b, c, d, e, f
<1>3. u = w - v
  BY ONLY <1>1 DEF u, v, w
<1>4. v \in Int /\ w \in Int
  <2>1. b * (e - c) \in Int /\ f * (c - a) \in Int /\ d * (e - a) \in Int
    BY ONLY <1>1, Products
  <2> QED BY <2>1 DEF v, w
<1>5. (u >= 0 <=> v <= w) /\ (u <= 0 <=> v >= w)
  <2> HIDE DEF u, v, w
  <2> QED BY <1>3, <1>4
<1> QED BY <1>2, <1>5 DEF a, b, c, d, e, f, u, v, w

(* A line with two points beyond it, and one not beyond it between them.   *)
LEMMA FitsThree ==
  ASSUME NEW g \in Sides, NEW p \in Plane, NEW q \in Plane, NEW r \in Plane,
         NEW o \in Plane, NEW s \in Slopes, p.x < q.x, q.x <= r.x,
         Beyond(g, p, o, s) >= 0, Beyond(g, q, o, s) <= 0, Beyond(g, r, o, s) >= 0
  PROVE  Beyond(g, r, q, Minus(q, p)) >= 0
<1> DEFINE t == Minus(q, p)
<1>1. /\ Beyond(g, q, p, s) \in Int /\ Beyond(g, p, o, s) \in Int /\ Beyond(g, q, o, s) \in Int
      /\ Beyond(g, r, o, s) \in Int /\ Beyond(g, r, q, s) \in Int
      /\ t \in Slopes
  BY BeyondFacts, BeyondChord
<1>2. /\ Beyond(g, q, o, s) = Beyond(g, q, p, s) + Beyond(g, p, o, s)
      /\ Beyond(g, r, o, s) = Beyond(g, r, q, s) + Beyond(g, q, o, s)
  BY BeyondSum
<1>3. Beyond(g, q, p, s) <= 0 /\ Beyond(g, r, q, s) >= 0
  BY <1>1, <1>2
<1>4. Flatter(g, t, s)
  BY <1>3, BeyondChord
<1> HIDE DEF t
<1>5. Beyond(g, r, q, t) >= 0
  BY <1>1, <1>3, <1>4, BeyondFlatter
<1> QED BY <1>5 DEF t

-----------------------------------------------------------------------------
(* The record the segmentation keeps, once it has two points.              *)
HullRecords ==
  [points : Nat, upper : Seq(Plane), lower : Seq(Plane), upper_start : Nat,
   lower_start : Nat, rectangle : [1..4 -> Plane], first_x : Int]

Spanned(h, A, B) ==
  /\ h \in HullRecords
  /\ h.rectangle[1] = h.upper[h.upper_start]
  /\ h.rectangle[2] = h.lower[h.lower_start]
  /\ h.rectangle[3] = h.lower[Len(h.lower)]
  /\ h.rectangle[4] = h.upper[Len(h.upper)]
  /\ Hulls(1, h.upper, h.upper_start, h.lower, h.lower_start, A, B)

LEMMA SpannedFacts ==
  ASSUME NEW h, NEW A, NEW B, Spanned(h, A, B),
         NEW r, r = h.rectangle,
         NEW least, least = Minus(r[3], r[1]), NEW most, most = Minus(r[4], r[2])
  PROVE  /\ A \subseteq Plane /\ B \subseteq Plane
         /\ r[1] \in A /\ r[2] \in B /\ r[3] \in B /\ r[4] \in A
         /\ r[1].x < r[3].x /\ r[2].x < r[4].x
         /\ least \in Slopes /\ most \in Slopes
         /\ least = Reach(h.upper, h.upper_start, h.lower)
         /\ most = Reach(h.lower, h.lower_start, h.upper)
         /\ Rise(r[3], r[1], least) = 0 /\ Rise(r[4], r[2], most) = 0
         /\ Fits(1, r[2], most, A, B)
<1>1. 1 \in Sides
  BY DEF Sides
<1>2. /\ r[1] = h.upper[h.upper_start] /\ r[2] = h.lower[h.lower_start]
      /\ r[3] = h.lower[Len(h.lower)] /\ r[4] = h.upper[Len(h.upper)]
      /\ Hulls(1, h.upper, h.upper_start, h.lower, h.lower_start, A, B)
  BY DEF Spanned
<1>3. /\ least = Reach(h.upper, h.upper_start, h.lower)
      /\ most = Reach(h.lower, h.lower_start, h.upper)
  BY <1>2 DEF Reach
<1>4. /\ A \subseteq Plane /\ B \subseteq Plane
      /\ r[1] \in A /\ r[2] \in B /\ r[3] \in B /\ r[4] \in A
      /\ r[1].x < r[3].x /\ r[2].x < r[4].x
      /\ least \in Slopes /\ most \in Slopes
      /\ Beyond(1, r[3], r[1], least) = 0 /\ Beyond(1, r[4], r[2], most) = 0
      /\ Fits(1, r[2], most, A, B)
  BY <1>1, <1>2, <1>3, HullsFacts
<1> QED BY <1>3, <1>4 DEF Beyond

(* A point above every line of the fan, or that lowers the steepest one.   *)
LEMMA AboveHolds ==
  ASSUME NEW h, NEW A, NEW B, Spanned(h, A, B),
         NEW a \in Plane, NEW b \in Plane, b.x = a.x, b.y < a.y,
         \A x \in A \cup B : x.x < a.x, ~Outside(h, a, b)
  PROVE  LET k == Above(h, a)
         IN /\ Spanned(k, A \cup {a}, B)
            /\ k.points = h.points /\ k.first_x = h.first_x
            /\ Rise(b, k.rectangle[2], Minus(k.rectangle[4], k.rectangle[2])) <= 0
            /\ k.lower = h.lower /\ k.rectangle[1].x < b.x
<1> DEFINE r == h.rectangle
           least == Minus(r[3], r[1])
           most == Minus(r[4], r[2])
           up == h.upper  us == h.upper_start
           lo == h.lower  ls == h.lower_start
           k == Above(h, a)
<1>1. 1 \in Sides /\ -1 \in Sides
  BY DEF Sides
<1>2. /\ A \subseteq Plane /\ B \subseteq Plane
      /\ r[1] \in A /\ r[2] \in B /\ r[3] \in B /\ r[4] \in A
      /\ least \in Slopes /\ most \in Slopes
      /\ least = Reach(up, us, lo) /\ most = Reach(lo, ls, up)
      /\ Rise(r[3], r[1], least) = 0 /\ Rise(r[4], r[2], most) = 0
  BY SpannedFacts
<1>3. /\ r[1] = up[us] /\ r[2] = lo[ls] /\ r[3] = lo[Len(lo)] /\ r[4] = up[Len(up)]
      /\ Hulls(1, up, us, lo, ls, A, B)
      /\ h \in HullRecords
  BY DEF Spanned
<1>4. /\ r[1] \in Plane /\ r[2] \in Plane /\ r[3] \in Plane /\ r[4] \in Plane
      /\ r[1].x < a.x /\ r[2].x < a.x /\ r[3].x < a.x /\ r[4].x < a.x
  BY <1>2
<1>5. /\ ~Steeper(least, Minus(a, r[3])) /\ ~Steeper(Minus(b, r[4]), most)
      /\ k = IF Steeper(most, Minus(a, r[2]))
               THEN [h EXCEPT !.rectangle[2] = lo[Extreme(lo, ls, a, Steeper)],
                              !.rectangle[4] = a,
                              !.lower_start = Extreme(lo, ls, a, Steeper),
                              !.upper = Wrapped(up, us, a, LAMBDA c : c <= 0)]
               ELSE h
  BY DEF Outside, Above
<1> HIDE DEF r, least, most, up, us, lo, ls, k
<1>6. Rise(a, r[1], least) >= 0
  <2>1. Minus(a, r[3]) \in Slopes
    BY <1>4, Chord
  <2>2. Rise(a, r[3], least) >= 0
    BY <1>2, <1>4, <1>5, <2>1, Chord, SlopesCompare
  <2>3. Rise(a, r[1], least) = Rise(a, r[3], least) + Rise(r[3], r[1], least)
    BY <1>2, <1>4, RiseSum
  <2>4. Rise(a, r[3], least) \in Int
    BY <1>2, <1>4, RiseType
  <2> QED BY <1>2, <2>2, <2>3, <2>4
<1>7. Rise(b, r[2], most) <= 0
  <2>1. r[4].x < b.x
    BY <1>4
  <2>2. Minus(b, r[4]) \in Slopes
    BY <1>4, <2>1, Chord
  <2>3. Rise(b, r[4], most) <= 0
    BY <1>2, <1>4, <1>5, <2>1, <2>2, Chord, SlopesCompare
  <2>4. Rise(b, r[2], most) = Rise(b, r[4], most) + Rise(r[4], r[2], most)
    BY <1>2, <1>4, RiseSum
  <2>5. Rise(b, r[4], most) \in Int
    BY <1>2, <1>4, RiseType
  <2> QED BY <1>2, <2>3, <2>4, <2>5
<1>8. Steeper(most, Minus(a, r[2])) <=> ~(Rise(a, r[2], most) >= 0)
  <2>1. Minus(a, r[2]) \in Slopes
    BY <1>4, Chord
  <2> QED BY <1>2, <1>4, <2>1, Chord, SlopesCompare
<1>9. Rise(a, r[2], most) \in Int /\ \A p \in Plane, q \in Plane, s \in Slopes : Beyond(1, p, q, s) = Rise(p, q, s)
  BY <1>2, <1>4, RiseType DEF Beyond
<1>10. Beyond(1, a, up[us], Reach(up, us, lo)) >= 0
  BY <1>2, <1>3, <1>4, <1>6, <1>9
<1>11. Beyond(1, a, lo[ls], Reach(lo, ls, up)) = Rise(a, r[2], most)
  BY <1>2, <1>3, <1>4, <1>9
<1>12. lo[ls].x < a.x /\ \A x \in A : x.x < a.x
  BY <1>3, <1>4
<1>13. r[1].x < b.x
  BY <1>4
<1>14. CASE Rise(a, r[2], most) >= 0
  <2>1. k = h
    BY <1>5, <1>8, <1>14
  <2>2. Hulls(1, up, us, lo, ls, A \cup {a}, B)
    BY <1>1, <1>3, <1>10, <1>11, <1>12, <1>14, LooseStep
  <2>3. Spanned(h, A \cup {a}, B)
    BY <1>3, <2>2 DEF Spanned, r, up, us, lo, ls
  <2> QED BY <1>7, <1>13, <2>1, <2>3 DEF r, most, k
<1>15. CASE ~(Rise(a, r[2], most) >= 0)
  <2> DEFINE m == Extreme(lo, ls, a, Steeper)
             w == Wrapped(up, us, a, LAMBDA c : c <= 0)
  <2>1. k = [h EXCEPT !.rectangle[2] = lo[m], !.rectangle[4] = a, !.lower_start = m, !.upper = w]
    BY <1>5, <1>8, <1>15
  <2>2. Hull(1, lo, ls, B, Fan(1, least, most)) /\ Hull(-1, up, us, A, Fan(1, least, most))
    BY <1>1, <1>2, <1>3, HullsFacts
  <2>3. Touches(1, lo, ls, a, m)
    <3>1. Chain(1, lo, ls)
      BY <2>2 DEF Hull
    <3>2. \A i \in ls..Len(lo) : Past(1, a, lo[i])
      BY <1>2, <2>2 DEF Hull, Past
    <3> QED BY <1>12, <3>1, <3>2, ExtremeTouches
  <2>4. Wraps(-1, up, us, a, w)
    <3>1. Chain(-1, up, us)
      BY <2>2 DEF Hull
    <3>2. \A i \in us..Len(up) : up[i].x < a.x
      BY <1>12, <2>2 DEF Hull
    <3> QED BY <3>1, <3>2, WrappedWraps
  <2> HIDE DEF m, w
  <2>5. Beyond(1, a, lo[ls], Reach(lo, ls, up)) < 0
    BY <1>9, <1>11, <1>15
  <2>6. Hulls(1, w, us, lo, m, A \cup {a}, B)
    BY <1>1, <1>3, <1>10, <1>12, <2>3, <2>4, <2>5, TightStep
  <2>7. /\ m \in ls..Len(lo) /\ lo[m] \in Plane /\ Len(lo) \in Nat /\ ls \in Nat /\ m \in Nat
        /\ lo[m].x < a.x
    BY <1>1, <2>2, <2>3, ChainFacts DEF Hull, Touches
  <2>8. w \in Seq(Plane) /\ w[us] = up[us] /\ w[Len(w)] = a
    BY <1>1, <2>4, ChainFacts DEF Wraps
  <2>9. /\ k.points = h.points /\ k.first_x = h.first_x /\ k.upper = w /\ k.lower = lo
        /\ k.upper_start = us /\ k.lower_start = m
        /\ k.rectangle = [r EXCEPT ![2] = lo[m], ![4] = a]
    BY <1>3, <2>1 DEF HullRecords, r, lo, us
  <2>10. r \in [1..4 -> Plane]
    BY <1>3 DEF HullRecords, r
  <2>11. /\ k.rectangle[1] = r[1] /\ k.rectangle[2] = lo[m]
         /\ k.rectangle[3] = r[3] /\ k.rectangle[4] = a
         /\ k.rectangle \in [1..4 -> Plane]
    BY <2>7, <2>9, <2>10
  <2>12. k \in HullRecords
    <3>1. h = [points |-> h.points, upper |-> up, lower |-> lo, upper_start |-> us,
               lower_start |-> ls, rectangle |-> r, first_x |-> h.first_x]
      BY <1>3 DEF HullRecords, up, lo, us, ls, r
    <3>2. k = [points |-> h.points, upper |-> w, lower |-> lo, upper_start |-> us,
               lower_start |-> m, rectangle |-> [r EXCEPT ![2] = lo[m], ![4] = a],
               first_x |-> h.first_x]
      <4>1. k = [f \in DOMAIN k |-> k[f]] /\ DOMAIN k = DOMAIN h
        BY <2>1, <3>1
      <4>2. DOMAIN h = {"points", "upper", "lower", "upper_start", "lower_start", "rectangle", "first_x"}
        BY <3>1
      <4> QED BY <2>9, <4>1, <4>2
    <3>3. [r EXCEPT ![2] = lo[m], ![4] = a] \in [1..4 -> Plane]
      BY <2>7, <2>10
    <3>4. h.points \in Nat /\ lo \in Seq(Plane) /\ us \in Nat /\ h.first_x \in Int
      BY <1>3 DEF HullRecords, lo, us
    <3> DEFINE v == [r EXCEPT ![2] = lo[m], ![4] = a]
    <3> HIDE DEF v
    <3> QED BY <2>7, <2>8, <3>2, <3>3, <3>4 DEF HullRecords, v
  <2>13. Spanned(k, A \cup {a}, B)
    BY <1>3, <2>6, <2>8, <2>9, <2>11, <2>12 DEF Spanned
  <2>14. Rise(b, lo[m], Minus(a, lo[m])) <= 0
    <3> DEFINE z == lo[m]
               s == Minus(a, z)
    <3>1. z \in Plane /\ z.x < a.x
      BY <2>7
    <3> HIDE DEF z
    <3>2. s \in Slopes /\ Rise(a, z, s) = 0
      BY <3>1, Chord
    <3> HIDE DEF s
    <3>3. Rise(b, z, s) = Rise(b, a, s) + Rise(a, z, s)
      BY <3>1, <3>2, RiseSum
    <3>4. Rise(b, a, s) <= 0
      <4> DEFINE u == s.dx  y == b.y - a.y
      <4>1. u \in Nat \ {0} /\ y \in Int /\ y <= 0 /\ s.dy \in Int /\ b.x - a.x = 0
        BY <3>2, PlaneTypes, SlopeTypes
      <4>2. Rise(b, a, s) = y * u
        <5>1. s.dy * 0 = 0 /\ y * u \in Int
          BY <4>1, Products
        <5> QED BY <4>1, <5>1 DEF Rise
      <4> HIDE DEF u, y
      <4>3. y * u <= 0 * u /\ 0 * u = 0
        BY <4>1, Multiply
      <4> QED BY <4>2, <4>3
    <3>5. Rise(b, a, s) \in Int
      BY <3>2, RiseType
    <3>6. Rise(b, z, s) <= 0
      BY <3>2, <3>3, <3>4, <3>5
    <3> QED BY <3>6 DEF z, s
  <2> QED BY <1>13, <2>9, <2>11, <2>13, <2>14 DEF k, lo
<1> QED BY <1>14, <1>15

(* The same below the point.                                               *)
LEMMA BelowHolds ==
  ASSUME NEW h, NEW A, NEW B, Spanned(h, A, B), NEW b \in Plane,
         \A x \in B : x.x < b.x, \A x \in A : Past(-1, b, x), h.rectangle[1].x < b.x,
         Rise(b, h.rectangle[2], Minus(h.rectangle[4], h.rectangle[2])) <= 0
  PROVE  LET k == Below(h, b)
         IN /\ Spanned(k, A, B \cup {b})
            /\ k.points = h.points /\ k.first_x = h.first_x
<1> DEFINE r == h.rectangle
           least == Minus(r[3], r[1])
           most == Minus(r[4], r[2])
           up == h.upper  us == h.upper_start
           lo == h.lower  ls == h.lower_start
           k == Below(h, b)
<1>1. 1 \in Sides /\ -1 \in Sides /\ -(-1) = 1
  <2>1. 1 \in Sides /\ -1 \in Sides
    BY DEF Sides
  <2> QED BY <2>1, OtherSide
<1>2. /\ A \subseteq Plane /\ B \subseteq Plane
      /\ r[1] \in A /\ r[2] \in B
      /\ least \in Slopes /\ most \in Slopes
      /\ least = Reach(up, us, lo) /\ most = Reach(lo, ls, up)
  BY SpannedFacts
<1>3. /\ r[1] = up[us] /\ r[2] = lo[ls] /\ r[3] = lo[Len(lo)] /\ r[4] = up[Len(up)]
      /\ Hulls(1, up, us, lo, ls, A, B)
      /\ h \in HullRecords
  BY DEF Spanned
<1>4. r[1] \in Plane /\ r[2] \in Plane /\ r[1].x < b.x
  BY <1>2
<1>5. k = IF Steeper(Minus(b, r[1]), least)
            THEN [h EXCEPT !.rectangle[1] = up[Extreme(up, us, b, LAMBDA s, t : Steeper(t, s))],
                           !.rectangle[3] = b,
                           !.upper_start = Extreme(up, us, b, LAMBDA s, t : Steeper(t, s)),
                           !.lower = Wrapped(lo, ls, b, LAMBDA c : c >= 0)]
            ELSE h
  BY DEF Below
<1>6. Rise(b, r[2], most) <= 0
  OBVIOUS
<1> HIDE DEF r, least, most, up, us, lo, ls, k
<1>7. Hulls(-1, lo, ls, up, us, B, A)
  BY <1>1, <1>3, HullsSwapped
<1>8. Steeper(Minus(b, r[1]), least) <=> ~(Rise(b, r[1], least) <= 0)
  <2>1. Minus(b, r[1]) \in Slopes
    BY <1>4, Chord
  <2> QED BY <1>2, <1>4, <2>1, Chord, SlopesCompare
<1>9. /\ Rise(b, r[1], least) \in Int /\ Rise(b, r[2], most) \in Int
      /\ Beyond(-1, b, r[1], least) = -Rise(b, r[1], least)
      /\ Beyond(-1, b, r[2], most) = -Rise(b, r[2], most)
  BY <1>2, <1>4, RiseType DEF Beyond
<1>10. Beyond(-1, b, lo[ls], Reach(lo, ls, up)) >= 0
  BY <1>2, <1>3, <1>6, <1>9
<1>11. Beyond(-1, b, up[us], Reach(up, us, lo)) = -Rise(b, r[1], least)
  BY <1>2, <1>3, <1>9
<1>12. up[us].x < b.x /\ \A x \in B : x.x < b.x
  BY <1>3, <1>4
<1>13. CASE Rise(b, r[1], least) <= 0
  <2>1. k = h
    BY <1>5, <1>8, <1>13
  <2>2. Beyond(-1, b, up[us], Reach(up, us, lo)) >= 0
    BY <1>9, <1>11, <1>13
  <2>3. Hulls(-1, lo, ls, up, us, B \cup {b}, A)
    BY <1>1, <1>7, <1>10, <1>12, <2>2, LooseStep
  <2>4. Hulls(-(-1), up, us, lo, ls, A, B \cup {b})
    BY <1>1, <2>3, HullsSwapped
  <2>5. Hulls(1, up, us, lo, ls, A, B \cup {b})
    BY <1>1, <2>4
  <2>6. Spanned(h, A, B \cup {b})
    BY <1>3, <2>5 DEF Spanned, r, up, us, lo, ls
  <2> QED BY <2>1, <2>6 DEF k
<1>14. CASE ~(Rise(b, r[1], least) <= 0)
  <2> DEFINE m == Extreme(up, us, b, LAMBDA s, t : Steeper(t, s))
             w == Wrapped(lo, ls, b, LAMBDA c : c >= 0)
  <2>1. k = [h EXCEPT !.rectangle[1] = up[m], !.rectangle[3] = b, !.upper_start = m, !.lower = w]
    BY <1>5, <1>8, <1>14
  <2>2. Hull(1, lo, ls, B, Fan(1, least, most)) /\ Hull(-1, up, us, A, Fan(1, least, most))
    BY <1>1, <1>2, <1>3, HullsFacts
  <2>3. Touches(-1, up, us, b, m)
    <3>1. Chain(-1, up, us)
      BY <2>2 DEF Hull
    <3>2. \A i \in us..Len(up) : Past(-1, b, up[i])
      BY <2>2 DEF Hull
    <3> QED BY <1>12, <3>1, <3>2, ExtremeTouches
  <2>4. Wraps(1, lo, ls, b, w)
    <3>1. Chain(1, lo, ls)
      BY <2>2 DEF Hull
    <3>2. \A i \in ls..Len(lo) : lo[i].x < b.x
      BY <1>12, <2>2 DEF Hull
    <3> QED BY <3>1, <3>2, WrappedWraps
  <2> HIDE DEF m, w
  <2>5. Beyond(-1, b, up[us], Reach(up, us, lo)) < 0
    BY <1>9, <1>11, <1>14
  <2>6. Hulls(1, up, m, w, ls, A, B \cup {b})
    <3>1. Wraps(-(-1), lo, ls, b, w)
      BY <1>1, <2>4
    <3>2. Hulls(-1, w, ls, up, m, B \cup {b}, A)
      BY <1>1, <1>7, <1>10, <1>12, <2>3, <2>5, <3>1, TightStep
    <3>3. Hulls(-(-1), up, m, w, ls, A, B \cup {b})
      BY <1>1, <3>2, HullsSwapped
    <3> QED BY <1>1, <3>3
  <2>7. /\ m \in us..Len(up) /\ up[m] \in Plane /\ Len(up) \in Nat /\ us \in Nat /\ m \in Nat
    BY <1>1, <2>2, <2>3, ChainFacts DEF Hull, Touches
  <2>8. w \in Seq(Plane) /\ w[ls] = lo[ls] /\ w[Len(w)] = b
    BY <1>1, <2>4, ChainFacts DEF Wraps
  <2>9. /\ k.points = h.points /\ k.first_x = h.first_x /\ k.upper = up /\ k.lower = w
        /\ k.upper_start = m /\ k.lower_start = ls
        /\ k.rectangle = [r EXCEPT ![1] = up[m], ![3] = b]
    BY <1>3, <2>1 DEF HullRecords, r, up, ls
  <2>10. r \in [1..4 -> Plane]
    BY <1>3 DEF HullRecords, r
  <2>11. /\ k.rectangle[1] = up[m] /\ k.rectangle[2] = r[2]
         /\ k.rectangle[3] = b /\ k.rectangle[4] = r[4]
         /\ k.rectangle \in [1..4 -> Plane]
    BY <2>7, <2>9, <2>10
  <2>12. k \in HullRecords
    <3>1. h = [points |-> h.points, upper |-> up, lower |-> lo, upper_start |-> us,
               lower_start |-> ls, rectangle |-> r, first_x |-> h.first_x]
      BY <1>3 DEF HullRecords, up, lo, us, ls, r
    <3>2. k = [points |-> h.points, upper |-> up, lower |-> w, upper_start |-> m,
               lower_start |-> ls, rectangle |-> [r EXCEPT ![1] = up[m], ![3] = b],
               first_x |-> h.first_x]
      <4>1. k = [f \in DOMAIN k |-> k[f]] /\ DOMAIN k = DOMAIN h
        BY <2>1, <3>1
      <4>2. DOMAIN h = {"points", "upper", "lower", "upper_start", "lower_start", "rectangle", "first_x"}
        BY <3>1
      <4> QED BY <2>9, <4>1, <4>2
    <3>3. [r EXCEPT ![1] = up[m], ![3] = b] \in [1..4 -> Plane]
      BY <2>7, <2>10
    <3>4. h.points \in Nat /\ up \in Seq(Plane) /\ ls \in Nat /\ h.first_x \in Int
      BY <1>3 DEF HullRecords, up, ls
    <3> DEFINE v == [r EXCEPT ![1] = up[m], ![3] = b]
    <3> HIDE DEF v
    <3> QED BY <2>7, <2>8, <3>2, <3>3, <3>4 DEF HullRecords, v
  <2>13. Spanned(k, A, B \cup {b})
    BY <1>3, <2>6, <2>8, <2>9, <2>11, <2>12 DEF Spanned
  <2> QED BY <2>9, <2>13 DEF k
<1> QED BY <1>13, <1>14

LEMMA Vertical ==
  ASSUME NEW p \in Plane, NEW q \in Plane, p.x = q.x, p.y <= q.y, NEW s \in Slopes
  PROVE  Rise(p, q, s) <= 0 /\ Rise(q, p, s) >= 0
<1> DEFINE u == s.dx  y == p.y - q.y
<1>1. u \in Nat \ {0} /\ y \in Int /\ y <= 0 /\ s.dy \in Int /\ p.x - q.x = 0
  BY PlaneTypes, SlopeTypes
<1>2. Rise(p, q, s) = y * u
  <2>1. s.dy * 0 = 0 /\ y * u \in Int
    BY <1>1, Products
  <2> QED BY <1>1, <2>1 DEF Rise
<1> HIDE DEF u, y
<1>3. y * u <= 0 * u /\ 0 * u = 0
  BY <1>1, Multiply
<1>4. Rise(p, q, s) <= 0
  BY <1>2, <1>3
<1>5. Rise(q, p, s) = -Rise(p, q, s) /\ Rise(p, q, s) \in Int
  BY RiseBack, RiseType
<1> QED BY <1>4, <1>5

(* The hulls of two points.                                                *)
LEMMA TwoPoints ==
  ASSUME NEW a1 \in Plane, NEW b1 \in Plane, NEW a2 \in Plane, NEW b2 \in Plane,
         a1.x = b1.x, a2.x = b2.x, a1.x < a2.x, b1.y <= a1.y, b2.y <= a2.y,
         NEW up \in Seq(Plane), Len(up) = 2, up[1] = a1, up[2] = a2,
         NEW lo \in Seq(Plane), Len(lo) = 2, lo[1] = b1, lo[2] = b2
  PROVE  Hulls(1, up, 1, lo, 1, {a1, a2}, {b1, b2})
<1> DEFINE least == Minus(b2, a1)
           most == Minus(a2, b1)
<1>1. 1 \in Sides /\ -1 \in Sides
  BY DEF Sides
<1>2. /\ up \in Seq(Plane) /\ Len(up) = 2 /\ up[1] = a1 /\ up[2] = a2
      /\ lo \in Seq(Plane) /\ Len(lo) = 2 /\ lo[1] = b1 /\ lo[2] = b2
  OBVIOUS
<1>3. Reach(up, 1, lo) = least /\ Reach(lo, 1, up) = most
  BY <1>2 DEF Reach
<1>4. /\ least \in Slopes /\ most \in Slopes
      /\ Rise(b2, a1, least) = 0 /\ Rise(a2, b1, most) = 0
      /\ \A s \in Slopes : Rise(a2, b1, s) >= 0 <=> NoSteeper(s, most)
  BY Chord
<1>5. Chain(-1, up, 1) /\ Chain(1, lo, 1)
  <2>1. a1.x < a2.x /\ b1.x < b2.x
    OBVIOUS
  <2>2. \A i \in 1+1..2 : i = 2 /\ i - 1 = 1
    OBVIOUS
  <2>3. 1+1..2-1 = {}
    OBVIOUS
  <2> QED BY <1>2, <2>1, <2>2, <2>3 DEF Chain
<1>6. \A S : Hull(-1, up, 1, {a1, a2}, S) /\ Hull(1, lo, 1, {b1, b2}, S)
  <2>1. 1 \in 1..2 /\ 2 \in 1..2 /\ \A j \in 1..2 : j = 1 \/ j = 2
    OBVIOUS
  <2>2. \A S : Covers(-1, up, 1, {a1, a2}, S) /\ Covers(1, lo, 1, {b1, b2}, S)
    BY <1>2, <2>1 DEF Covers, Under
  <2>3. (\A j \in 1..2 : up[j] \in {a1, a2}) /\ (\A j \in 1..2 : lo[j] \in {b1, b2})
    BY <1>2, <2>1
  <2> QED BY <1>2, <1>5, <2>2, <2>3 DEF Hull
<1> HIDE DEF least, most
<1>7. /\ Rise(a1, a1, least) = 0 /\ Rise(b1, b1, most) = 0
      /\ Rise(b1, a1, least) <= 0 /\ Rise(a1, b1, least) >= 0 /\ Rise(a1, b1, most) >= 0
      /\ Rise(a2, b2, least) >= 0 /\ Rise(b2, a2, most) <= 0
  BY <1>4, RiseSelf, Vertical
<1>8. Rise(a2, a1, least) >= 0
  <2>1. Rise(a2, a1, least) = Rise(a2, b2, least) + Rise(b2, a1, least)
    BY <1>4, RiseSum
  <2> QED BY <1>4, <1>7, <2>1, RiseType
<1>9. Rise(b2, b1, most) <= 0
  <2>1. Rise(b2, b1, most) = Rise(b2, a2, most) + Rise(a2, b1, most)
    BY <1>4, RiseSum
  <2> QED BY <1>4, <1>7, <2>1, RiseType
<1>10. NoSteeper(least, most)
  <2>1. Rise(a2, b1, least) = Rise(a2, a1, least) + Rise(a1, b1, least)
    BY <1>4, RiseSum
  <2>2. Rise(a2, a1, least) \in Int /\ Rise(a1, b1, least) \in Int
    BY <1>4, RiseType
  <2>3. Rise(a2, b1, least) >= 0
    BY <1>7, <1>8, <2>1, <2>2
  <2> QED BY <1>4, <2>3
<1>11. Fits(1, a1, least, {a1, a2}, {b1, b2}) /\ Fits(1, b1, most, {a1, a2}, {b1, b2})
  <2>1. /\ Rise(a1, a1, least) >= 0 /\ Rise(b2, a1, least) <= 0
        /\ Rise(b1, b1, most) <= 0 /\ Rise(a2, b1, most) >= 0
    BY <1>4, <1>7
  <2> QED BY <1>7, <1>8, <1>9, <2>1 DEF Fits, Beyond
<1>12. Flatter(1, least, most)
  BY <1>10 DEF Flatter
<1>13. up[1].x < lo[Len(lo)].x /\ lo[1].x < up[Len(up)].x /\ {a1, a2} \subseteq Plane /\ {b1, b2} \subseteq Plane
  BY <1>2
<1> QED BY <1>2, <1>3, <1>6, <1>11, <1>12, <1>13 DEF Hulls

-----------------------------------------------------------------------------
(* The points of a segment, and the hulls of them.                         *)
Ascends(seen) ==
  /\ seen \in Seq(Samples) /\ Len(seen) >= 1
  /\ \A i, j \in 1..Len(seen) : i < j => seen[i].x < seen[j].x

Uppers(seen, eps) == {Upper(seen[i], eps) : i \in 1..Len(seen)}
Lowers(seen, eps) == {Lower(seen[i], eps) : i \in 1..Len(seen)}

HullOf(h, seen, eps) ==
  /\ Ascends(seen) /\ h.points = Len(seen) /\ h.first_x = seen[1].x
  /\ IF Len(seen) = 1 THEN h = FirstPoint(Upper(seen[1], eps), Lower(seen[1], eps))
                      ELSE Spanned(h, Uppers(seen, eps), Lowers(seen, eps))

LEMMA OneMoreSeen ==
  ASSUME NEW eps \in Nat \ {0}, NEW seen, Ascends(seen), NEW p \in Samples, \A i \in 1..Len(seen) : seen[i].x < p.x
  PROVE  /\ Ascends(Append(seen, p)) /\ Len(Append(seen, p)) = Len(seen) + 1
         /\ \A i \in 1..Len(seen) : Append(seen, p)[i] = seen[i]
         /\ Append(seen, p)[Len(seen) + 1] = p
         /\ Uppers(Append(seen, p), eps) = Uppers(seen, eps) \cup {Upper(p, eps)}
         /\ Lowers(Append(seen, p), eps) = Lowers(seen, eps) \cup {Lower(p, eps)}
<1> DEFINE n == Len(seen)
           t == Append(seen, p)
<1>1. seen \in Seq(Samples) /\ n \in Nat /\ n >= 1
  BY DEF Ascends
<1>2. /\ t \in Seq(Samples) /\ Len(t) = n + 1
      /\ \A i \in 1..n : t[i] = seen[i]
      /\ t[n+1] = p
  BY ONLY <1>1, p \in Samples, AppendProperties
<1> HIDE DEF t, n
<1>3. \A i \in 1..n+1 : i \in 1..n \/ i = n + 1
  BY <1>1
<1>4. \A i \in 1..n : i \in 1..n+1 /\ i < n + 1 /\ ~(n + 1 < i)
  BY <1>1
<1>5. \A i, j \in 1..n+1 : i < j => t[i].x < t[j].x
  <2> TAKE i, j \in 1..n+1
  <2> HAVE i < j
  <2>1. i \in 1..n
    BY <1>1, <1>3
  <2>2. CASE j \in 1..n
    BY <1>2, <2>1, <2>2 DEF Ascends, n
  <2>3. CASE j = n + 1
    BY <1>2, <2>1, <2>3 DEF n
  <2> QED BY <1>3, <2>2, <2>3
<1>6. Ascends(t)
  BY <1>1, <1>2, <1>5 DEF Ascends
<1>7. n + 1 \in 1..n+1
  BY <1>1
<1>8. Uppers(t, eps) = Uppers(seen, eps) \cup {Upper(p, eps)}
  <2>1. ASSUME NEW x \in Uppers(t, eps) PROVE x \in Uppers(seen, eps) \cup {Upper(p, eps)}
    <3>1. PICK i \in 1..n+1 : x = Upper(t[i], eps)
      BY <1>2 DEF Uppers
    <3> QED BY <1>2, <1>3, <3>1 DEF Uppers, n
  <2>2. ASSUME NEW x \in Uppers(seen, eps) PROVE x \in Uppers(t, eps)
    <3>1. PICK i \in 1..n : x = Upper(seen[i], eps)
      BY DEF Uppers, n
    <3>2. i \in 1..Len(t) /\ x = Upper(t[i], eps)
      BY <1>2, <1>4, <3>1
    <3> QED BY <3>2 DEF Uppers
  <2>3. Upper(p, eps) \in Uppers(t, eps)
    BY <1>2, <1>7 DEF Uppers
  <2> QED BY <2>1, <2>2, <2>3
<1>9. Lowers(t, eps) = Lowers(seen, eps) \cup {Lower(p, eps)}
  <2>1. ASSUME NEW x \in Lowers(t, eps) PROVE x \in Lowers(seen, eps) \cup {Lower(p, eps)}
    <3>1. PICK i \in 1..n+1 : x = Lower(t[i], eps)
      BY <1>2 DEF Lowers
    <3> QED BY <1>2, <1>3, <3>1 DEF Lowers, n
  <2>2. ASSUME NEW x \in Lowers(seen, eps) PROVE x \in Lowers(t, eps)
    <3>1. PICK i \in 1..n : x = Lower(seen[i], eps)
      BY DEF Lowers, n
    <3>2. i \in 1..Len(t) /\ x = Lower(t[i], eps)
      BY <1>2, <1>4, <3>1
    <3> QED BY <3>2 DEF Lowers
  <2>3. Lower(p, eps) \in Lowers(t, eps)
    BY <1>2, <1>7 DEF Lowers
  <2> QED BY <2>1, <2>2, <2>3
<1> QED BY <1>2, <1>6, <1>8, <1>9 DEF t, n

LEMMA SeenInterval ==
  ASSUME NEW seen, Ascends(seen)
  PROVE  /\ seen \in Seq(Samples) /\ Len(seen) \in Nat /\ Len(seen) >= 1
         /\ DOMAIN seen = 1..Len(seen)
         /\ \A i \in 1..Len(seen) : seen[i] \in Samples
         /\ \A i, j \in 1..Len(seen) : seen[i].x < seen[j].x => i < j
<1> DEFINE n == Len(seen)
<1>1. seen \in Seq(Samples) /\ n \in Nat /\ n >= 1 /\ DOMAIN seen = 1..n
  BY DEF Ascends
<1>2. \A i \in 1..n : seen[i] \in Samples
  BY <1>1
<1> HIDE DEF n
<1>3. ASSUME NEW i \in 1..n, NEW j \in 1..n, seen[i].x < seen[j].x PROVE i < j
  <2>1. seen[i].x \in Nat /\ seen[j].x \in Nat
    BY <1>1, SampleAt DEF n
  <2>2. i # j
    BY <1>3, <2>1
  <2>3. ~(j < i)
    <3>1. j < i => seen[j].x < seen[i].x
      BY DEF Ascends, n
    <3> QED BY <1>3, <2>1, <3>1
  <2> QED BY <1>1, <2>2, <2>3
<1> QED BY <1>1, <1>2, <1>3 DEF n

(* The line of the hulls covers what they are of.                          *)
LEMMA HullCoverable ==
  ASSUME NEW eps \in Nat \ {0}, NEW h, NEW seen, HullOf(h, seen, eps)
  PROVE  Coverable(seen, eps)
<1> DEFINE n == Len(seen)
<1>1. /\ n \in Nat /\ DOMAIN seen = 1..n
      /\ \A i \in 1..n : seen[i] \in Samples
  BY SeenInterval DEF HullOf
<1> HIDE DEF n
<1>2. ASSUME NEW i \in 1..n, NEW j \in 1..n, NEW k \in 1..n, i < j, j < k
      PROVE  LET p == seen[i]  q == seen[j]  r == seen[k]
             IN /\ Lower(q, eps).y * (r.x - p.x)
                     <= Upper(p, eps).y * (r.x - q.x) + Upper(r, eps).y * (q.x - p.x)
                /\ Upper(q, eps).y * (r.x - p.x)
                     >= Lower(p, eps).y * (r.x - q.x) + Lower(r, eps).y * (q.x - p.x)
  <2> DEFINE p == seen[i]  q == seen[j]  r == seen[k]
  <2>1. p \in Samples /\ q \in Samples /\ r \in Samples
    BY <1>1
  <2>2. p.x < q.x /\ q.x < r.x /\ n # 1
    <3>1. n # 1
      BY <1>1, <1>2
    <3> QED BY <1>2, <3>1 DEF HullOf, Ascends, n
  <2>3. PICK o \in Plane, s \in Slopes : Fits(1, o, s, Uppers(seen, eps), Lowers(seen, eps))
    <3>1. Spanned(h, Uppers(seen, eps), Lowers(seen, eps))
      BY <2>2 DEF HullOf, n
    <3>2. /\ Uppers(seen, eps) \subseteq Plane /\ Lowers(seen, eps) \subseteq Plane
          /\ h.rectangle[2] \in Lowers(seen, eps) /\ Minus(h.rectangle[4], h.rectangle[2]) \in Slopes
          /\ Fits(1, h.rectangle[2], Minus(h.rectangle[4], h.rectangle[2]), Uppers(seen, eps), Lowers(seen, eps))
      BY <3>1, SpannedFacts
    <3> QED BY <3>2
  <2>4. /\ Upper(p, eps) \in Uppers(seen, eps) /\ Upper(q, eps) \in Uppers(seen, eps) /\ Upper(r, eps) \in Uppers(seen, eps)
        /\ Lower(p, eps) \in Lowers(seen, eps) /\ Lower(q, eps) \in Lowers(seen, eps) /\ Lower(r, eps) \in Lowers(seen, eps)
    BY DEF Uppers, Lowers, n
  <2> HIDE DEF p, q, r
  <2> DEFINE p1 == Upper(p, eps)  p2 == Lower(p, eps)  q1 == Upper(q, eps)  q2 == Lower(q, eps)
             r1 == Upper(r, eps)  r2 == Lower(r, eps)
  <2>5. /\ Beyond(1, p1, o, s) >= 0 /\ Beyond(1, q1, o, s) >= 0 /\ Beyond(1, r1, o, s) >= 0
        /\ Beyond(1, p2, o, s) <= 0 /\ Beyond(1, q2, o, s) <= 0 /\ Beyond(1, r2, o, s) <= 0
    BY <2>3, <2>4 DEF Fits
  <2>6. /\ p1 \in Plane /\ p1.x = p.x /\ p2 \in Plane /\ p2.x = p.x
        /\ q1 \in Plane /\ q1.x = q.x /\ q2 \in Plane /\ q2.x = q.x
        /\ r1 \in Plane /\ r1.x = r.x /\ r2 \in Plane /\ r2.x = r.x
    BY <2>1, IntervalTypes
  <2> HIDE DEF p1, p2, q1, q2, r1, r2
  <2>7. p.x <= q.x /\ q.x <= r.x
    BY <2>1, <2>2, IntervalTypes
  <2>8. 1 \in Sides /\ -1 \in Sides
    BY DEF Sides
  <2>9. Rise(r1, q2, Minus(q2, p1)) >= 0
    <3>1. Beyond(1, r1, q2, Minus(q2, p1)) >= 0
      BY <2>2, <2>5, <2>6, <2>7, <2>8, FitsThree
    <3> QED BY <3>1 DEF Beyond
  <2>10. Rise(r2, q1, Minus(q1, p2)) <= 0
    <3>1. /\ Beyond(-1, p2, o, s) >= 0 /\ Beyond(-1, q1, o, s) <= 0 /\ Beyond(-1, r2, o, s) >= 0
      <4>1. \A u \in Plane : Beyond(-1, u, o, s) = -Rise(u, o, s) /\ Rise(u, o, s) \in Int
                              /\ Beyond(1, u, o, s) = Rise(u, o, s)
        BY RiseType DEF Beyond
      <4> QED BY <2>5, <2>6, <4>1
    <3>2. Beyond(-1, r2, q1, Minus(q1, p2)) >= 0
      BY <2>2, <2>6, <2>7, <2>8, <3>1, FitsThree
    <3>3. Minus(q1, p2) \in Slopes
      BY <2>2, <2>6, Chord
    <3>4. Beyond(-1, r2, q1, Minus(q1, p2)) = -Rise(r2, q1, Minus(q1, p2))
          /\ Rise(r2, q1, Minus(q1, p2)) \in Int
      BY <2>6, <3>3, RiseType DEF Beyond
    <3> QED BY <3>2, <3>4
  <2>11. q2.y * (r1.x - p1.x) <= p1.y * (r1.x - q2.x) + r1.y * (q2.x - p1.x)
    BY <2>6, <2>9, ThreePoints
  <2>12. q1.y * (r2.x - p2.x) >= p2.y * (r2.x - q1.x) + r2.y * (q1.x - p2.x)
    BY <2>6, <2>10, ThreePoints
  <2>13. /\ q2.y * (r.x - p.x) <= p1.y * (r.x - q.x) + r1.y * (q.x - p.x)
         /\ q1.y * (r.x - p.x) >= p2.y * (r.x - q.x) + r2.y * (q.x - p.x)
    BY <2>6, <2>11, <2>12
  <2> QED BY <2>13 DEF p, q, r, p1, p2, q1, q2, r1, r2
<1>3. \A i \in 1..n : /\ Upper(seen[i], eps).y = seen[i].y + eps
                      /\ Lower(seen[i], eps).y = SubEps(seen[i].y, eps)
  BY <1>1, IntervalTypes
<1> QED BY <1>1, <1>2, <1>3 DEF Coverable

(* A point the code refuses: three points that no line covers.             *)
LEMMA OutsideRefutes ==
  ASSUME NEW eps \in Nat \ {0}, NEW h, NEW seen, HullOf(h, seen, eps), Len(seen) # 1,
         NEW p \in Samples, \A i \in 1..Len(seen) : seen[i].x < p.x,
         Outside(h, Upper(p, eps), Lower(p, eps))
  PROVE  ~Coverable(Append(seen, p), eps)
<1> DEFINE n == Len(seen)
           t == Append(seen, p)
           r == h.rectangle
           a == Upper(p, eps)
           b == Lower(p, eps)
           least == Minus(r[3], r[1])
           most == Minus(r[4], r[2])
<1>1. /\ n \in Nat /\ Ascends(seen)
      /\ Spanned(h, Uppers(seen, eps), Lowers(seen, eps))
      /\ \A i \in 1..n : seen[i] \in Samples
      /\ \A i, j \in 1..n : seen[i].x < seen[j].x => i < j
  BY SeenInterval DEF HullOf
<1>2. /\ Ascends(t) /\ Len(t) = n + 1
      /\ \A i \in 1..n : t[i] = seen[i]
      /\ t[n+1] = p
  BY <1>1, OneMoreSeen
<1>3. DOMAIN t = 1..n+1
  BY <1>2, SeenInterval
<1>4. /\ Uppers(seen, eps) \subseteq Plane /\ Lowers(seen, eps) \subseteq Plane
      /\ r[1] \in Uppers(seen, eps) /\ r[2] \in Lowers(seen, eps)
      /\ r[3] \in Lowers(seen, eps) /\ r[4] \in Uppers(seen, eps)
      /\ r[1].x < r[3].x /\ r[2].x < r[4].x
      /\ least \in Slopes /\ most \in Slopes
  BY <1>1, SpannedFacts
<1>5. a \in Plane /\ a.x = p.x /\ b \in Plane /\ b.x = p.x
  BY IntervalTypes
<1>6. Steeper(least, Minus(a, r[3])) \/ Steeper(Minus(b, r[4]), most)
  BY DEF Outside
<1>7. r[3] \in Plane /\ r[4] \in Plane /\ r[1] \in Plane /\ r[2] \in Plane
  BY <1>4
<1> HIDE DEF t, n, a, b
<1>8. ASSUME Coverable(t, eps), NEW i \in 1..n, NEW j \in 1..n, i < j
      PROVE  LET u == seen[i]  v == seen[j]
             IN /\ Lower(v, eps).y * (p.x - u.x)
                     <= Upper(u, eps).y * (p.x - v.x) + a.y * (v.x - u.x)
                /\ Upper(v, eps).y * (p.x - u.x)
                     >= Lower(u, eps).y * (p.x - v.x) + b.y * (v.x - u.x)
  <2>1. i \in 1..n+1 /\ j \in 1..n+1 /\ n + 1 \in 1..n+1 /\ j < n + 1
    BY <1>1
  <2>2. /\ Upper(seen[i], eps).y = seen[i].y + eps
        /\ Lower(seen[i], eps).y = SubEps(seen[i].y, eps)
        /\ Upper(seen[j], eps).y = seen[j].y + eps
        /\ Lower(seen[j], eps).y = SubEps(seen[j].y, eps)
        /\ a.y = p.y + eps /\ b.y = SubEps(p.y, eps)
    BY <1>1, IntervalTypes DEF a, b
  <2>3. t[i] = seen[i] /\ t[j] = seen[j] /\ t[n+1] = p
    BY <1>2
  <2>4. LET u == t[i]  v == t[j]  w == t[n+1]
        IN /\ SubEps(v.y, eps) * (w.x - u.x)
                <= (u.y + eps) * (w.x - v.x) + (w.y + eps) * (v.x - u.x)
           /\ (v.y + eps) * (w.x - u.x)
                >= SubEps(u.y, eps) * (w.x - v.x) + SubEps(w.y, eps) * (v.x - u.x)
    BY <1>3, <1>8, <2>1 DEF Coverable
  <2> QED BY <2>2, <2>3, <2>4
<1>9. CASE Steeper(least, Minus(a, r[3]))
  <2>1. PICK i \in 1..n : r[1] = Upper(seen[i], eps)
    BY <1>4 DEF Uppers, n
  <2>2. PICK j \in 1..n : r[3] = Lower(seen[j], eps)
    BY <1>4 DEF Lowers, n
  <2>3. r[1].x = seen[i].x /\ r[3].x = seen[j].x
    BY <1>1, <2>1, <2>2, IntervalTypes
  <2>4. i < j
    BY <1>1, <1>4, <2>3
  <2>5. r[3].x < a.x
    BY <1>5, <2>3 DEF n
  <2> HIDE DEF r, least
  <2>6. ~(Rise(a, r[3], Minus(r[3], r[1])) >= 0)
    <3>1. Minus(a, r[3]) \in Slopes
      BY <1>5, <1>7, <2>5, Chord
    <3>2. ~(Rise(a, r[3], least) >= 0)
      BY <1>4, <1>5, <1>7, <1>9, <2>5, <3>1, Chord, SlopesCompare
    <3> QED BY <3>2 DEF least
  <2>7. ~(r[3].y * (a.x - r[1].x) <= r[1].y * (a.x - r[3].x) + a.y * (r[3].x - r[1].x))
    BY <1>5, <1>7, <2>6, ThreePoints
  <2> QED BY <1>5, <1>8, <2>1, <2>2, <2>3, <2>4, <2>7 DEF t
<1>10. CASE Steeper(Minus(b, r[4]), most)
  <2>1. PICK i \in 1..n : r[2] = Lower(seen[i], eps)
    BY <1>4 DEF Lowers, n
  <2>2. PICK j \in 1..n : r[4] = Upper(seen[j], eps)
    BY <1>4 DEF Uppers, n
  <2>3. r[2].x = seen[i].x /\ r[4].x = seen[j].x
    BY <1>1, <2>1, <2>2, IntervalTypes
  <2>4. i < j
    BY <1>1, <1>4, <2>3
  <2>5. r[4].x < b.x
    BY <1>5, <2>3 DEF n
  <2> HIDE DEF r, most
  <2>6. ~(Rise(b, r[4], Minus(r[4], r[2])) <= 0)
    <3>1. Minus(b, r[4]) \in Slopes
      BY <1>5, <1>7, <2>5, Chord
    <3>2. ~(Rise(b, r[4], most) <= 0)
      BY <1>4, <1>5, <1>7, <1>10, <2>5, <3>1, Chord, SlopesCompare
    <3> QED BY <3>2 DEF most
  <2>7. ~(r[4].y * (b.x - r[2].x) >= r[2].y * (b.x - r[4].x) + b.y * (r[4].x - r[2].x))
    BY <1>5, <1>7, <2>6, ThreePoints
  <2> QED BY <1>5, <1>8, <2>1, <2>2, <2>3, <2>4, <2>7 DEF t
<1> QED BY <1>6, <1>9, <1>10

(* Adding a point yields the hulls with it, or refutes that one line does. *)
LEMMA FirstAdded ==
  ASSUME NEW eps \in Nat \ {0}, NEW h, h.points = 0, NEW p \in Samples, NEW t \in Seq(Samples), Len(t) = 1, t[1] = p
  PROVE  LET k == AddPoint(h, p.x, p.y, eps)
         IN k.points = 1 /\ HullOf(k, t, eps)
<1> DEFINE k == AddPoint(h, p.x, p.y, eps)
<1>1. k = FirstPoint(Upper(p, eps), Lower(p, eps))
  BY DEF AddPoint, Upper, Lower, SubEps
<1>2. k.points = 1
  BY <1>1 DEF FirstPoint
<1>3. Ascends(t)
  BY DEF Ascends
<1>4. k.first_x = t[1].x
  BY <1>1, IntervalTypes DEF FirstPoint
<1> QED BY <1>1, <1>2, <1>3, <1>4 DEF HullOf

LEMMA PointAdded ==
  ASSUME NEW eps \in Nat \ {0}, NEW h, NEW seen, HullOf(h, seen, eps), NEW p \in Samples,
         \A i \in 1..Len(seen) : seen[i].x < p.x
  PROVE  LET k == AddPoint(h, p.x, p.y, eps)
         IN IF k.points > 0 THEN HullOf(k, Append(seen, p), eps)
                            ELSE ~Coverable(Append(seen, p), eps)
<1> DEFINE n == Len(seen)
           t == Append(seen, p)
           a == Upper(p, eps)
           b == Lower(p, eps)
           k == AddPoint(h, p.x, p.y, eps)
<1>1. /\ n \in Nat /\ n >= 1 /\ Ascends(seen) /\ h.points = n /\ h.first_x = seen[1].x
      /\ \A i \in 1..n : seen[i] \in Samples
  BY SeenInterval DEF HullOf
<1>2. /\ Ascends(t) /\ Len(t) = n + 1
      /\ Uppers(t, eps) = Uppers(seen, eps) \cup {a} /\ Lowers(t, eps) = Lowers(seen, eps) \cup {b}
  BY <1>1, OneMoreSeen
<1>8. t[1] = seen[1]
  BY <1>1, OneMoreSeen
<1>3. a \in Plane /\ a.x = p.x /\ b \in Plane /\ b.x = p.x /\ b.y < a.y
  BY IntervalTypes
<1>4. /\ n = 1 => k = SecondPoint(h, a, b)
      /\ n # 1 /\ Outside(h, a, b) => k = NoPoints
      /\ n # 1 /\ ~Outside(h, a, b) => k = [Below(Above(h, a), b) EXCEPT !.points = n + 1]
  <2>1. /\ a = Point(p.x, p.y + eps)
        /\ b = Point(p.x, IF p.y <= eps THEN 0 ELSE p.y - eps)
    BY DEF Upper, Lower, SubEps
  <2>2. k = CASE h.points = 0 -> FirstPoint(a, b)
              [] h.points = 1 -> SecondPoint(h, a, b)
              [] h.points >= 2 /\ Outside(h, a, b) -> NoPoints
              [] OTHER -> [Below(Above(h, a), b) EXCEPT !.points = h.points + 1]
    BY <2>1 DEF AddPoint
  <2> HIDE DEF n, k, a, b
  <2>3. h.points # 0 /\ (n # 1 => h.points >= 2 /\ h.points # 1)
    BY <1>1
  <2>4. n = 1 => k = SecondPoint(h, a, b)
    BY <1>1, <2>2
  <2>5. n # 1 /\ Outside(h, a, b) => k = NoPoints
    BY <2>2, <2>3
  <2>6. n # 1 /\ ~Outside(h, a, b) => k = [Below(Above(h, a), b) EXCEPT !.points = h.points + 1]
    BY <2>2, <2>3
  <2> QED BY <1>1, <2>4, <2>5, <2>6
<1> HIDE DEF t, k, a, b
<1>5. CASE n = 1
  <2> DEFINE q == seen[1]
             a1 == Upper(q, eps)
             b1 == Lower(q, eps)
  <2>1. q \in Samples /\ q.x < p.x /\ 1 \in 1..n
    BY <1>1, <1>5
  <2>2. h = FirstPoint(a1, b1)
    BY <1>5 DEF HullOf
  <2>3. /\ a1 \in Plane /\ a1.x = q.x /\ a1.y \in Int /\ b1 \in Plane /\ b1.x = q.x
        /\ b1.y \in Int /\ b1.y < a1.y
    BY <2>1, IntervalTypes, PlaneTypes
  <2>4. Uppers(seen, eps) = {a1} /\ Lowers(seen, eps) = {b1}
    <3>1. 1..n = {1}
      BY <1>5
    <3> QED BY <3>1 DEF Uppers, Lowers, n
  <2> HIDE DEF q, a1, b1
  <2> DEFINE up == Append(<<a1>>, a)
             lo == Append(<<b1>>, b)
             r == <<a1, b1, a1, b1>>
             s == [r EXCEPT ![3] = b, ![4] = a]
  <2>5. /\ up \in Seq(Plane) /\ Len(up) = 2 /\ up[1] = a1 /\ up[2] = a
         /\ lo \in Seq(Plane) /\ Len(lo) = 2 /\ lo[1] = b1 /\ lo[2] = b
    BY <1>3, <2>3
  <2>6. Hulls(1, up, 1, lo, 1, {a1, a}, {b1, b})
    <3>1. a1.x = b1.x /\ a.x = b.x /\ a1.x < a.x /\ b1.y <= a1.y /\ b.y <= a.y
      BY <1>3, <2>1, <2>3, PlaneTypes
    <3> HIDE DEF up, lo
    <3> QED BY <1>3, <2>3, <2>5, <3>1, TwoPoints
  <2>7. h = [points |-> 1, upper |-> <<a1>>, lower |-> <<b1>>, upper_start |-> 1,
             lower_start |-> 1, rectangle |-> <<a1, b1, a1, b1>>, first_x |-> a1.x]
    BY <2>2 DEF FirstPoint
  <2>8. k = [points |-> 2, upper |-> up, lower |-> lo, upper_start |-> 1,
             lower_start |-> 1, rectangle |-> s, first_x |-> a1.x]
    <3>1. h.upper = <<a1>> /\ h.lower = <<b1>>
      BY <2>7
    <3>2. k = [h EXCEPT !.points = 2, !.upper = Append(@, a), !.lower = Append(@, b),
                        !.rectangle[3] = b, !.rectangle[4] = a]
      BY <1>4, <1>5 DEF SecondPoint
    <3>3. h.rectangle = r
      BY <2>7
    <3> HIDE DEF r
    <3> QED BY <2>7, <3>1, <3>2, <3>3
  <2>9. /\ s \in [1..4 -> Plane]
        /\ s[1] = a1 /\ s[2] = b1 /\ s[3] = b /\ s[4] = a
    <3>1. r \in [1..4 -> Plane] /\ r[1] = a1 /\ r[2] = b1
      BY <2>3
    <3> HIDE DEF r
    <3> QED BY <1>3, <3>1
  <2> HIDE DEF s
  <2>10. Spanned(k, {a1, a}, {b1, b})
    <3>1. a1.x \in Int
      BY <2>3, PlaneTypes
    <3> HIDE DEF up, lo
    <3>2. k \in HullRecords
      BY <2>5, <2>8, <2>9, <3>1 DEF HullRecords
    <3>3. /\ k.upper = up /\ k.lower = lo /\ k.upper_start = 1 /\ k.lower_start = 1
          /\ k.rectangle = s
      BY <2>8
    <3>4. /\ k.upper[k.upper_start] = a1 /\ k.upper[Len(k.upper)] = a
          /\ k.lower[k.lower_start] = b1 /\ k.lower[Len(k.lower)] = b
      BY <2>5, <3>3
    <3> QED BY <2>6, <2>9, <3>2, <3>3, <3>4 DEF Spanned
  <2>11. Uppers(t, eps) = {a1, a} /\ Lowers(t, eps) = {b1, b}
    BY <1>2, <2>4
  <2>12. k.points = 2 /\ Len(t) = 2
    BY <1>2, <1>5, <2>8
  <2>13. Spanned(k, Uppers(t, eps), Lowers(t, eps)) /\ Len(t) # 1 /\ k.points = Len(t)
    BY <2>10, <2>11, <2>12
  <2>15. k.first_x = t[1].x
    BY <1>8, <2>3, <2>8 DEF q
  <2>14. HullOf(k, t, eps)
    BY <1>2, <2>13, <2>15 DEF HullOf
  <2> QED BY <2>12, <2>14 DEF k, t
<1>6. CASE n # 1 /\ Outside(h, a, b)
  <2>1. k.points = 0
    BY <1>4, <1>6 DEF NoPoints
  <2>2. ~Coverable(t, eps)
    BY <1>6, OutsideRefutes DEF a, b, t
  <2> QED BY <2>1, <2>2 DEF k, t
<1>7. CASE n # 1 /\ ~Outside(h, a, b)
  <2> DEFINE A == Uppers(seen, eps)
             B == Lowers(seen, eps)
             u == Above(h, a)
             v == Below(u, b)
  <2>1. Spanned(h, A, B)
    BY <1>7 DEF HullOf
  <2>2. \A x \in A \cup B : x.x < a.x
    <3> TAKE x \in A \cup B
    <3>1. PICK i \in 1..n : x = Upper(seen[i], eps) \/ x = Lower(seen[i], eps)
      BY DEF Uppers, Lowers
    <3>2. x.x = seen[i].x
      BY <1>1, <3>1, IntervalTypes
    <3> QED BY <1>3, <3>2
  <2> HIDE DEF A, B
  <2>3. /\ Spanned(u, A \cup {a}, B) /\ u.points = h.points /\ u.first_x = h.first_x
        /\ Rise(b, u.rectangle[2], Minus(u.rectangle[4], u.rectangle[2])) <= 0
        /\ u.rectangle[1].x < b.x
    BY ZenonT(60), <1>3, <1>7, <2>1, <2>2, AboveHolds
  <2>4. (\A x \in B : x.x < b.x) /\ \A x \in A \cup {a} : Past(-1, b, x)
    <3>1. ASSUME NEW x \in A \cup {a} PROVE Past(-1, b, x)
      <4>1. CASE x \in A
        BY <1>3, <2>2, <4>1 DEF Past
      <4>2. CASE x = a
        BY <1>3, <4>2 DEF Past
      <4> QED BY <4>1, <4>2
    <3>2. \A x \in B : x.x < b.x
      BY <1>3, <2>2
    <3> QED BY <3>1, <3>2
  <2> HIDE DEF u
  <2>5. Spanned(v, A \cup {a}, B \cup {b}) /\ v.points = u.points /\ v.first_x = u.first_x
    BY <1>3, <2>3, <2>4, BelowHolds
  <2> HIDE DEF v
  <2>6. k = [v EXCEPT !.points = n + 1]
    BY <1>4, <1>7 DEF u, v
  <2>7. v \in HullRecords /\ n + 1 \in Nat
    BY <1>1, <2>5 DEF Spanned
  <2>8. /\ k.points = n + 1 /\ k.upper = v.upper /\ k.lower = v.lower
        /\ k.upper_start = v.upper_start /\ k.lower_start = v.lower_start
        /\ k.rectangle = v.rectangle /\ k \in HullRecords /\ k.first_x = v.first_x
    BY <2>6, <2>7 DEF HullRecords
  <2>9. Spanned(k, A \cup {a}, B \cup {b})
    BY <2>5, <2>8 DEF Spanned
  <2>10. HullOf(k, t, eps)
    <3>1. Len(t) # 1
      BY <1>1, <1>2
    <3>2. k.first_x = t[1].x
      BY <1>1, <1>8, <2>3, <2>5, <2>8
    <3> QED BY <1>2, <2>8, <2>9, <3>1, <3>2 DEF HullOf, A, B
  <2>11. k.points > 0
    BY <1>1, <2>8
  <2> QED BY <2>10, <2>11 DEF k, t
<1> QED BY <1>5, <1>6, <1>7

-----------------------------------------------------------------------------
(* The states of the segmentation after each point.                        *)
Unfed == [hull |-> NoPoints, out |-> <<>>, seen |-> << <<>> >>]

LEMMA Feeding ==
  ASSUME NEW eps, NEW pts, pts \in Seq(Samples)
  PROVE  \E f : /\ FoldLeft(LAMBDA st, p : Fed(st, p, eps), Unfed, pts) = f[Len(pts)]
                /\ f[0] = Unfed
                /\ \A i \in 1..Len(pts) : f[i] = Fed(f[i-1], pts[i], eps)
<1> DEFINE n == Len(pts)
           Then(g, s) == IF s = {} THEN Unfed
                         ELSE Fed(g[s \ {Max(s)}], pts[Max(s)], eps)
           Equation(g, m) == g = [s \in SUBSET (1..m) |-> Then(g, s)]
           T == {m \in Nat : \E g : Equation(g, m)}
           iter == CHOOSE g : Equation(g, n)
<1>1. n \in Nat /\ DOMAIN pts = 1..n
  OBVIOUS
<1>2. FoldLeft(LAMBDA st, p : Fed(st, p, eps), Unfed, pts) = iter[1..n]
  <2>1. FoldLeft(LAMBDA st, p : Fed(st, p, eps), Unfed, pts)
          = (CHOOSE g : g = [s \in SUBSET (1..n) |-> Then(g, s)])[1..n]
    BY <1>1 DEF FoldLeft, MapThenFoldSet
  <2> QED BY <2>1
<1> HIDE DEF n
<1>3. \A m \in Nat : \A s \in SUBSET (1..m) : s # {} => Max(s) \in s /\ \A y \in s : y <= Max(s)
  <2> TAKE m \in Nat
  <2> TAKE s \in SUBSET (1..m)
  <2> HAVE s # {}
  <2>1. 1 \in Int /\ m \in Int /\ s \subseteq 1..m
    OBVIOUS
  <2> QED BY ONLY <2>1, s # {}, MaxOfInterval
<1>4. 0 \in T
  <2> DEFINE g == [s \in SUBSET (1..0) |-> Unfed]
  <2>1. \A s \in SUBSET (1..0) : s = {}
    OBVIOUS
  <2>2. \A s \in SUBSET (1..0) : Then(g, s) = Unfed
    BY <2>1
  <2>3. Equation(g, 0)
    <3> HIDE DEF Then
    <3> QED BY <2>2
  <2> HIDE DEF Equation
  <2> QED BY <2>3
<1>5. ASSUME NEW m \in Nat, m \in T PROVE m + 1 \in T
  <2>1. PICK g : Equation(g, m)
    BY <1>5
  <2> DEFINE k == [s \in SUBSET (1..m+1) |->
                     IF m + 1 \in s THEN Fed(g[s \ {m+1}], pts[m+1], eps) ELSE g[s]]
  <2>2. \A s \in SUBSET (1..m) : g[s] = Then(g, s)
    <3> HIDE DEF Then
    <3> QED BY <2>1
  <2>3. \A s \in SUBSET (1..m+1) :
          /\ m + 1 \in s => k[s] = Fed(g[s \ {m+1}], pts[m+1], eps)
          /\ m + 1 \notin s => k[s] = g[s] /\ s \in SUBSET (1..m)
    <3>1. \A s \in SUBSET (1..m+1) : m + 1 \notin s => s \in SUBSET (1..m)
      OBVIOUS
    <3> QED BY <3>1
  <2>4. DOMAIN k = SUBSET (1..m+1) /\ k = [s \in SUBSET (1..m+1) |-> k[s]]
    OBVIOUS
  <2> HIDE DEF k
  <2>5. ASSUME NEW s \in SUBSET (1..m+1) PROVE k[s] = Then(k, s)
    <3>1. CASE s = {}
      <4>1. m + 1 \notin s /\ s \in SUBSET (1..m)
        BY <3>1
      <4>2. k[s] = Unfed
        BY <2>2, <2>3, <3>1, <4>1
      <4> QED BY <3>1, <4>2
    <3>2. CASE s # {} /\ m + 1 \in s
      <4>1. Max(s) = m + 1
        <5>1. m + 1 \in Nat /\ \A x \in s : x \in 1..m+1
          OBVIOUS
        <5>2. Max(s) \in s /\ m + 1 <= Max(s)
          BY <1>3, <3>2, <5>1
        <5>3. Max(s) \in 1..m+1
          BY <5>1, <5>2
        <5> QED BY <5>2, <5>3
      <4>2. s \ {m+1} \in SUBSET (1..m+1) /\ m + 1 \notin s \ {m+1}
        OBVIOUS
      <4>3. k[s] = Fed(g[s \ {m+1}], pts[m+1], eps) /\ k[s \ {m+1}] = g[s \ {m+1}]
        BY <2>3, <3>2, <4>2
      <4> QED BY <3>2, <4>1, <4>3
    <3>3. CASE s # {} /\ m + 1 \notin s
      <4>1. s \in SUBSET (1..m) /\ k[s] = g[s]
        BY <2>3, <3>3
      <4>2. g[s] = Fed(g[s \ {Max(s)}], pts[Max(s)], eps)
        BY <2>2, <3>3, <4>1
      <4>3. s \ {Max(s)} \in SUBSET (1..m+1) /\ m + 1 \notin s \ {Max(s)}
        BY <3>3
      <4>4. k[s \ {Max(s)}] = g[s \ {Max(s)}]
        BY <2>3, <4>3
      <4> QED BY <3>3, <4>1, <4>2, <4>4
    <3> QED BY <3>1, <3>2, <3>3
  <2>6. Equation(k, m+1)
    <3> HIDE DEF Then
    <3> QED BY <2>4, <2>5
  <2> HIDE DEF Equation
  <2> QED BY <2>6
<1>6. n \in T
  <2> HIDE DEF T
  <2> QED BY <1>1, <1>4, <1>5, Induction
<1>7. Equation(iter, n)
  <2>1. \E g : Equation(g, n)
    BY <1>6
  <2> HIDE DEF Equation
  <2> QED BY <2>1
<1> HIDE DEF iter
<1>8. \A s \in SUBSET (1..n) : iter[s] = Then(iter, s)
  <2> HIDE DEF Then
  <2> QED BY <1>7
<1> DEFINE f == [i \in 0..n |-> iter[1..i]]
<1>9. f[n] = iter[1..n] /\ f[0] = Unfed
  <2>1. 1..0 = {} /\ 1..0 \in SUBSET (1..n) /\ 0 \in 0..n /\ n \in 0..n
    BY <1>1
  <2> QED BY <1>8, <2>1
<1>10. ASSUME NEW i \in 1..n PROVE f[i] = Fed(f[i-1], pts[i], eps)
  <2>1. 1..i \in SUBSET (1..n) /\ 1..i # {} /\ i \in 1..i /\ i \in 0..n /\ i - 1 \in 0..n
    BY <1>1
  <2>2. Max(1..i) = i
    <3>1. Max(1..i) \in 1..i /\ i <= Max(1..i)
      BY <1>1, <1>3, <2>1
    <3> QED BY <3>1
  <2>3. (1..i) \ {i} = 1..i-1
    BY <1>1
  <2>4. iter[1..i] = Fed(iter[1..i-1], pts[i], eps)
    BY <1>8, <2>1, <2>2, <2>3
  <2> QED BY <2>1, <2>4
<1> HIDE DEF f
<1> QED BY <1>2, <1>9, <1>10 DEF n

-----------------------------------------------------------------------------
(* The line of a segment, after the casts.                                 *)
LEMMA CutQuotient ==
  ASSUME NEW m \in Nat, NEW d \in Nat \ {0}
  PROVE  LET half == IF -m < 0 THEN Quotient(-d, 2) ELSE Quotient(d, 2)
             c == Quotient(-m + half, d)
         IN /\ c \in Int
            /\ 2 * (c * d) <= d - 2 * m
            /\ 2 * (c * d) >= -(2 * m) - d
<1> DEFINE h == d \div 2
           q == (m + h) \div d
<1>1. h \in Nat /\ 2 * h <= d /\ d <= 2 * h + 1 /\ h < d
  OBVIOUS
<1> HIDE DEF h
<1>2. m + h \in Nat
  BY <1>1
<1>3. q \in Int /\ q * d <= m + h /\ m + h < (q + 1) * d
  BY <1>2, Division
<1>4. (q + 1) * d = q * d + d /\ q * d \in Int /\ (-q) * d = -(q * d)
  <2>1. q * d \in Int
    BY <1>3, Products
  <2> HIDE DEF q
  <2> QED BY <1>3, <2>1
<1>5. q >= 0
  <2>1. q * d + d > 0
    BY <1>1, <1>2, <1>3, <1>4
  <2>2. 0 * d < (q + 1) * d
    BY <1>4, <2>1
  <2>3. 0 < q + 1
    BY <1>3, <2>2, Multiply
  <2> QED BY <1>3, <2>3
<1> DEFINE half == IF -m < 0 THEN Quotient(-d, 2) ELSE Quotient(d, 2)
           c == Quotient(-m + half, d)
<1>6. CASE m > 0
  <2>1. half = -h
    BY <1>6 DEF Quotient, h
  <2> HIDE DEF half
  <2>2. -m + half < 0 /\ -(-m + half) = m + h
    BY <1>1, <1>6, <2>1
  <2>3. c = -q
    BY <2>2 DEF Quotient
  <2> HIDE DEF c, q
  <2>4. c \in Int /\ c * d = -(q * d)
    BY <1>3, <1>4, <2>3
  <2>5. 2 * (c * d) <= d - 2 * m /\ 2 * (c * d) >= -(2 * m) - d
    BY <1>1, <1>3, <1>4, <2>4
  <2> QED BY <2>4, <2>5 DEF c, half
<1>7. CASE m = 0
  <2>1. half = h
    <3>1. ~(-m < 0) /\ ~(d < 0)
      BY <1>7
    <3> QED BY <3>1 DEF Quotient, h
  <2> HIDE DEF half
  <2>2. -m + half = h /\ ~(h < 0)
    BY <1>1, <1>7, <2>1
  <2>3. c = h \div d
    BY <2>2 DEF Quotient
  <2>4. c = 0
    BY <1>1, <2>3
  <2> HIDE DEF c
  <2>5. 2 * (c * d) <= d - 2 * m /\ 2 * (c * d) >= -(2 * m) - d
    BY <1>7, <2>4
  <2> QED BY <2>4, <2>5 DEF c, half
<1> QED BY <1>6, <1>7

Lines == [key : Nat, slope : [dx : Nat \ {0}, dy : Nat], intercept : Nat]

LEMMA LineTypes ==
  ASSUME NEW L \in Lines
  PROVE  L.key \in Nat /\ L.slope.dx \in Nat \ {0} /\ L.slope.dy \in Nat /\ L.intercept \in Nat
BY DEF Lines

LEMMA LinePositions ==
  ASSUME NEW L \in Lines, NEW k \in Nat, L.key <= k, NEW pos \in Positions(L, k)
  PROVE  LET num == L.slope.dy * (k - L.key)
             d == L.slope.dx
         IN /\ pos \in Int /\ num \in Nat
            /\ (pos - L.intercept) * d <= num
            /\ (pos - L.intercept) * d >= num - d
<1> DEFINE num == L.slope.dy * (k - L.key)
           d == L.slope.dx
           c == L.intercept
           q == num \div d
<1>1. d \in Nat \ {0} /\ c \in Nat /\ L.slope.dy \in Nat /\ k - L.key \in Nat
  BY LineTypes
<1>2. num \in Nat
  <2> DEFINE a == L.slope.dy  b == k - L.key
  <2> HIDE DEF a, b
  <2>1. a \in Nat /\ b \in Nat
    BY <1>1 DEF a, b
  <2>2. a * b \in Nat
    BY <2>1
  <2> QED BY <2>2 DEF a, b
<1>3. \/ pos = q + c
      \/ pos = (q + c) - 1 /\ num % d = 0
  BY DEF Positions
<1> HIDE DEF num, d, c
<1>4. q \in Int /\ q * d <= num /\ num < (q + 1) * d /\ (num % d = 0 => num = q * d)
  <2>1. num % d = 0 => num = q * d
    BY <1>1, <1>2
  <2> QED BY <1>1, <1>2, <2>1, Division
<1> HIDE DEF q
<1>5. (q + 1) * d = q * d + d /\ (q - 1) * d = q * d - d /\ q * d \in Int
  <2>1. q * d \in Int
    BY <1>1, <1>4, Products
  <2> QED BY <1>1, <1>4, <2>1
<1>6. CASE pos = q + c
  <2>1. pos - c = q /\ pos \in Int
    BY <1>1, <1>4, <1>6
  <2> QED BY <1>1, <1>2, <1>4, <1>5, <2>1 DEF num, d, c
<1>7. CASE pos = (q + c) - 1 /\ num % d = 0
  <2>1. pos - c = q - 1 /\ pos \in Int
    BY <1>1, <1>4, <1>7
  <2>2. num = q * d
    BY <1>4, <1>5, <1>7
  <2> QED BY <1>1, <1>2, <1>5, <2>1, <2>2 DEF num, d, c
<1> QED BY <1>3, <1>6, <1>7

(* A value of the line of slope y over d through (x2, y2): w at k, up to   *)
(* the rounding, and a point (x, u) of the plane above it, (x, l) below.   *)
LEMMA StaysUnder ==
  ASSUME NEW d \in Nat \ {0}, NEW y \in Nat, NEW x2 \in Int, NEW y2 \in Int,
         NEW k \in Int, NEW x \in Int, k <= x, NEW u \in Int, y * (x - x2) <= (u - y2) * d,
         NEW w \in Int, 2 * ((w - y2) * d) <= 2 * (y * (k - x2)) + d
  PROVE  w <= u
<1> DEFINE a == y * (x - x2)
           b == y * (k - x2)
           v == (u - y2) * d
           z == (w - y2) * d
<1>1. a \in Int /\ b \in Int /\ v \in Int /\ z \in Int
  BY Products
<1>2. b <= a
  <2>1. (k - x2) * y <= (x - x2) * y
    BY Multiply
  <2>2. (k - x2) * y = b /\ (x - x2) * y = a
    BY Products
  <2> QED BY <2>1, <2>2
<1>3. a <= v /\ 2 * z <= 2 * b + d
  OBVIOUS
<1>4. w >= u + 1 => z >= v + d
  <2> SUFFICES ASSUME w >= u + 1 PROVE z >= v + d
    OBVIOUS
  <2>1. ((u - y2) + 1) * d <= (w - y2) * d
    <3>1. (u - y2) + 1 <= w - y2 /\ (u - y2) + 1 \in Int /\ w - y2 \in Int
      OBVIOUS
    <3> QED BY ONLY <3>1, d \in Nat \ {0}, Multiply
  <2>2. ((u - y2) + 1) * d = v + d
    <3> DEFINE t == u - y2
    <3>1. t \in Int
      OBVIOUS
    <3> HIDE DEF t
    <3>2. (t + 1) * d = t * d + d
      BY <3>1
    <3> QED BY <3>2 DEF t
  <2> QED BY <2>1, <2>2
<1> HIDE DEF a, b, v, z
<1> QED BY <1>1, <1>2, <1>3, <1>4

LEMMA StaysOver ==
  ASSUME NEW d \in Nat \ {0}, NEW y \in Nat, NEW x2 \in Int, NEW y2 \in Int,
         NEW k \in Int, NEW x \in Int, x <= k, NEW l \in Int, (l - y2) * d <= y * (x - x2),
         NEW w \in Int, NEW f \in {0, 1}, 2 * ((w - y2) * d) >= 2 * (y * (k - x2)) - (2 * f + 1) * d
  PROVE  w >= l - f
<1> DEFINE a == y * (x - x2)
           b == y * (k - x2)
           v == (l - y2) * d
           z == (w - y2) * d
           r == f * d
<1>1. a \in Int /\ b \in Int /\ v \in Int /\ z \in Int /\ r \in Int /\ (2 * f + 1) * d = 2 * r + d
  <2>1. f = 0 \/ f = 1
    OBVIOUS
  <2>2. r \in Int /\ (2 * f + 1) * d = 2 * r + d
    BY <2>1
  <2> QED BY <2>2, Products
<1>2. a <= b
  <2>1. (x - x2) * y <= (k - x2) * y
    BY Multiply
  <2>2. (k - x2) * y = b /\ (x - x2) * y = a
    BY Products
  <2> QED BY <2>1, <2>2
<1>3. v <= a /\ 2 * z >= 2 * b - (2 * r + d)
  BY <1>1
<1>4. w <= l - f - 1 => z <= v - r - d
  <2> SUFFICES ASSUME w <= l - f - 1 PROVE z <= v - r - d
    OBVIOUS
  <2>1. (w - y2) * d <= ((l - y2) - f - 1) * d
    <3>1. w - y2 <= (l - y2) - f - 1 /\ (l - y2) - f - 1 \in Int /\ w - y2 \in Int
      OBVIOUS
    <3> QED BY ONLY <3>1, d \in Nat \ {0}, Multiply
  <2>2. ((l - y2) - f - 1) * d = v - r - d
    <3> DEFINE t == l - y2
    <3>1. t \in Int /\ (f = 0 \/ f = 1)
      OBVIOUS
    <3> HIDE DEF t
    <3>2. (t - f - 1) * d = t * d - f * d - d
      BY <3>1
    <3> QED BY <3>2 DEF t
  <2> QED BY <2>1, <2>2
<1> HIDE DEF a, b, v, z, r
<1> QED BY <1>1, <1>2, <1>3, <1>4

(* What a line is to the points of its segment.                            *)
RanksRise(seen) == \A i, j \in 1..Len(seen) : i <= j => seen[i].y <= seen[j].y

Fit(L, seen, eps) ==
  /\ L \in Lines /\ L.key = seen[1].x
  /\ SubEps(seen[1].y, eps) <= L.intercept /\ L.intercept <= seen[1].y + eps
  /\ \A k \in Nat, i \in 1..Len(seen) : L.key <= k => \A pos \in Positions(L, k) :
       /\ pos \in Int
       /\ k <= seen[i].x => pos <= seen[i].y + eps
       /\ seen[i].x <= k => SubEps(seen[i].y, eps) - 1 <= pos

LEMMA OnePointFits ==
  ASSUME NEW eps \in Nat \ {0}, NEW h, NEW seen, HullOf(h, seen, eps), Len(seen) = 1
  PROVE  Fit(Segment(h), seen, eps)
<1> DEFINE p == seen[1]
           L == Segment(h)
           u == p.y + eps
           l == SubEps(p.y, eps)
           mid == (u + l) \div 2
<1>1. Ascends(seen) /\ seen \in Seq(Samples) /\ p \in Samples
  BY SeenInterval DEF HullOf
<1>2. p.x \in Nat /\ u \in Int /\ l \in Int /\ 0 <= l /\ l < u
  <2>1. p.x \in Nat /\ p.y \in Nat
    BY <1>1, IntervalTypes
  <2> QED BY <2>1 DEF SubEps
<1>3. /\ h.rectangle = <<Upper(p, eps), Lower(p, eps), Upper(p, eps), Lower(p, eps)>>
      /\ h.first_x = p.x
  BY DEF HullOf, FirstPoint
<1>4. Upper(p, eps).y = u /\ Lower(p, eps).y = l
  BY <1>1, IntervalTypes
<1> HIDE DEF u, l
<1>5. mid \in Nat /\ l <= mid /\ mid <= u
  BY <1>2
<1> HIDE DEF mid
<1>6. L = [key |-> p.x, slope |-> [dx |-> 1, dy |-> 0], intercept |-> mid]
  <2>1. OnePoint(h.rectangle)
    BY <1>3 DEF OnePoint
  <2>2. h.rectangle[1].y = u /\ h.rectangle[2].y = l
    BY <1>3, <1>4
  <2> QED BY <1>3, <2>1, <2>2 DEF Segment, mid
<1> HIDE DEF L
<1>7. L \in Lines /\ L.key = p.x /\ L.intercept = mid /\ L.slope.dy = 0 /\ L.slope.dx = 1
  BY <1>2, <1>5, <1>6 DEF Lines
<1>8. ASSUME NEW k \in Nat, L.key <= k, NEW pos \in Positions(L, k) PROVE pos = mid
  <2>1. 0 * (k - L.key) = 0
    BY <1>2, <1>7
  <2>2. /\ pos \in Int /\ (pos - L.intercept) * L.slope.dx <= 0
        /\ pos = (0 \div L.slope.dx) + L.intercept
    <3>1. pos = (0 \div L.slope.dx) + L.intercept
      BY <1>7, <1>8, <2>1 DEF Positions
    <3> QED BY <1>7, <1>8, <2>1, <3>1, LinePositions
  <2> QED BY <1>5, <1>7, <2>2
<1>9. \A i \in 1..Len(seen) : i = 1
  OBVIOUS
<1>10. ASSUME NEW k \in Nat, NEW i \in 1..Len(seen), L.key <= k, NEW pos \in Positions(L, k)
       PROVE  /\ pos \in Int
              /\ pos <= seen[i].y + eps
              /\ SubEps(seen[i].y, eps) - 1 <= pos
  <2>1. pos = mid /\ seen[i] = p
    BY <1>8, <1>9, <1>10
  <2>2. pos \in Int /\ pos <= u /\ l - 1 <= pos
    BY <1>2, <1>5, <2>1
  <2> QED BY <2>1, <2>2 DEF u, l
<1> QED BY <1>5, <1>7, <1>10 DEF Fit, L, u, l

LEMMA SegmentFits ==
  ASSUME NEW eps \in Nat \ {0}, NEW h, NEW seen, HullOf(h, seen, eps), RanksRise(seen)
  PROVE  Fit(Segment(h), seen, eps)
<1>1. CASE Len(seen) = 1
  BY <1>1, OnePointFits
<1>2. CASE Len(seen) # 1
  <2> DEFINE n == Len(seen)
             r == h.rectangle
             p == r[2]
             t == Minus(r[4], p)
             d == t.dx
             y == t.dy
             key == h.first_x
             num == y * (key - p.x)
             half == IF num < 0 THEN Quotient(-t.dx, 2) ELSE Quotient(t.dx, 2)
             c == Quotient(num + half, t.dx)
             L == Segment(h)
  <2>1. /\ n \in Nat /\ n >= 1 /\ Ascends(seen) /\ seen \in Seq(Samples)
        /\ Spanned(h, Uppers(seen, eps), Lowers(seen, eps))
        /\ \A i, j \in 1..n : seen[i].x < seen[j].x => i < j
        /\ key = seen[1].x
    BY <1>2, SeenInterval DEF HullOf
  <2>2. \A i \in 1..n : seen[i] \in Samples /\ seen[i].x \in Nat /\ seen[i].y \in Nat
    BY <2>1, SampleAt
  <2>3. /\ Uppers(seen, eps) \subseteq Plane /\ Lowers(seen, eps) \subseteq Plane
        /\ p \in Lowers(seen, eps) /\ r[4] \in Uppers(seen, eps)
        /\ p.x < r[4].x /\ t \in Slopes
        /\ Fits(1, p, t, Uppers(seen, eps), Lowers(seen, eps))
    BY <2>1, SpannedFacts
  <2>4. PICK i2 \in 1..n : p = Lower(seen[i2], eps)
    BY <2>3 DEF Lowers
  <2>5. PICK i4 \in 1..n : r[4] = Upper(seen[i4], eps)
    BY <2>3 DEF Uppers
  <2>6. /\ p \in Plane /\ p.x = seen[i2].x /\ p.y = SubEps(seen[i2].y, eps)
        /\ r[4] \in Plane /\ r[4].x = seen[i4].x /\ r[4].y = seen[i4].y + eps
    BY <2>2, <2>4, <2>5, IntervalTypes
  <2>7. seen[i2].y <= seen[i4].y
    <3>1. i2 < i4
      BY <2>1, <2>3, <2>6
    <3>2. i2 <= i4
      BY <3>1
    <3> QED BY <3>2 DEF RanksRise
  <2>8. d \in Nat \ {0} /\ y \in Nat /\ p.x \in Int /\ p.y \in Nat
    <3>1. d \in Nat \ {0} /\ y = r[4].y - p.y
      BY <2>3, SlopeTypes DEF Minus
    <3>2. p.y \in Nat /\ p.y <= seen[i2].y
      BY <2>2, <2>6 DEF SubEps
    <3>3. r[4].y - p.y \in Nat
      BY <2>2, <2>6, <2>7, <3>2
    <3> QED BY <2>2, <2>6, <3>1, <3>2, <3>3
  <2>9. key \in Nat /\ key <= p.x
    <3>1. 1 \in 1..n
      BY <2>1
    <3>2. i2 = 1 \/ seen[1].x < seen[i2].x
      BY <2>1, <3>1 DEF Ascends
    <3> QED BY <2>1, <2>2, <2>6, <3>1, <3>2
  <2>10. L = [key |-> key, slope |-> t, intercept |-> c + p.y]
    <3>1. ~OnePoint(r)
      BY <2>3, <2>8 DEF OnePoint
    <3> QED BY <3>1 DEF Segment
  <2> HIDE DEF n, p, t, d, y, key, L, r
  <2>11. c \in Int /\ 2 * (c * d) <= 2 * num + d /\ 2 * (c * d) >= 2 * num - d
    <3> DEFINE m == y * (p.x - key)
               c1 == Quotient(-m + (IF -m < 0 THEN Quotient(-d, 2) ELSE Quotient(d, 2)), d)
    <3>1. m \in Nat /\ num = -m
      <4> DEFINE v == p.x - key
      <4>1. v \in Nat /\ key - p.x = -v
        BY <2>8, <2>9
      <4> HIDE DEF v
      <4>2. y * v \in Nat /\ y * (-v) = -(y * v)
        BY <2>8, <4>1
      <4> QED BY <4>1, <4>2 DEF v
    <3> HIDE DEF m, num
    <3>2. c1 \in Int /\ 2 * (c1 * d) <= d - 2 * m /\ 2 * (c1 * d) >= -(2 * m) - d
      BY <2>8, <3>1, CutQuotient
    <3>3. c = c1
      BY <3>1 DEF d
    <3> HIDE DEF c, c1
    <3>4. c1 * d \in Int
      BY <2>8, <3>2, Products
    <3>5. 2 * (c1 * d) <= 2 * num + d /\ 2 * (c1 * d) >= 2 * num - d
      BY <2>8, <3>1, <3>2, <3>4
    <3> QED BY <3>2, <3>3, <3>5
  <2> HIDE DEF c
  <2>12. ASSUME NEW i \in 1..n
         PROVE  /\ y * (seen[i].x - p.x) <= ((seen[i].y + eps) - p.y) * d
                /\ (SubEps(seen[i].y, eps) - p.y) * d <= y * (seen[i].x - p.x)
    <3> DEFINE a == Upper(seen[i], eps)
               b == Lower(seen[i], eps)
    <3>1. /\ a \in Plane /\ a.x = seen[i].x /\ a.y = seen[i].y + eps
          /\ b \in Plane /\ b.x = seen[i].x /\ b.y = SubEps(seen[i].y, eps)
      BY <2>2, IntervalTypes
    <3>2. a \in Uppers(seen, eps) /\ b \in Lowers(seen, eps)
      BY DEF Uppers, Lowers, n
    <3> HIDE DEF a, b
    <3>3. Rise(a, p, t) >= 0 /\ Rise(b, p, t) <= 0
      BY <2>3, <3>2 DEF Fits, Beyond
    <3>4. /\ Rise(a, p, t) = (a.y - p.y) * d - y * (a.x - p.x)
          /\ Rise(b, p, t) = (b.y - p.y) * d - y * (b.x - p.x)
      BY DEF Rise, d, y
    <3> DEFINE a1 == (a.y - p.y) * d  a2 == y * (a.x - p.x)
               b1 == (b.y - p.y) * d  b2 == y * (b.x - p.x)
    <3>5. a1 \in Int /\ a2 \in Int /\ b1 \in Int /\ b2 \in Int
      <4>1. a.y \in Int /\ a.x \in Int /\ b.y \in Int /\ b.x \in Int /\ p.y \in Int /\ p.x \in Int
            /\ d \in Int /\ y \in Int
        BY <2>8, <3>1, PlaneTypes
      <4> QED BY <4>1, Products
    <3>6. a1 - a2 >= 0 /\ b1 - b2 <= 0
      BY <3>3, <3>4
    <3> HIDE DEF a1, a2, b1, b2
    <3>7. a2 <= a1 /\ b1 <= b2
      BY <3>5, <3>6
    <3> QED BY <3>1, <3>7 DEF a1, a2, b1, b2
  <2> DEFINE w0 == c + p.y
  <2>13. w0 \in Int /\ 2 * ((w0 - p.y) * d) <= 2 * num + d /\ 2 * ((w0 - p.y) * d) >= 2 * num - d
    <3>1. w0 \in Int /\ w0 - p.y = c
      BY <2>8, <2>11
    <3> QED BY <2>11, <3>1
  <2> HIDE DEF w0
  <2>14. SubEps(seen[1].y, eps) <= w0 /\ w0 <= seen[1].y + eps /\ SubEps(seen[1].y, eps) \in Nat
    <3>1. 1 \in 1..n /\ seen[1].x = key /\ seen[1].y \in Nat
      BY <2>1, <2>2 DEF n, key
    <3> DEFINE u == seen[1].y + eps
               l == SubEps(seen[1].y, eps)
    <3>2. u \in Int /\ l \in Nat
      BY <3>1 DEF SubEps
    <3>3. y * (key - p.x) <= (u - p.y) * d /\ (l - p.y) * d <= y * (key - p.x)
      BY <2>12, <3>1
    <3> HIDE DEF u, l
    <3>4. key \in Int /\ key <= key /\ p.y \in Int
      BY <2>8, <2>9
    <3>5. w0 <= u
      BY ONLY <2>8, <2>13, <3>2, <3>3, <3>4, StaysUnder
    <3>6. w0 >= l - 0
      <4>1. 0 \in {0, 1} /\ 2 * ((w0 - p.y) * d) >= 2 * (y * (key - p.x)) - (2 * 0 + 1) * d
        BY <2>8, <2>13
      <4> QED BY ONLY <2>8, <2>13, <3>2, <3>3, <3>4, <4>1, StaysOver
    <3> QED BY <2>13, <3>2, <3>5, <3>6 DEF u, l
  <2>15. L \in Lines /\ L.key = key /\ L.intercept = w0 /\ L.slope.dx = d /\ L.slope.dy = y
    <3>1. t = [dx |-> d, dy |-> y]
      BY DEF t, d, y, Minus
    <3>2. w0 \in Nat
      BY <2>13, <2>14
    <3>3. L = [key |-> key, slope |-> [dx |-> d, dy |-> y], intercept |-> w0]
      BY <2>10, <3>1 DEF w0
    <3> QED BY <2>8, <2>9, <3>2, <3>3 DEF Lines
  <2>16. ASSUME NEW k \in Nat, NEW i \in 1..n, key <= k, NEW pos \in Positions(L, k)
         PROVE  /\ pos \in Int
                /\ k <= seen[i].x => pos <= seen[i].y + eps
                /\ seen[i].x <= k => SubEps(seen[i].y, eps) - 1 <= pos
    <3> DEFINE a == y * (k - key)
               b == y * (k - p.x)
               e == (pos - w0) * d
               f == (w0 - p.y) * d
               g == (pos - p.y) * d
    <3>1. pos \in Int /\ e <= a /\ e >= a - d
      BY <2>15, <2>16, LinePositions
    <3>2. b = a + num /\ g = e + f
      <4>1. b = a + num
        <5>1. k \in Int /\ key \in Int /\ p.x \in Int /\ y \in Int
          BY <2>8, <2>9
        <5> QED BY ONLY <5>1 DEF num
      <4>2. pos \in Int /\ w0 \in Int /\ p.y \in Int /\ d \in Int
        BY <2>8, <2>13, <3>1
      <4> QED BY ONLY <4>1, <4>2
    <3>3. a \in Int /\ b \in Int /\ e \in Int /\ f \in Int /\ g \in Int /\ num \in Int
      <4>1. k \in Int /\ key \in Int /\ p.x \in Int /\ y \in Int
        BY <2>8, <2>9
      <4>2. pos \in Int /\ w0 \in Int /\ p.y \in Int /\ d \in Int
        BY <2>8, <2>13, <3>1
      <4> QED BY ONLY <4>1, <4>2, Products DEF num
    <3>4. 2 * f <= 2 * num + d /\ 2 * f >= 2 * num - d
      BY <2>13
    <3>5. 2 * g <= 2 * b + d /\ 2 * g >= 2 * b - 3 * d
      <4> HIDE DEF a, b, e, f, g, num
      <4> QED BY <2>8, <3>1, <3>2, <3>3, <3>4
    <3> DEFINE u == seen[i].y + eps
               l == SubEps(seen[i].y, eps)
               x == seen[i].x
    <3>6. u \in Int /\ l \in Int /\ x \in Int
      BY <2>2 DEF SubEps
    <3>7. y * (x - p.x) <= (u - p.y) * d /\ (l - p.y) * d <= y * (x - p.x)
      BY <2>12
    <3>8. k \in Int /\ p.y \in Int
      BY <2>8
    <3> HIDE DEF u, l, x
    <3>9. k <= x => pos <= u
      <4> SUFFICES ASSUME k <= x PROVE pos <= u
        OBVIOUS
      <4> QED BY ONLY k <= x, <2>8, <3>1, <3>5, <3>6, <3>7, <3>8, StaysUnder
    <3>10. x <= k => pos >= l - 1
      <4> SUFFICES ASSUME x <= k PROVE pos >= l - 1
        OBVIOUS
      <4>1. 1 \in {0, 1} /\ 2 * ((pos - p.y) * d) >= 2 * (y * (k - p.x)) - (2 * 1 + 1) * d
        BY <2>8, <3>5
      <4> QED BY ONLY x <= k, <2>8, <3>1, <3>6, <3>7, <3>8, <4>1, StaysOver
    <3> QED BY <3>1, <3>6, <3>9, <3>10 DEF u, l, x
  <2> QED BY <2>1, <2>14, <2>15, <2>16 DEF Fit, L, n, key
<1> QED BY <1>1, <1>2

-----------------------------------------------------------------------------
(* The segments closed so far, and the hulls of the open one, the last.    *)
Closed(st, eps, s) ==
  /\ Coverable(st.seen[s], eps)
  /\ ~Coverable(Append(st.seen[s], st.seen[s + 1][1]), eps)
  /\ Fit(st.out[s], st.seen[s], eps)
  /\ Len(st.seen[s]) >= 2

Segmented(st, eps, pts, i) ==
  /\ st = [hull |-> st.hull, out |-> st.out, seen |-> st.seen]
  /\ st.seen \in Seq(Seq(Samples)) /\ Len(st.seen) >= 1
  /\ st.out \in Seq(Lines) /\ Len(st.out) = Len(st.seen) - 1
  /\ HullOf(st.hull, st.seen[Len(st.seen)], eps)
  /\ \A s \in 1..Len(st.seen)-1 : Closed(st, eps, s)
  /\ \E b : Divided(b, st.seen, pts, i)

LEMMA FedFirst ==
  ASSUME NEW eps \in Nat \ {0}, NEW pts, Ascends(pts)
  PROVE  Segmented(Fed(Unfed, pts[1], eps), eps, pts, 1)
<1> DEFINE p == pts[1]
           k == Fed(Unfed, p, eps)
           h == AddPoint(NoPoints, p.x, p.y, eps)
           t == Append(<<>>, p)
           q == [<< <<>> >> EXCEPT ![1] = t]
<1>1. p \in Samples
  <2>1. 1 \in 1..Len(pts)
    BY SeenInterval
  <2> QED BY <2>1, SeenInterval
<1> HIDE DEF p
<1>2. t \in Seq(Samples) /\ Len(t) = 1 /\ t[1] = p
  BY <1>1
<1>3. h.points = 1 /\ HullOf(h, t, eps)
  <2>1. NoPoints.points = 0
    BY DEF NoPoints
  <2> HIDE DEF t
  <2> QED BY ONLY <1>1, <1>2, <2>1, eps \in Nat \ {0}, FirstAdded
<1> HIDE DEF h, t
<1>4. k = [hull |-> h, out |-> <<>>, seen |-> q]
  <2>1. Unfed.hull = NoPoints /\ Unfed.seen = << <<>> >> /\ Len(Unfed.seen) = 1 /\ Unfed.out = <<>>
    BY DEF Unfed
  <2>2. k = [Unfed EXCEPT !.hull = h, !.seen[Len(Unfed.seen)] = Append(@, p)]
    BY <1>3, <2>1 DEF Fed, h
  <2>3. Unfed.seen[1] = <<>>
    BY DEF Unfed
  <2>4. k = [Unfed EXCEPT !.hull = h, !.seen[1] = t]
    BY <2>1, <2>2, <2>3 DEF t
  <2>5. k = [Unfed EXCEPT !.hull = h, !.seen = q]
    BY <2>1, <2>4
  <2> HIDE DEF k, q
  <2> QED BY <2>5 DEF Unfed
<1>5. q \in Seq(Seq(Samples)) /\ Len(q) = 1 /\ q[1] = t
  BY <1>2
<1> HIDE DEF k, q
<1>6. k.hull = h /\ k.out = <<>> /\ k.seen = q
  BY <1>4
<1>7. 1..1-1 = {}
  OBVIOUS
<1>8. k = [hull |-> k.hull, out |-> k.out, seen |-> k.seen]
  BY <1>4, <1>6
<1>9. Len(k.seen) = 1 /\ k.seen[Len(k.seen)] = t /\ k.seen \in Seq(Seq(Samples))
  BY <1>5, <1>6
<1>10. 1..Len(k.seen)-1 = {} /\ Len(k.seen) >= 1
  BY <1>7, <1>9
<1>11. HullOf(k.hull, k.seen[Len(k.seen)], eps)
  BY <1>3, <1>6, <1>9
<1>12. k.out \in Seq(Lines) /\ Len(k.out) = Len(k.seen) - 1
  BY <1>6, <1>9
<1>13. \E b : Divided(b, k.seen, pts, 1)
  <2> DEFINE b == [s \in 1..1 |-> 1]
  <2>1. b[1] = 1 /\ \A j \in 1..1 : j = 1
    OBVIOUS
  <2>2. k.seen[1][1] = pts[1] /\ 1 + 1 - 1 = 1 /\ Len(k.seen[1]) = 1
    BY <1>2, <1>5, <1>6 DEF p
  <2> HIDE DEF b
  <2> DEFINE a == k.seen
  <2>3. /\ a[1][1] = pts[1] /\ Len(a[1]) = 1 /\ Len(a) = 1
        /\ 1..Len(a)-1 = {} /\ b[1] + Len(a[1]) = 1 + 1
    BY <1>9, <1>10, <2>1, <2>2
  <2> HIDE DEF a
  <2>4. \A s \in 1..Len(a) : /\ b[s] \in Nat \ {0} /\ Len(a[s]) \in Nat \ {0}
                             /\ \A j \in 1..Len(a[s]) : a[s][j] = pts[b[s] + j - 1]
    <3> TAKE s \in 1..Len(a)
    <3>1. s = 1
      BY <2>1, <2>3
    <3>2. \A j \in 1..1 : a[1][j] = pts[b[1] + j - 1]
      BY <2>1, <2>2, <2>3
    <3> QED BY <2>1, <2>3, <3>1, <3>2
  <2>5. Divided(b, a, pts, 1)
    BY <2>1, <2>3, <2>4 DEF Divided
  <2> QED BY <2>5 DEF a
<1> QED BY <1>8, <1>9, <1>10, <1>11, <1>12, <1>13 DEF Segmented, k, p

(* The last segment ends with the point fed last.                          *)
LEMMA LastSegment ==
  ASSUME NEW pts, Ascends(pts), RanksRise(pts), NEW i \in Nat, i < Len(pts), NEW b, NEW seen,
         seen \in Seq(Seq(Samples)), Len(seen) >= 1, Divided(b, seen, pts, i)
  PROVE  LET last == seen[Len(seen)]
         IN /\ RanksRise(last) /\ Len(last) \in Nat \ {0}
            /\ \A j \in 1..Len(last) : last[j].x < pts[i + 1].x
            /\ pts[i + 1] \in Samples
<1> DEFINE n == Len(seen)
           last == seen[n]
           m == Len(last)
           o == b[n]
<1>1. n \in 1..n /\ n \in Nat
  OBVIOUS
<1>2. /\ o \in Nat \ {0} /\ m \in Nat \ {0} /\ o + m = i + 1
      /\ \A j \in 1..m : last[j] = pts[o + j - 1]
  BY <1>1 DEF Divided
<1>3. /\ Len(pts) \in Nat /\ \A j \in 1..Len(pts) : pts[j] \in Samples
      /\ \A j, k \in 1..Len(pts) : j < k => pts[j].x < pts[k].x
  BY SeenInterval DEF Ascends
<1> HIDE DEF n, last, m, o
<1>4. i + 1 \in 1..Len(pts)
  BY <1>3
<1>5. \A j \in 1..m : o + j - 1 \in 1..Len(pts) /\ o + j - 1 < i + 1
  BY <1>2, <1>3
<1>6. \A j \in 1..m : last[j].x < pts[i + 1].x
  BY <1>2, <1>3, <1>4, <1>5
<1>7. \A j, k \in 1..m : j <= k => last[j].y <= last[k].y
  <2> TAKE j, k \in 1..m
  <2> HAVE j <= k
  <2>1. o + j - 1 <= o + k - 1
    BY <1>2
  <2>2. pts[o + j - 1].y <= pts[o + k - 1].y
    BY <1>5, <2>1 DEF RanksRise
  <2> QED BY <1>2, <2>2
<1> QED BY <1>2, <1>3, <1>4, <1>6, <1>7 DEF RanksRise, n, last, m

LEMMA FedNext ==
  ASSUME NEW eps \in Nat \ {0}, NEW pts, Ascends(pts), RanksRise(pts),
         NEW i \in Nat, i < Len(pts), NEW st, Segmented(st, eps, pts, i)
  PROVE  Segmented(Fed(st, pts[i + 1], eps), eps, pts, i + 1)
<1> DEFINE n == Len(st.seen)
           a == st.seen
           last == a[n]
           p == pts[i + 1]
           h == AddPoint(st.hull, p.x, p.y, eps)
           h1 == AddPoint(NoPoints, p.x, p.y, eps)
           k == Fed(st, p, eps)
           L == Segment(st.hull)
<1>1. /\ n \in Nat /\ n >= 1 /\ n \in 1..n /\ a \in Seq(Seq(Samples))
      /\ HullOf(st.hull, last, eps) /\ last \in Seq(Samples)
  BY DEF Segmented
<1>2. PICK b : Divided(b, a, pts, i)
  BY DEF Segmented
<1>3. /\ RanksRise(last) /\ Len(last) \in Nat \ {0}
      /\ \A j \in 1..Len(last) : last[j].x < p.x
      /\ p \in Samples
  BY <1>1, <1>2, LastSegment
<1>4. IF h.points > 0 THEN HullOf(h, Append(last, p), eps) ELSE ~Coverable(Append(last, p), eps)
  <2> HIDE DEF last, p
  <2> QED BY ONLY eps \in Nat \ {0}, <1>1, <1>3, PointAdded DEF h
<1>5. st = [hull |-> st.hull, out |-> st.out, seen |-> a]
  BY DEF Segmented
<1>6. st.out \in Seq(Lines) /\ Len(st.out) = n - 1
  BY DEF Segmented
<1>7. IF h.points > 0
        THEN k = [st EXCEPT !.hull = h, !.seen[n] = Append(@, p)]
        ELSE k = [hull |-> h1, out |-> Append(st.out, L), seen |-> Append(a, <<p>>)]
  BY DEF Fed
<1>8. \A s \in 1..n-1 : s \in 1..n /\ s # n /\ s + 1 \in 1..n /\ Closed(st, eps, s)
  BY <1>1 DEF Segmented
<1> HIDE DEF h, h1, p, L
<1>9. CASE h.points > 0
  <2> DEFINE t == Append(last, p)
             q == [a EXCEPT ![n] = t]
  <2>1. /\ t \in Seq(Samples) /\ Len(t) = Len(last) + 1 /\ t[1] = last[1] /\ t[Len(last) + 1] = p
        /\ \A j \in 1..Len(last) : t[j] = last[j]
    <3>1. 1 \in 1..Len(last)
      BY <1>3
    <3> HIDE DEF last
    <3> QED BY ONLY <1>1, <1>3, <3>1, AppendProperties
  <2>2. k = [hull |-> h, out |-> st.out, seen |-> q]
    <3>1. k = [st EXCEPT !.hull = h, !.seen[n] = t]
      BY <1>7, <1>9
    <3>2. k = [st EXCEPT !.hull = h, !.seen = q]
      BY <3>1
    <3> HIDE DEF q, k
    <3> QED BY <1>5, <3>2
  <2> HIDE DEF t, n
  <2>3. q \in Seq(Seq(Samples)) /\ Len(q) = n /\ q[n] = t /\ \A s \in 1..n : s # n => q[s] = a[s]
    BY <1>1, <2>1 DEF n
  <2> HIDE DEF q, k
  <2>4. k.hull = h /\ k.out = st.out /\ k.seen = q
    BY <2>2
  <2>5. ASSUME NEW s \in 1..n-1 PROVE Closed(k, eps, s)
    <3>1. q[s] = a[s]
      BY <1>8, <2>3
    <3>2. q[s + 1][1] = a[s + 1][1]
      BY <1>8, <2>1, <2>3
    <3> QED BY <1>8, <2>4, <3>1, <3>2 DEF Closed
  <2>6. HullOf(h, t, eps)
    BY <1>4, <1>9 DEF t
  <2>7. \E c : Divided(c, q, pts, i + 1)
    <3>1. n = Len(a) /\ Len(q[n]) = Len(a[n]) + 1 /\ q[n][Len(a[n]) + 1] = pts[i + 1]
          /\ \A j \in 1..Len(a[n]) : q[n][j] = a[n][j]
      BY <2>1, <2>3 DEF n, p
    <3> HIDE DEF a
    <3>2. Divided(b, q, pts, i + 1)
      BY ONLY i \in Nat, <1>1, <1>2, <2>3, <3>1, DividedLonger
    <3> QED BY <3>2
  <2> QED BY <1>1, <1>6, <2>2, <2>3, <2>4, <2>5, <2>6, <2>7 DEF Segmented, k, p
<1>10. CASE ~(h.points > 0)
  <2> DEFINE t == <<p>>
             q == Append(a, t)
             o == Append(st.out, L)
  <2>1. t \in Seq(Samples) /\ Len(t) = 1 /\ t[1] = p
    BY <1>3
  <2>2. HullOf(h1, t, eps)
    <3>1. NoPoints.points = 0
      BY DEF NoPoints
    <3> HIDE DEF t
    <3> QED BY ONLY eps \in Nat \ {0}, <1>3, <2>1, <3>1, FirstAdded DEF h1
  <2> HIDE DEF t, n
  <2>3. /\ q \in Seq(Seq(Samples)) /\ Len(q) = n + 1 /\ q[n + 1] = t
        /\ \A s \in 1..n : q[s] = a[s]
    BY <1>1, <2>1 DEF n
  <2>4. Fit(L, last, eps)
    BY ONLY eps \in Nat \ {0}, <1>1, <1>3, SegmentFits DEF L
  <2>5. L \in Lines
    BY <2>4 DEF Fit
  <2>6. o \in Seq(Lines) /\ Len(o) = n /\ o[n] = L /\ \A s \in 1..n-1 : o[s] = st.out[s]
    BY <1>1, <1>6, <2>5
  <2> HIDE DEF o
  <2>7. k = [hull |-> h1, out |-> o, seen |-> q]
    BY <1>7, <1>10 DEF o, t
  <2> HIDE DEF q, k
  <2>8. k.hull = h1 /\ k.out = o /\ k.seen = q
    BY <2>7
  <2>9. ASSUME NEW s \in 1..n PROVE Closed(k, eps, s)
    <3>1. CASE s = n
      <4>1. q[s] = last /\ q[s + 1][1] = p /\ o[s] = L
        BY <1>1, <2>1, <2>3, <2>6, <3>1
      <4>2. Coverable(last, eps)
        BY ONLY eps \in Nat \ {0}, <1>1, HullCoverable
      <4>3. ~Coverable(Append(last, p), eps)
        BY <1>4, <1>10
      <4>4. Len(last) >= 2
        <5> DEFINE w == Append(last, p)
                   m == Len(last)
        <5>1. m \in Nat \ {0} /\ Len(w) = m + 1
          BY <1>1, <1>3
        <5>2. w \in Seq(Samples)
          BY <1>1, <1>3
        <5>3. ~Coverable(w, eps)
          BY <4>3
        <5> HIDE DEF w, m
        <5>4. DOMAIN w = 1..m+1
          BY <5>1, <5>2
        <5>5. m = 1 => Coverable(w, eps)
          BY <5>4 DEF Coverable
        <5>6. m >= 2
          BY <5>1, <5>3, <5>5
        <5> QED BY <5>6 DEF m
      <4> QED BY <2>4, <2>8, <4>1, <4>2, <4>3, <4>4 DEF Closed
    <3>2. CASE s # n
      <4>1. s \in 1..n-1
        BY <1>1, <3>2
      <4>2. q[s] = a[s] /\ q[s + 1] = a[s + 1] /\ o[s] = st.out[s]
        BY <1>8, <2>3, <2>6, <4>1
      <4> QED BY <1>8, <2>8, <4>1, <4>2 DEF Closed
    <3> QED BY <3>1, <3>2
  <2>10. \E c : Divided(c, q, pts, i + 1)
    <3>1. n = Len(a) /\ Len(q[n + 1]) = 1 /\ q[n + 1][1] = pts[i + 1]
      BY <2>1, <2>3 DEF n, p
    <3> HIDE DEF a
    <3> QED BY ONLY i \in Nat, <1>1, <1>2, <2>3, <3>1, DividedOnceMore
  <2>11. (n + 1) - 1 = n /\ n + 1 >= 1
    BY <1>1
  <2> QED BY <2>2, <2>3, <2>6, <2>7, <2>8, <2>9, <2>10, <2>11 DEF Segmented, k, p
<1> QED BY <1>9, <1>10

(* The segmentation of points that ascend ends in such a state.            *)
LEMMA SegmentedAll ==
  ASSUME NEW eps \in Nat \ {0}, NEW pts, Ascends(pts), RanksRise(pts)
  PROVE  Segmented(FoldLeft(LAMBDA st, p : Fed(st, p, eps), Unfed, pts), eps, pts, Len(pts))
<1> DEFINE n == Len(pts)
<1>1. pts \in Seq(Samples) /\ n \in Nat /\ n >= 1
  BY SeenInterval
<1>2. PICK f : /\ FoldLeft(LAMBDA st, p : Fed(st, p, eps), Unfed, pts) = f[n]
               /\ f[0] = Unfed
               /\ \A i \in 1..n : f[i] = Fed(f[i-1], pts[i], eps)
  BY <1>1, Feeding
<1> DEFINE T == {i \in 1..n : Segmented(f[i], eps, pts, i)}
<1>3. 1 \in T
  <2>1. 1 \in 1..n /\ 1 - 1 = 0
    BY <1>1
  <2>2. f[1] = Fed(Unfed, pts[1], eps)
    BY <1>2, <2>1
  <2>3. Segmented(f[1], eps, pts, 1)
    BY <2>2, FedFirst
  <2> QED BY <2>1, <2>3
<1>4. ASSUME NEW i \in 1+1..n, i - 1 \in T PROVE i \in T
  <2> DEFINE j == i - 1
             st == f[j]
  <2>1. i \in 1..n /\ j \in Nat /\ j < Len(pts) /\ j + 1 = i
    BY <1>1
  <2>2. Segmented(st, eps, pts, j)
    BY <1>4
  <2>3. f[i] = Fed(st, pts[j + 1], eps)
    BY <1>2, <2>1
  <2> HIDE DEF j, st
  <2>4. Segmented(Fed(st, pts[j + 1], eps), eps, pts, j + 1)
    BY <2>1, <2>2, FedNext
  <2> QED BY <2>1, <2>3, <2>4
<1>5. n \in T
  <2>1. 1 \in Int /\ n \in Int /\ n \in 1..n
    BY <1>1
  <2> HIDE DEF T, n
  <2>2. 1..n \subseteq T
    BY ONLY <1>3, <1>4, <2>1, IntervalInduction
  <2> QED BY <2>1, <2>2
<1> QED BY <1>2, <1>5

-----------------------------------------------------------------------------
(* One key's turn in Points().                                             *)
Repeat(in, i) == i > 1 /\ in[i] = in[i - 1]

Added(in, ps, i) ==
  IF i = Len(in) \/ (Repeat(in, i) /\ in[i] + 1 >= in[i + 1]) THEN ps
  ELSE IF Repeat(in, i) THEN Append(ps, Point(in[i] + 1, i - 1))
  ELSE Append(ps, Point(in[i], i - 1))

LEMMA Adding ==
  ASSUME NEW in, in \in Seq(Nat)
  PROVE  \E f : /\ Points(in) = (f[Len(in)]
                               \o (IF Len(in) = 1 \/ ~Repeat(in, Len(in))
                                     THEN <<Point(in[Len(in)], Len(in) - 1)>> ELSE <<>>))
                               \o <<Point(in[Len(in)] + 1, Len(in))>>
                /\ f[0] = <<>>
                /\ \A i \in 1..Len(in) : f[i] = Added(in, f[i-1], i)
<1> DEFINE n == Len(in)
           seq == [i \in DOMAIN in |-> i]
           Then(g, s) == IF s = {} THEN <<>>
                         ELSE Added(in, g[s \ {Max(s)}], seq[Max(s)])
           Equation(g, m) == g = [s \in SUBSET (1..m) |-> Then(g, s)]
           T == {m \in Nat : \E g : Equation(g, m)}
           iter == CHOOSE g : Equation(g, n)
           last == IF n = 1 \/ ~Repeat(in, n) THEN <<Point(in[n], n - 1)>> ELSE <<>>
<1>1. n \in Nat /\ DOMAIN seq = 1..n /\ \A i \in 1..n : seq[i] = i
  OBVIOUS
<1>2. Points(in) = (iter[1..n] \o last) \o <<Point(in[n] + 1, n)>>
  <2>1. Points(in) = ((CHOOSE g : g = [s \in SUBSET (1..n) |-> Then(g, s)])[1..n] \o last)
                       \o <<Point(in[n] + 1, n)>>
    BY <1>1 DEF Points, FoldLeftDomain, FoldLeft, MapThenFoldSet, Added, Repeat
  <2> QED BY <2>1
<1> HIDE DEF n, seq, last
<1>3. \A m \in Nat : \A s \in SUBSET (1..m) : s # {} => Max(s) \in s /\ \A y \in s : y <= Max(s)
  <2> TAKE m \in Nat
  <2> TAKE s \in SUBSET (1..m)
  <2> HAVE s # {}
  <2>1. 1 \in Int /\ m \in Int /\ s \subseteq 1..m
    OBVIOUS
  <2> QED BY ONLY <2>1, s # {}, MaxOfInterval
<1>4. 0 \in T
  <2> DEFINE g == [s \in SUBSET (1..0) |-> <<>>]
  <2>1. \A s \in SUBSET (1..0) : s = {}
    OBVIOUS
  <2>2. \A s \in SUBSET (1..0) : Then(g, s) = <<>>
    BY <2>1
  <2>3. Equation(g, 0)
    <3> HIDE DEF Then
    <3> QED BY <2>2
  <2> HIDE DEF Equation
  <2> QED BY <2>3
<1>5. ASSUME NEW m \in Nat, m \in T PROVE m + 1 \in T
  <2>1. PICK g : Equation(g, m)
    BY <1>5
  <2> DEFINE k == [s \in SUBSET (1..m+1) |->
                     IF m + 1 \in s THEN Added(in, g[s \ {m+1}], seq[m+1]) ELSE g[s]]
  <2>2. \A s \in SUBSET (1..m) : g[s] = Then(g, s)
    <3> HIDE DEF Then
    <3> QED BY <2>1
  <2>3. \A s \in SUBSET (1..m+1) :
          /\ m + 1 \in s => k[s] = Added(in, g[s \ {m+1}], seq[m+1])
          /\ m + 1 \notin s => k[s] = g[s] /\ s \in SUBSET (1..m)
    <3>1. \A s \in SUBSET (1..m+1) : m + 1 \notin s => s \in SUBSET (1..m)
      OBVIOUS
    <3> QED BY <3>1
  <2>4. DOMAIN k = SUBSET (1..m+1) /\ k = [s \in SUBSET (1..m+1) |-> k[s]]
    OBVIOUS
  <2> HIDE DEF k
  <2>5. ASSUME NEW s \in SUBSET (1..m+1) PROVE k[s] = Then(k, s)
    <3>1. CASE s = {}
      <4>1. m + 1 \notin s /\ s \in SUBSET (1..m)
        BY <3>1
      <4>2. k[s] = <<>>
        BY <2>2, <2>3, <3>1, <4>1
      <4> QED BY <3>1, <4>2
    <3>2. CASE s # {} /\ m + 1 \in s
      <4>1. Max(s) = m + 1
        <5>1. m + 1 \in Nat /\ \A x \in s : x \in 1..m+1
          OBVIOUS
        <5>2. Max(s) \in s /\ m + 1 <= Max(s)
          BY <1>3, <3>2, <5>1
        <5>3. Max(s) \in 1..m+1
          BY <5>1, <5>2
        <5> QED BY <5>2, <5>3
      <4>2. s \ {m+1} \in SUBSET (1..m+1) /\ m + 1 \notin s \ {m+1}
        OBVIOUS
      <4>3. k[s] = Added(in, g[s \ {m+1}], seq[m+1]) /\ k[s \ {m+1}] = g[s \ {m+1}]
        BY <2>3, <3>2, <4>2
      <4> QED BY <3>2, <4>1, <4>3
    <3>3. CASE s # {} /\ m + 1 \notin s
      <4>1. s \in SUBSET (1..m) /\ k[s] = g[s]
        BY <2>3, <3>3
      <4>2. g[s] = Added(in, g[s \ {Max(s)}], seq[Max(s)])
        BY <2>2, <3>3, <4>1
      <4>3. s \ {Max(s)} \in SUBSET (1..m+1) /\ m + 1 \notin s \ {Max(s)}
        BY <3>3
      <4>4. k[s \ {Max(s)}] = g[s \ {Max(s)}]
        BY <2>3, <4>3
      <4> QED BY <3>3, <4>1, <4>2, <4>4
    <3> QED BY <3>1, <3>2, <3>3
  <2>6. Equation(k, m+1)
    <3> HIDE DEF Then
    <3> QED BY <2>4, <2>5
  <2> HIDE DEF Equation
  <2> QED BY <2>6
<1>6. n \in T
  <2> HIDE DEF T
  <2> QED BY <1>1, <1>4, <1>5, Induction
<1>7. Equation(iter, n)
  <2>1. \E g : Equation(g, n)
    BY <1>6
  <2> HIDE DEF Equation
  <2> QED BY <2>1
<1> HIDE DEF iter
<1>8. \A s \in SUBSET (1..n) : iter[s] = Then(iter, s)
  <2> HIDE DEF Then
  <2> QED BY <1>7
<1> DEFINE f == [i \in 0..n |-> iter[1..i]]
<1>9. f[n] = iter[1..n] /\ f[0] = <<>>
  <2>1. 1..0 = {} /\ 1..0 \in SUBSET (1..n) /\ 0 \in 0..n /\ n \in 0..n
    BY <1>1
  <2> QED BY <1>8, <2>1
<1>10. ASSUME NEW i \in 1..n PROVE f[i] = Added(in, f[i-1], i)
  <2>1. 1..i \in SUBSET (1..n) /\ 1..i # {} /\ i \in 1..i /\ i \in 0..n /\ i - 1 \in 0..n
    <3>1. n \in Nat
      BY <1>1
    <3> QED BY ONLY <3>1, i \in 1..n
  <2>2. Max(1..i) = i
    <3>1. Max(1..i) \in 1..i /\ i <= Max(1..i)
      BY <1>1, <1>3, <2>1
    <3> QED BY <3>1
  <2>3. (1..i) \ {i} = 1..i-1
    BY <1>1
  <2>4. iter[1..i] = Added(in, iter[1..i-1], i)
    BY <1>1, <1>8, <2>1, <2>2, <2>3
  <2> QED BY <2>1, <2>4
<1> HIDE DEF f
<1> QED BY <1>2, <1>9, <1>10 DEF n, last

(* Sorted keys, and what a point of theirs has to do with the next one.    *)
SortedKeys(in) ==
  /\ in \in Seq(Nat) /\ Len(in) >= 1
  /\ \A i, j \in 1..Len(in) : i <= j => in[i] <= in[j]

Neighbours(in, p, q) ==
  /\ p.x < q.x /\ p.y < q.y /\ q.y <= Len(in)
  /\ in[q.y] <= p.x
  /\ p.x = in[p.y + 1] \/ Repeat(in, p.y + 1)
  /\ p.y + 2 <= Len(in) => q.x <= in[p.y + 2] + 1

Linked(in, ps) ==
  /\ Ascends(ps) /\ ps[1] = Point(in[1], 0)
  /\ \A j \in 1..Len(ps)-1 : Neighbours(in, ps[j], ps[j + 1])

LEMMA LinkedOn ==
  ASSUME NEW in, NEW ps, Linked(in, ps), NEW q \in Samples, Neighbours(in, ps[Len(ps)], q)
  PROVE  /\ Linked(in, Append(ps, q)) /\ Append(ps, q)[Len(Append(ps, q))] = q
         /\ Len(Append(ps, q)) = Len(ps) + 1
<1> DEFINE n == Len(ps)
           t == Append(ps, q)
<1>1. /\ ps \in Seq(Samples) /\ n \in Nat /\ n >= 1 /\ q.x \in Nat
      /\ \A i \in 1..n : ps[i] \in Samples /\ ps[i].x \in Nat
  <2>1. q.x \in Nat
    BY DEF Samples
  <2>2. ps \in Seq(Samples) /\ n \in Nat /\ n >= 1
    BY DEF Linked, Ascends
  <2> QED BY <2>1, <2>2, SampleAt
<1>2. /\ t \in Seq(Samples) /\ Len(t) = n + 1 /\ t[n+1] = q
      /\ \A i \in 1..n : t[i] = ps[i]
  BY ONLY <1>1, q \in Samples, AppendProperties
<1>3. /\ \A i, j \in 1..n : i < j => ps[i].x < ps[j].x
      /\ ps[1] = Point(in[1], 0)
      /\ \A j \in 1..n-1 : Neighbours(in, ps[j], ps[j + 1])
      /\ ps[n].x < q.x /\ Neighbours(in, ps[n], q)
  BY DEF Linked, Ascends, Neighbours
<1> HIDE DEF t, n
<1>4. ASSUME NEW i \in 1..n PROVE ps[i].x < q.x
  <2>1. n \in 1..n /\ (i = n \/ i < n)
    BY <1>1
  <2>2. i = n \/ ps[i].x < ps[n].x
    BY <1>3, <2>1
  <2> QED BY <1>1, <1>3, <2>1, <2>2
<1>5. \A i, j \in 1..n+1 : i < j => t[i].x < t[j].x
  <2> TAKE i, j \in 1..n+1
  <2> HAVE i < j
  <2>1. i \in 1..n /\ (j \in 1..n \/ j = n + 1)
    BY <1>1
  <2> QED BY <1>2, <1>3, <1>4, <2>1
<1>6. ASSUME NEW j \in 1..(n+1)-1 PROVE Neighbours(in, t[j], t[j + 1])
  <2>1. j = n \/ (j \in 1..n-1 /\ j + 1 \in 1..n)
    BY <1>1
  <2>2. j \in 1..n
    BY <1>1
  <2> QED BY <1>2, <1>3, <2>1, <2>2
<1>7. t[1] = Point(in[1], 0) /\ n + 1 >= 1
  <2>1. 1 \in 1..n
    BY <1>1
  <2> QED BY <1>1, <1>2, <1>3, <2>1
<1> QED BY <1>2, <1>5, <1>6, <1>7 DEF Linked, Ascends, t, n

(* The points after the keys up to i, before those that follow the last.   *)
LastPoint(in, p, i) ==
  /\ in[i] <= p.x /\ p.y + 1 <= i
  /\ p.x = in[p.y + 1] \/ Repeat(in, p.y + 1)
  /\ p.y + 2 <= Len(in) => in[i] <= in[p.y + 2]
  /\ i = Len(in) => p.x = in[i]
  /\ i < Len(in) => IF Repeat(in, i + 1) THEN p.x <= in[i + 1]
                                         ELSE p.x < in[i + 1] /\ in[i + 1] <= in[p.y + 2] + 1

Sampled(in, ps, i) == Linked(in, ps) /\ LastPoint(in, ps[Len(ps)], i)

Sampling(in, ps, i) ==
  IF ~Repeat(in, i) THEN Append(ps, Point(in[i], i - 1))
  ELSE IF i < Len(in) /\ in[i] + 1 < in[i + 1] THEN Append(ps, Point(in[i] + 1, i - 1))
  ELSE ps

LEMMA SampledFirst ==
  ASSUME NEW in, SortedKeys(in)
  PROVE  Sampled(in, <<Point(in[1], 0)>>, 1)
<1> DEFINE p == Point(in[1], 0)
           ps == <<p>>
           n == Len(in)
<1>1. n \in Nat /\ n >= 1 /\ \A i \in 1..n : in[i] \in Nat
  BY DEF SortedKeys
<1>2. p \in Samples /\ p.x = in[1] /\ p.y = 0
  BY <1>1 DEF Point, Samples
<1> HIDE DEF p
<1>3. ps \in Seq(Samples) /\ Len(ps) = 1 /\ ps[1] = p
  BY <1>2
<1> HIDE DEF ps
<1>4. Linked(in, ps)
  <2>1. 1..1-1 = {} /\ \A i, j \in 1..1 : ~(i < j)
    OBVIOUS
  <2> QED BY <1>3, <2>1 DEF Linked, Ascends, p
<1>5. LastPoint(in, p, 1)
  <2>1. in[1] \in Nat /\ 0 + 1 = 1 /\ 0 + 2 = 2 /\ 1 + 1 = 2 /\ 2 - 1 = 1
    BY <1>1
  <2>2. ASSUME 2 <= n PROVE in[2] \in Nat /\ in[1] <= in[2]
    <3>1. 1 \in 1..n /\ 2 \in 1..n /\ 1 <= 2
      BY <1>1, <2>2
    <3> QED BY <1>1, <3>1 DEF SortedKeys
  <2>3. ASSUME 1 < n
        PROVE  IF Repeat(in, 1 + 1) THEN p.x <= in[1 + 1]
                                    ELSE p.x < in[1 + 1] /\ in[1 + 1] <= in[p.y + 2] + 1
    <3>1. 2 <= n
      BY <1>1, <2>3
    <3>2. in[2] \in Nat /\ in[1] <= in[2]
      BY <2>2, <3>1
    <3>3. Repeat(in, 2) <=> in[2] = in[1]
      BY <2>1 DEF Repeat
    <3> QED BY <1>2, <2>1, <3>2, <3>3
  <2> QED BY <1>2, <2>1, <2>2, <2>3 DEF LastPoint, n
<1> QED BY <1>3, <1>4, <1>5 DEF Sampled, ps, p

LEMMA SampledNext ==
  ASSUME NEW in, SortedKeys(in), NEW ps, NEW i \in Nat \ {0}, i < Len(in), Sampled(in, ps, i)
  PROVE  Sampled(in, Sampling(in, ps, i + 1), i + 1)
<1> DEFINE n == Len(in)
           p == ps[Len(ps)]
           k == in[i]
           m == in[i + 1]
<1>1. /\ n \in Nat /\ i \in 1..n /\ i + 1 \in 1..n /\ (i + 1) - 1 = i
      /\ \A j \in 1..n : in[j] \in Nat
      /\ \A a, b \in 1..n : a <= b => in[a] <= in[b]
  BY DEF SortedKeys
<1>2. k \in Nat /\ m \in Nat /\ k <= m
  BY <1>1
<1>3. Repeat(in, i + 1) <=> m = k
  BY <1>1 DEF Repeat
<1>4. /\ Linked(in, ps) /\ LastPoint(in, p, i)
      /\ p \in Samples /\ p.x \in Nat /\ p.y \in Nat
  <2>1. Linked(in, ps) /\ LastPoint(in, p, i)
    BY DEF Sampled
  <2>2. ps \in Seq(Samples) /\ Len(ps) \in 1..Len(ps)
    BY <2>1 DEF Linked, Ascends
  <2> QED BY <2>1, <2>2, SampleAt
<1>5. /\ k <= p.x /\ p.y + 1 <= i /\ (p.x = in[p.y + 1] \/ Repeat(in, p.y + 1))
      /\ p.y + 2 \in 1..n /\ k <= in[p.y + 2] /\ in[p.y + 2] \in Nat
      /\ IF m = k THEN p.x <= m ELSE p.x < m /\ m <= in[p.y + 2] + 1
  <2>1. p.y + 2 \in 1..n /\ p.y + 2 <= n
    BY <1>1, <1>4 DEF LastPoint
  <2> QED BY <1>1, <1>3, <1>4, <2>1 DEF LastPoint
<1> DEFINE After(j) == /\ i + 2 \in 1..n /\ in[i + 2] \in Nat /\ m <= in[i + 2]
                       /\ (Repeat(in, i + 2) <=> in[i + 2] = m)
<1>6. ASSUME i + 1 < n
      PROVE  /\ i + 2 \in 1..n /\ in[i + 2] \in Nat /\ m <= in[i + 2]
             /\ (Repeat(in, i + 2) <=> in[i + 2] = m)
             /\ (i + 1) + 1 = i + 2
  <2>1. i + 2 \in 1..n /\ i + 1 <= i + 2 /\ (i + 2) - 1 = i + 1 /\ i + 2 > 1
    BY <1>1, <1>6
  <2> QED BY <1>1, <2>1 DEF Repeat
<1> DEFINE a == Point(m, i)
           b == Point(m + 1, i)
<1>7. a \in Samples /\ a.x = m /\ a.y = i /\ b \in Samples /\ b.x = m + 1 /\ b.y = i
  BY <1>1, <1>2 DEF Point, Samples
<1> HIDE DEF a, b, p, k, m
<1>8. CASE m # k
  <2>1. Sampling(in, ps, i + 1) = Append(ps, a)
    BY <1>1, <1>3, <1>8 DEF Sampling, a, m
  <2>2. Neighbours(in, p, a)
    BY <1>1, <1>2, <1>4, <1>5, <1>7, <1>8 DEF Neighbours, k
  <2>3. /\ Linked(in, Append(ps, a)) /\ Append(ps, a)[Len(Append(ps, a))] = a
    <3>1. Neighbours(in, ps[Len(ps)], a)
      BY <2>2 DEF p
    <3> QED BY <1>4, <1>7, <3>1, LinkedOn
  <2>4. LastPoint(in, a, i + 1)
    <3>1. ASSUME i + 1 < n
          PROVE  IF Repeat(in, (i + 1) + 1) THEN a.x <= in[(i + 1) + 1]
                 ELSE a.x < in[(i + 1) + 1] /\ in[(i + 1) + 1] <= in[a.y + 2] + 1
      BY <1>2, <1>6, <1>7, <3>1
    <3>2. ASSUME i + 2 <= n PROVE m <= in[i + 2]
      BY <1>1, <1>6, <3>2
    <3> QED BY <1>1, <1>2, <1>7, <3>1, <3>2 DEF LastPoint, m
  <2> QED BY <2>1, <2>3, <2>4 DEF Sampled
<1>9. CASE m = k /\ i + 1 < n /\ m + 1 < in[i + 2]
  <2>1. Sampling(in, ps, i + 1) = Append(ps, b)
    BY <1>1, <1>3, <1>6, <1>9 DEF Sampling, b, m
  <2>2. Neighbours(in, p, b)
    BY SMTT(30), <1>1, <1>2, <1>4, <1>5, <1>7, <1>9 DEF Neighbours, k
  <2>3. /\ Linked(in, Append(ps, b)) /\ Append(ps, b)[Len(Append(ps, b))] = b
    <3>1. Neighbours(in, ps[Len(ps)], b)
      BY <2>2 DEF p
    <3> QED BY <1>4, <1>7, <3>1, LinkedOn
  <2>4. LastPoint(in, b, i + 1)
    <3>1. ~Repeat(in, i + 2) /\ b.x < in[i + 2] /\ in[i + 2] <= in[i + 2] + 1 /\ Repeat(in, i + 1)
      BY <1>2, <1>3, <1>6, <1>7, <1>9
    <3>2. m <= b.x /\ m <= in[i + 2]
      BY <1>2, <1>6, <1>7, <1>9
    <3> QED BY <1>1, <1>2, <1>6, <1>7, <1>9, <3>1, <3>2 DEF LastPoint, m
  <2> QED BY <2>1, <2>3, <2>4 DEF Sampled
<1>10. CASE m = k /\ ~(i + 1 < n /\ m + 1 < in[i + 2])
  <2>1. Sampling(in, ps, i + 1) = ps
    BY <1>1, <1>3, <1>6, <1>10 DEF Sampling, m
  <2>2. LastPoint(in, p, i + 1)
    <3>1. ASSUME i + 1 < n
          PROVE  IF Repeat(in, (i + 1) + 1) THEN p.x <= in[(i + 1) + 1]
                 ELSE p.x < in[(i + 1) + 1] /\ in[(i + 1) + 1] <= in[p.y + 2] + 1
      <4>1. in[i + 2] <= m + 1 /\ p.x <= m /\ m <= in[p.y + 2]
        BY <1>2, <1>5, <1>6, <1>10, <3>1
      <4> QED BY SMTT(30), <1>2, <1>4, <1>5, <1>6, <3>1, <4>1
    <3>2. m <= p.x /\ p.y + 1 <= i + 1 /\ m <= in[p.y + 2] /\ p.x = m
      BY <1>1, <1>2, <1>4, <1>5, <1>10
    <3> QED BY <1>5, <3>1, <3>2 DEF LastPoint, m
  <2> QED BY <1>4, <2>1, <2>2 DEF Sampled, p
<1> QED BY <1>8, <1>9, <1>10

Charted(in, pts) ==
  /\ Linked(in, pts) /\ Len(pts) >= 2
  /\ pts[Len(pts)] = Point(in[Len(in)] + 1, Len(in))

LEMMA PointsCharted ==
  ASSUME NEW in, SortedKeys(in)
  PROVE  Charted(in, Points(in))
<1> DEFINE n == Len(in)
           p1 == Point(in[1], 0)
           last == IF n = 1 \/ ~Repeat(in, n) THEN <<Point(in[n], n - 1)>> ELSE <<>>
           end == Point(in[n] + 1, n)
<1>1. /\ n \in Nat /\ n >= 1 /\ 1 \in 1..n /\ n \in 1..n /\ in \in Seq(Nat)
      /\ \A i \in 1..n : in[i] \in Nat
  BY DEF SortedKeys
<1>2. PICK f : /\ Points(in) = (f[n] \o last) \o <<end>>
               /\ f[0] = <<>>
               /\ \A i \in 1..n : f[i] = Added(in, f[i-1], i)
  BY <1>1, Adding
<1>3. ~Repeat(in, 1)
  BY DEF Repeat
<1> DEFINE g == f[n] \o last
           T == {i \in 1..n-1 : Sampled(in, f[i], i)}
<1> HIDE DEF n
<1>4. ASSUME n > 1 PROVE 1 \in T
  <2>1. 1 \in 1..n /\ 1 # n /\ 1 - 1 = 0 /\ 1 \in 1..n-1
    BY <1>1, <1>4
  <2>2. f[1] = Append(<<>>, p1)
    <3>1. f[1] = Added(in, f[0], 1)
      BY <1>2, <2>1
    <3> QED BY <1>2, <1>3, <2>1, <3>1 DEF Added, n
  <2>3. f[1] = <<p1>>
    BY <2>2
  <2> QED BY <2>1, <2>3, SampledFirst
<1>5. ASSUME NEW i \in 1+1..n-1, i - 1 \in T PROVE i \in T
  <2> DEFINE j == i - 1
             ps == f[j]
  <2>1. j \in Nat \ {0} /\ j < Len(in) /\ j + 1 = i /\ i \in 1..n /\ i \in 1..n-1 /\ i # n /\ i < n
    BY <1>1 DEF n
  <2>2. Sampled(in, ps, j)
    BY <1>5
  <2>3. f[i] = Sampling(in, ps, i)
    <3>1. f[i] = Added(in, ps, i) /\ in[i] \in Nat /\ in[i + 1] \in Nat
      <4>1. i + 1 \in 1..n
        BY <1>1, <2>1
      <4> QED BY <1>1, <1>2, <2>1, <4>1
    <3> QED BY <2>1, <3>1 DEF Added, Sampling, n
  <2> HIDE DEF j, ps
  <2>4. Sampled(in, Sampling(in, ps, j + 1), j + 1)
    BY <2>1, <2>2, SampledNext
  <2> QED BY <2>1, <2>3, <2>4
<1>6. Sampled(in, g, n)
  <2>1. CASE n = 1
    <3>1. f[1] = <<>>
      BY <1>1, <1>2, <2>1 DEF Added, n
    <3>2. g = <<p1>>
      BY <2>1, <3>1
    <3> QED BY <2>1, <3>2, SampledFirst
  <2>2. CASE n # 1
    <3> DEFINE j == n - 1
               ps == f[j]
    <3>1. j \in Nat \ {0} /\ j < n /\ n = Len(in) /\ j + 1 = n /\ n > 1 /\ j \in 1..j /\ j \in Int
      <4>1. n = Len(in)
        BY DEF n
      <4> QED BY <1>1, <2>2, <4>1
    <3>2. j \in T
      <4>1. 1 \in T /\ \A i \in 1+1..j : i - 1 \in T => i \in T
        BY <1>4, <1>5, <3>1
      <4> HIDE DEF T, j
      <4>2. 1..j \subseteq T
        BY ONLY SMTT(30), <3>1, <4>1, IntervalInduction
      <4> QED BY <3>1, <4>2
    <3>3. Sampled(in, ps, j)
      BY <3>2
    <3>4. g = Sampling(in, ps, n)
      <4>1. f[n] = ps
        BY <1>1, <1>2 DEF Added, n
      <4>2. ps \in Seq(Samples)
        BY <3>3 DEF Sampled, Linked, Ascends
      <4> HIDE DEF ps, j
      <4>3. ~Repeat(in, n) => ps \o <<Point(in[n], n - 1)>> = Append(ps, Point(in[n], n - 1))
        BY <4>2
      <4>4. ps \o <<>> = ps
        BY <4>2
      <4>5. ~(n < Len(in))
        BY <1>1 DEF n
      <4> QED BY <2>2, <4>1, <4>3, <4>4, <4>5 DEF Sampling
    <3> HIDE DEF j, ps
    <3>5. Sampled(in, Sampling(in, ps, j + 1), j + 1)
      BY <3>1, <3>3, SampledNext
    <3> QED BY <3>1, <3>4, <3>5
  <2> QED BY <2>1, <2>2
<1>7. Points(in) = g \o <<end>>
  BY <1>2
<1> HIDE DEF g
<1> DEFINE p == g[Len(g)]
<1>8. /\ g \in Seq(Samples) /\ Len(g) \in Nat /\ Len(g) >= 1
      /\ p.x \in Nat /\ p.y \in Nat
      /\ Linked(in, g) /\ LastPoint(in, p, n)
  <2>1. g \in Seq(Samples) /\ Len(g) \in Nat /\ Len(g) >= 1 /\ Linked(in, g) /\ LastPoint(in, p, n)
    BY <1>6 DEF Sampled, Linked, Ascends
  <2> QED BY <2>1, SampleAt
<1>9. end \in Samples /\ end.x = in[n] + 1 /\ end.y = n
  BY <1>1 DEF Point, Samples
<1>10. Neighbours(in, p, end)
  <2> HIDE DEF p, end
  <2>1. /\ in[n] <= p.x /\ p.y + 1 <= n
        /\ p.x = in[p.y + 1] \/ Repeat(in, p.y + 1)
        /\ p.y + 2 <= n => in[n] <= in[p.y + 2]
        /\ p.x = in[n]
    BY <1>8 DEF LastPoint, n
  <2>2. p.y + 2 <= n => in[p.y + 2] \in Nat
    <3>1. p.y + 2 <= n => p.y + 2 \in 1..n
      BY <1>1, <1>8
    <3> QED BY <1>1, <3>1
  <2> QED BY SMTT(30), <1>1, <1>8, <1>9, <2>1, <2>2 DEF Neighbours, n
<1> HIDE DEF end
<1>11. g \o <<end>> = Append(g, end)
  BY <1>8, <1>9
<1>12. /\ Linked(in, Append(g, end)) /\ Append(g, end)[Len(Append(g, end))] = end
       /\ Len(Append(g, end)) = Len(g) + 1
  BY <1>8, <1>9, <1>10, LinkedOn
<1>13. Len(g) + 1 >= 2
  BY <1>8
<1> QED BY <1>7, <1>11, <1>12, <1>13 DEF Charted, end, n

-----------------------------------------------------------------------------
(* The place of a key, and the points on both sides of it.                 *)
IsPlace(in, k, r) ==
  r \in 0..Len(in) /\ \A i \in 1..Len(in) : in[i] < k <=> i <= r

LEMMA ChartedTypes ==
  ASSUME NEW in, SortedKeys(in), NEW pts, Charted(in, pts)
  PROVE  /\ Len(in) \in Nat /\ Len(in) >= 1 /\ \A i \in 1..Len(in) : in[i] \in Nat
         /\ pts \in Seq(Samples) /\ Len(pts) \in Nat /\ Len(pts) >= 2 /\ Ascends(pts)
         /\ \A j \in 1..Len(pts) : pts[j].x \in Nat /\ pts[j].y \in Nat
         /\ pts[1].x = in[1] /\ pts[1].y = 0
         /\ pts[Len(pts)].x = in[Len(in)] + 1 /\ pts[Len(pts)].y = Len(in)
         /\ \A j \in 1..Len(pts)-1 : Neighbours(in, pts[j], pts[j + 1])
<1>1. pts \in Seq(Samples) /\ Len(pts) \in Nat /\ Len(pts) >= 2 /\ Ascends(pts)
  BY DEF Charted, Linked, Ascends
<1>2. \A j \in 1..Len(pts) : pts[j].x \in Nat /\ pts[j].y \in Nat
  BY <1>1, SampleAt
<1>3. pts[1] = Point(in[1], 0) /\ pts[Len(pts)] = Point(in[Len(in)] + 1, Len(in))
  BY DEF Charted, Linked
<1>4. /\ pts[1].x = in[1] /\ pts[1].y = 0
      /\ pts[Len(pts)].x = in[Len(in)] + 1 /\ pts[Len(pts)].y = Len(in)
  BY <1>3 DEF Point
<1>5. Len(in) \in Nat /\ Len(in) >= 1 /\ \A i \in 1..Len(in) : in[i] \in Nat
  BY DEF SortedKeys
<1> QED BY <1>1, <1>2, <1>4, <1>5 DEF Charted, Linked

LEMMA ChartedRanks ==
  ASSUME NEW in, SortedKeys(in), NEW pts, Charted(in, pts)
  PROVE  RanksRise(pts) /\ Len(pts) <= Len(in) + 1
<1> DEFINE n == Len(in)
           m == Len(pts)
<1>1. /\ n \in Nat /\ m \in Nat /\ m >= 2
      /\ \A j \in 1..m : pts[j].y \in Nat
      /\ pts[1].y = 0 /\ pts[m].y = n
  BY ChartedTypes
<1>2. \A j \in 1..m-1 : pts[j].y < pts[j + 1].y
  BY ChartedTypes DEF Neighbours
<1> HIDE DEF n, m
<1>3. ASSUME NEW i \in 1..m PROVE \A j \in i..m : pts[i].y <= pts[j].y
  <2> DEFINE T == {j \in 1..m : pts[i].y <= pts[j].y}
  <2>1. i \in T
    BY <1>1
  <2>2. ASSUME NEW j \in i+1..m, j - 1 \in T PROVE j \in T
    <3>1. j \in 1..m /\ j - 1 \in 1..m-1 /\ j - 1 \in 1..m /\ (j - 1) + 1 = j
      BY <1>1
    <3>2. pts[j - 1].y < pts[j].y
      BY <1>2, <3>1
    <3> QED BY <1>1, <2>2, <3>1, <3>2
  <2>3. i \in Int /\ m \in Int
    BY <1>1
  <2> HIDE DEF T
  <2>4. i..m \subseteq T
    BY ONLY <2>1, <2>2, <2>3, IntervalInduction
  <2> QED BY <2>4 DEF T
<1>4. m <= n + 1
  <2> DEFINE T == {j \in 1..m : j - 1 <= pts[j].y}
  <2>1. 1 \in T
    BY <1>1
  <2>2. ASSUME NEW j \in 1+1..m, j - 1 \in T PROVE j \in T
    <3>1. j \in 1..m /\ j - 1 \in 1..m-1 /\ j - 1 \in 1..m /\ (j - 1) + 1 = j
      BY <1>1
    <3>2. pts[j - 1].y < pts[j].y
      BY <1>2, <3>1
    <3> QED BY <1>1, <2>2, <3>1, <3>2
  <2>3. 1 \in Int /\ m \in Int /\ m \in 1..m
    BY <1>1
  <2> HIDE DEF T
  <2>4. 1..m \subseteq T
    BY ONLY <2>1, <2>2, <2>3, IntervalInduction
  <2>5. m - 1 <= n
    BY <1>1, <2>3, <2>4 DEF T
  <2> QED BY <1>1, <2>5
<1>5. \A i, j \in 1..m : i <= j => pts[i].y <= pts[j].y
  <2> TAKE i, j \in 1..m
  <2> HAVE i <= j
  <2>1. j \in i..m
    OBVIOUS
  <2> QED BY <1>3, <2>1
<1> QED BY <1>4, <1>5 DEF RanksRise, n, m

LEMMA PlaceBetween ==
  ASSUME NEW in, SortedKeys(in), NEW pts, Charted(in, pts),
         NEW k \in Nat, NEW r, IsPlace(in, k, r), NEW j \in 1..Len(pts)
  PROVE  /\ j = 1 \/ pts[j - 1].x < k => pts[j].y <= r
         /\ j = Len(pts) \/ k < pts[j + 1].x => r <= pts[j].y + 1
<1> DEFINE n == Len(in)
           m == Len(pts)
<1>1. /\ n \in Nat /\ m \in Nat
      /\ \A i \in 1..n : in[i] \in Nat
      /\ \A i \in 1..m : pts[i].x \in Nat /\ pts[i].y \in Nat
      /\ pts[1].y = 0 /\ pts[m].y = n
      /\ \A i \in 1..m-1 : Neighbours(in, pts[i], pts[i + 1])
  BY ChartedTypes
<1>2. r \in 0..n /\ \A i \in 1..n : in[i] < k <=> i <= r
  BY DEF IsPlace
<1>3. n = Len(in) /\ j \in 1..m
  OBVIOUS
<1> HIDE DEF n, m
<1>4. ASSUME j # 1, pts[j - 1].x < k PROVE pts[j].y <= r
  <2>1. j - 1 \in 1..m-1 /\ j - 1 \in 1..m /\ (j - 1) + 1 = j
    BY <1>1, <1>3, <1>4
  <2>2. pts[j - 1].y < pts[j].y /\ pts[j].y <= n /\ in[pts[j].y] <= pts[j - 1].x
    BY <1>1, <1>3, <2>1 DEF Neighbours
  <2>3. pts[j].y \in 1..n
    BY <1>1, <1>3, <2>1, <2>2
  <2>4. in[pts[j].y] < k
    BY <1>1, <1>4, <2>1, <2>2, <2>3
  <2> QED BY <1>2, <2>3, <2>4
<1>5. ASSUME j # m, k < pts[j + 1].x PROVE r <= pts[j].y + 1
  <2>1. j \in 1..m-1 /\ j + 1 \in 1..m
    BY <1>1, <1>3, <1>5
  <2>2. pts[j].y + 2 <= n => pts[j + 1].x <= in[pts[j].y + 2] + 1
    BY <1>1, <1>3, <2>1 DEF Neighbours
  <2> SUFFICES ASSUME ~(r <= pts[j].y + 1) PROVE FALSE
    OBVIOUS
  <2>3. pts[j].y + 2 \in 1..n /\ pts[j].y + 2 <= r
    BY SMTT(30), <1>1, <1>2, <2>1
  <2>4. in[pts[j].y + 2] < k
    BY <1>2, <2>3
  <2> QED BY SMTT(30), <1>1, <1>5, <2>1, <2>2, <2>3, <2>4
<1>6. j = 1 \/ pts[j - 1].x < k => pts[j].y <= r
  <2>1. pts[1].y <= r
    BY <1>1, <1>2
  <2> QED BY <1>4, <2>1
<1>7. j = m \/ k < pts[j + 1].x => r <= pts[j].y + 1
  <2>1. r <= pts[m].y + 1
    BY <1>1, <1>2
  <2> QED BY <1>5, <2>1
<1> QED BY <1>6, <1>7 DEF m

(* Where no key repeats, each has its point.                               *)
Strict(in) == \A i, j \in 1..Len(in) : i < j => in[i] < in[j]

LEMMA StrictPoints ==
  ASSUME NEW in, SortedKeys(in), Strict(in), NEW pts, Charted(in, pts)
  PROVE  /\ Len(pts) = Len(in) + 1
         /\ \A j \in 1..Len(pts) : pts[j].y = j - 1
         /\ \A j \in 1..Len(in) : pts[j].x = in[j]
<1> DEFINE n == Len(in)
           m == Len(pts)
<1>1. /\ n \in Nat /\ m \in Nat /\ m >= 2
      /\ \A i \in 1..n : in[i] \in Nat
      /\ \A i \in 1..m : pts[i].x \in Nat /\ pts[i].y \in Nat
      /\ pts[1].y = 0 /\ pts[m].y = n
      /\ \A i \in 1..m-1 : Neighbours(in, pts[i], pts[i + 1])
  BY ChartedTypes
<1>2. n = Len(in) /\ m = Len(pts) /\ \A i, j \in 1..n : i < j => in[i] < in[j]
  BY DEF Strict
<1> HIDE DEF n, m
<1>3. ASSUME NEW j \in 1..m-1
      PROVE  /\ pts[j].y < pts[j + 1].y /\ pts[j + 1].y <= n
             /\ pts[j].y + 1 \in 1..n /\ pts[j + 1].y \in 1..n
             /\ pts[j].x = in[pts[j].y + 1] /\ in[pts[j + 1].y] <= pts[j].x
  <2>1. j \in 1..m /\ j + 1 \in 1..m
    BY <1>1
  <2>2. /\ pts[j].y < pts[j + 1].y /\ pts[j + 1].y <= n
        /\ pts[j].x = in[pts[j].y + 1] \/ Repeat(in, pts[j].y + 1)
        /\ in[pts[j + 1].y] <= pts[j].x
    BY <1>1, <1>2 DEF Neighbours
  <2>3. pts[j].y \in Nat /\ pts[j + 1].y \in Nat
    BY <1>1, <2>1
  <2> DEFINE i == pts[j].y + 1
  <2>4. i \in 1..n
    BY <1>1, <2>2, <2>3
  <2>5. pts[j + 1].y \in 1..n
    BY <1>1, <2>2, <2>3
  <2> HIDE DEF i
  <2>6. ~Repeat(in, i)
    <3> SUFFICES ASSUME i > 1, in[i] = in[i - 1] PROVE FALSE
      BY DEF Repeat
    <3>1. i - 1 \in 1..n /\ i - 1 < i
      BY <1>1, <2>4
    <3>2. in[i - 1] < in[i]
      BY <1>2, <2>4, <3>1
    <3> QED BY <1>1, <2>4, <3>2
  <2> QED BY <2>2, <2>4, <2>5, <2>6 DEF i
<1> DEFINE T == {j \in 1..m : pts[j].y = j - 1}
<1>4. 1 \in T
  BY <1>1
<1>5. ASSUME NEW j \in 1+1..m, j - 1 \in T PROVE j \in T
  <2> DEFINE i == j - 1
  <2>1. i \in 1..m-1 /\ i + 1 = j /\ j \in 1..m
    BY <1>1
  <2>2. pts[i].y = i - 1
    BY <1>5
  <2> HIDE DEF i
  <2> DEFINE b == pts[j].y
  <2>3. i - 1 < b /\ i \in 1..n /\ b \in 1..n /\ in[b] <= in[i]
    <3>1. (i - 1) + 1 = i
      BY <2>1
    <3>2. /\ pts[i].y < pts[i + 1].y
          /\ pts[i].y + 1 \in 1..n /\ pts[i + 1].y \in 1..n
          /\ pts[i].x = in[pts[i].y + 1] /\ in[pts[i + 1].y] <= pts[i].x
      BY <1>3, <2>1
    <3> QED BY <2>1, <2>2, <3>1, <3>2
  <2> HIDE DEF b
  <2>4. ~(i < b)
    <3>1. i < b => in[i] < in[b]
      BY <1>2, <2>3
    <3>2. in[i] \in Nat /\ in[b] \in Nat
      BY <1>1, <2>3
    <3> QED BY <2>3, <3>1, <3>2
  <2>5. b = i
    BY <1>1, <2>3, <2>4
  <2>6. b = j - 1
    BY <2>1, <2>5
  <2> QED BY <2>1, <2>6 DEF b
<1>6. \A j \in 1..m : pts[j].y = j - 1
  <2>1. 1 \in Int /\ m \in Int
    BY <1>1
  <2> HIDE DEF T
  <2>2. 1..m \subseteq T
    BY ONLY <1>4, <1>5, <2>1, IntervalInduction
  <2> QED BY <2>2 DEF T
<1>7. m = n + 1
  <2>1. m \in 1..m
    BY <1>1
  <2>2. pts[m].y = m - 1
    BY <1>6, <2>1
  <2> QED BY <1>1, <2>2
<1>8. ASSUME NEW j \in 1..n PROVE pts[j].x = in[j]
  <2>1. j \in 1..m-1 /\ j \in 1..m /\ (j - 1) + 1 = j
    BY <1>1, <1>7
  <2>2. pts[j].x = in[pts[j].y + 1] /\ pts[j].y = j - 1
    BY <1>3, <1>6, <2>1
  <2> QED BY <2>1, <2>2
<1> QED BY <1>2, <1>6, <1>7, <1>8

-----------------------------------------------------------------------------
(* What make_segmentation() returns: a line for each segment, fitting it,  *)
(* and all but the last would not fit the point that follows.              *)
Lined(in, eps, segs, pts, seen, b) ==
  /\ seen \in Seq(Seq(Samples)) /\ Len(seen) >= 1
  /\ Divided(b, seen, pts, Len(pts))
  /\ segs \in Seq(Lines) /\ Len(segs) = Len(seen)
  /\ \A s \in 1..Len(seen) : Fit(segs[s], seen[s], eps)
  /\ \A s \in 1..Len(seen)-1 : /\ Len(seen[s]) >= 2
                               /\ ~Coverable(Append(seen[s], seen[s + 1][1]), eps)

LEMMA Segmenting ==
  ASSUME NEW eps \in Nat \ {0}, NEW in, SortedKeys(in)
  PROVE  /\ Segmented(Segmentation(in, eps), eps, Points(in), Len(Points(in)))
         /\ \E seen, b : Lined(in, eps, MakeSegmentation(in, eps), Points(in), seen, b)
<1> DEFINE pts == Points(in)
           m == Len(pts)
           st == Segmentation(in, eps)
           seen == st.seen
           n == Len(seen)
           L == Segment(st.hull)
           segs == MakeSegmentation(in, eps)
<1>1. Charted(in, pts)
  BY PointsCharted
<1>2. Ascends(pts) /\ RanksRise(pts) /\ m \in Nat
  BY <1>1, ChartedTypes, ChartedRanks
<1>3. st = FoldLeft(LAMBDA s, p : Fed(s, p, eps), Unfed, pts)
  BY DEF Segmentation, Unfed
<1>4. segs = Append(st.out, L)
  BY DEF MakeSegmentation
<1> HIDE DEF pts, st, segs
<1>5. Segmented(st, eps, pts, m)
  BY <1>2, <1>3, SegmentedAll
<1>6. /\ seen \in Seq(Seq(Samples)) /\ n \in Nat \ {0} /\ n \in 1..n
      /\ st.out \in Seq(Lines) /\ Len(st.out) = n - 1
      /\ HullOf(st.hull, seen[n], eps)
      /\ \A s \in 1..n-1 : Closed(st, eps, s)
  BY <1>5 DEF Segmented
<1>7. PICK b : Divided(b, seen, pts, m)
  BY <1>5 DEF Segmented
<1>8. n = Len(seen) /\ n >= 1
  BY <1>6
<1> HIDE DEF m, seen, L, n
<1>9. RanksRise(seen[n])
  <2> DEFINE last == seen[n]
  <2>1. /\ b[n] \in 1..m /\ Len(last) \in Nat \ {0} /\ b[n] + Len(last) <= m + 1
        /\ \A j \in 1..Len(last) : last[j] = pts[(b[n] + j) - 1]
    <3>1. m \in Nat /\ n \in Nat \ {0} /\ n = Len(seen) /\ Divided(b, seen, pts, m)
      BY <1>2, <1>6, <1>7, <1>8
    <3>2. Blocks(b, seen, pts, m)
      BY ONLY <3>1, DividedFacts
    <3>3. n \in 1..n
      BY <1>6
    <3> QED BY <1>8, <3>2, <3>3 DEF Blocks
  <2> HIDE DEF last
  <2>2. ASSUME NEW i \in 1..Len(last), NEW j \in 1..Len(last), i <= j PROVE last[i].y <= last[j].y
    <3>1. (b[n] + i) - 1 \in 1..m /\ (b[n] + j) - 1 \in 1..m /\ (b[n] + i) - 1 <= (b[n] + j) - 1
      BY <1>2, <2>1, <2>2
    <3>2. pts[(b[n] + i) - 1].y <= pts[(b[n] + j) - 1].y
      BY <1>2, <3>1 DEF RanksRise, m
    <3> QED BY <2>1, <3>2
  <2> QED BY <2>2 DEF RanksRise, last
<1>10. Fit(L, seen[n], eps) /\ L \in Lines
  <2>1. Fit(L, seen[n], eps)
    BY <1>6, <1>9, SegmentFits DEF L
  <2> QED BY <2>1 DEF Fit
<1>11. /\ segs \in Seq(Lines) /\ Len(segs) = n /\ segs[n] = L
       /\ \A s \in 1..n-1 : segs[s] = st.out[s]
  BY <1>4, <1>6, <1>10
<1>12. ASSUME NEW s \in 1..n-1
       PROVE  /\ Fit(segs[s], seen[s], eps) /\ Len(seen[s]) >= 2
              /\ ~Coverable(Append(seen[s], seen[s + 1][1]), eps)
  BY <1>6, <1>11, <1>8 DEF Closed, seen
<1>13. \A s \in 1..n : Fit(segs[s], seen[s], eps)
  <2> TAKE s \in 1..n
  <2>1. s = n \/ s \in 1..n-1
    BY <1>6
  <2> QED BY <1>10, <1>11, <1>12, <2>1
<1>14. Lined(in, eps, segs, pts, seen, b)
  BY <1>6, <1>7, <1>11, <1>12, <1>13, <1>8 DEF Lined, m
<1> QED BY <1>5, <1>14 DEF pts, st, segs, m

-----------------------------------------------------------------------------
(* How many lines there are, and where they start.                         *)
Starts(in, segs) ==
  /\ segs \in Seq(Lines) /\ Len(segs) \in 1..Len(in)
  /\ segs[1].key = in[1]
  /\ \A i, j \in 1..Len(segs) : i < j => segs[i].key < segs[j].key
  /\ \A i \in 1..Len(segs) : segs[i].key <= in[Len(in)] + 1
  /\ Strict(in) /\ Len(in) >= 2 =>
       /\ Len(segs) < Len(in)
       /\ \A i \in 1..Len(segs)-1 : segs[i].key <= in[Len(in) - 1]

(* Three points of which each ranks one above the last are covered.        *)
LEMMA ThreeInARow ==
  ASSUME NEW eps \in Nat \ {0}, NEW s, s \in Seq(Samples), Len(s) = 3,
         s[1].x <= s[2].x, s[2].x <= s[3].x, s[2].y = s[1].y + 1, s[3].y = s[1].y + 2
  PROVE  Coverable(s, eps)
<1> DEFINE lo(i) == SubEps(s[i].y, eps)
           hi(i) == s[i].y + eps
           u == s[2].x - s[1].x
           v == s[3].x - s[2].x
           w == s[3].x - s[1].x
<1>1. \A i \in 1..3 : s[i].x \in Nat /\ s[i].y \in Nat
  BY SampleAt
<1>2. DOMAIN s = 1..3 /\ 1 \in 1..3 /\ 2 \in 1..3 /\ 3 \in 1..3
  OBVIOUS
<1>3. u \in Nat /\ v \in Nat /\ w = v + u
  BY <1>1, <1>2
<1>4. \A i \in 1..3 : lo(i) \in Int /\ hi(i) \in Int
  BY <1>1 DEF SubEps
<1>5. lo(2) <= hi(1) /\ lo(2) <= hi(3) /\ lo(1) <= hi(2) /\ lo(3) <= hi(2)
  BY SMTT(30), <1>1, <1>2 DEF SubEps
<1> HIDE DEF lo, hi, u, v, w
<1>6. ASSUME NEW a \in Int, NEW b \in Int, NEW c \in Int, a <= b, a <= c PROVE a * w <= b * v + c * u
  <2>1. a * v <= b * v /\ a * u <= c * u
    BY <1>3, <1>6, Multiply
  <2>2. a * w = a * v + a * u /\ a * v \in Int /\ a * u \in Int /\ b * v \in Int /\ c * u \in Int
    <3>1. a * (v + u) = a * v + a * u
      BY <1>3
    <3> QED BY <1>3, <3>1, Products
  <2> QED BY <2>1, <2>2
<1>7. ASSUME NEW a \in Int, NEW b \in Int, NEW c \in Int, b <= a, c <= a PROVE a * w >= b * v + c * u
  <2>1. b * v <= a * v /\ c * u <= a * u
    BY <1>3, <1>7, Multiply
  <2>2. a * w = a * v + a * u /\ a * v \in Int /\ a * u \in Int /\ b * v \in Int /\ c * u \in Int
    <3>1. a * (v + u) = a * v + a * u
      BY <1>3
    <3> QED BY <1>3, <3>1, Products
  <2> QED BY <2>1, <2>2
<1>8. lo(2) * w <= hi(1) * v + hi(3) * u /\ hi(2) * w >= lo(1) * v + lo(3) * u
  BY <1>2, <1>4, <1>5, <1>6, <1>7
<1>9. \A i, j, k \in 1..3 : i < j /\ j < k => i = 1 /\ j = 2 /\ k = 3
  OBVIOUS
<1>10. /\ SubEps(s[2].y, eps) * (s[3].x - s[1].x)
            <= (s[1].y + eps) * (s[3].x - s[2].x) + (s[3].y + eps) * (s[2].x - s[1].x)
       /\ (s[2].y + eps) * (s[3].x - s[1].x)
            >= SubEps(s[1].y, eps) * (s[3].x - s[2].x) + SubEps(s[3].y, eps) * (s[2].x - s[1].x)
  BY <1>8 DEF lo, hi, u, v, w
<1> QED BY <1>2, <1>9, <1>10 DEF Coverable

LEMMA SegmentStarts ==
  ASSUME NEW eps \in Nat \ {0}, NEW in, SortedKeys(in), NEW pts, Charted(in, pts),
         NEW segs, NEW seen, NEW b, Lined(in, eps, segs, pts, seen, b)
  PROVE  Starts(in, segs)
<1> DEFINE n == Len(in)
           m == Len(pts)
           c == Len(seen)
<1>1. /\ n \in Nat /\ n >= 1 /\ m \in Nat /\ m >= 2 /\ m <= n + 1 /\ n = Len(in) /\ m = Len(pts)
      /\ \A i \in 1..n : in[i] \in Nat
      /\ \A j \in 1..m : pts[j].x \in Nat /\ pts[j].y \in Nat /\ pts[j] \in Samples
      /\ pts[1].x = in[1] /\ pts[m].x = in[n] + 1
      /\ \A i, j \in 1..m : i < j => pts[i].x < pts[j].x
  BY ChartedTypes, ChartedRanks, SampleAt DEF Ascends
<1>2. /\ c \in Nat \ {0} /\ c = Len(seen) /\ seen \in Seq(Seq(Samples))
      /\ segs \in Seq(Lines) /\ Len(segs) = c
      /\ \A s \in 1..c : segs[s].key = seen[s][1].x
      /\ \A s \in 1..c-1 : Len(seen[s]) >= 2 /\ ~Coverable(Append(seen[s], seen[s + 1][1]), eps)
      /\ Divided(b, seen, pts, m)
  <2>1. /\ seen \in Seq(Seq(Samples)) /\ c \in Nat /\ c >= 1
        /\ segs \in Seq(Lines) /\ Len(segs) = c
        /\ \A s \in 1..c : Fit(segs[s], seen[s], eps)
        /\ \A s \in 1..c-1 : Len(seen[s]) >= 2 /\ ~Coverable(Append(seen[s], seen[s + 1][1]), eps)
        /\ Divided(b, seen, pts, m)
    BY DEF Lined
  <2> HIDE DEF c
  <2>2. \A s \in 1..c : segs[s].key = seen[s][1].x
    BY <2>1 DEF Fit
  <2>3. c = Len(seen) /\ c \in Nat \ {0}
    BY <2>1 DEF c
  <2> QED BY <2>1, <2>2, <2>3
<1> HIDE DEF n, m, c
<1>3. Blocks(b, seen, pts, m)
  BY ONLY <1>1, <1>2, DividedFacts
<1>4. /\ b[1] = 1
      /\ \A s \in 1..c : /\ b[s] \in 1..m /\ Len(seen[s]) \in Nat \ {0}
                         /\ \A j \in 1..Len(seen[s]) : seen[s][j] = pts[(b[s] + j) - 1]
      /\ \A s \in 1..c-1 : b[s + 1] = b[s] + Len(seen[s])
      /\ \A i, j \in 1..c : i < j => b[i] < b[j]
  BY <1>2, <1>3 DEF Blocks
<1>5. \A s \in 1..c : seen[s][1] = pts[b[s]] /\ segs[s].key = pts[b[s]].x
  <2> TAKE s \in 1..c
  <2>1. 1 \in 1..Len(seen[s]) /\ (b[s] + 1) - 1 = b[s]
    BY <1>1, <1>4
  <2> QED BY <1>2, <1>4, <2>1
<1>6. segs[1].key = in[1]
  <2>1. 1 \in 1..c
    BY <1>2
  <2> QED BY <1>1, <1>4, <1>5, <2>1
<1>7. \A i, j \in 1..c : i < j => segs[i].key < segs[j].key
  BY <1>1, <1>4, <1>5
<1>8. \A i \in 1..c : segs[i].key <= in[n] + 1
  <2> TAKE i \in 1..c
  <2>1. b[i] \in 1..m /\ m \in 1..m /\ (b[i] = m \/ b[i] < m) /\ n \in 1..n
    BY <1>1, <1>4
  <2>2. pts[b[i]].x = pts[m].x \/ pts[b[i]].x < pts[m].x
    BY <1>1, <2>1
  <2>3. pts[b[i]].x \in Nat /\ in[n] \in Nat
    BY <1>1, <2>1
  <2> QED BY <1>1, <1>5, <2>2, <2>3
<1>9. ASSUME NEW d \in {2, 3}, \A s \in 1..c-1 : Len(seen[s]) >= d
      PROVE  \A s \in 1..c : b[s] >= d * (s - 1) + 1
  <2> DEFINE T == {s \in 1..c : b[s] >= d * (s - 1) + 1}
  <2>1. 1 \in T
    BY <1>2, <1>4
  <2>2. ASSUME NEW s \in 1+1..c, s - 1 \in T PROVE s \in T
    <3>1. s \in 1..c /\ s - 1 \in 1..c-1 /\ s - 1 \in 1..c /\ (s - 1) + 1 = s
      BY <1>2
    <3>2. b[s] = b[s - 1] + Len(seen[s - 1]) /\ b[s - 1] \in Nat /\ Len(seen[s - 1]) \in Nat
      BY <1>1, <1>4, <3>1
    <3>3. b[s - 1] >= d * ((s - 1) - 1) + 1 /\ Len(seen[s - 1]) >= d
      BY <1>9, <2>2, <3>1
    <3>4. d * (s - 1) = d * ((s - 1) - 1) + d /\ d * ((s - 1) - 1) \in Int /\ d \in Int
      BY <3>1
    <3> QED BY <3>1, <3>2, <3>3, <3>4
  <2>3. 1 \in Int /\ c \in Int
    BY <1>2
  <2> HIDE DEF T
  <2>4. 1..c \subseteq T
    BY ONLY <2>1, <2>2, <2>3, IntervalInduction
  <2> QED BY <2>4 DEF T
<1>10. c \in 1..c /\ b[c] \in 1..m
  BY <1>2, <1>4
<1>11. c <= n
  <2>1. b[c] >= 2 * (c - 1) + 1
    BY <1>2, <1>9, <1>10
  <2> QED BY <1>1, <1>2, <1>10, <2>1
<1>12. ASSUME Strict(in), n >= 2
       PROVE  c < n /\ \A i \in 1..c-1 : segs[i].key <= in[n - 1]
  <2>1. m = n + 1 /\ (\A j \in 1..m : pts[j].y = j - 1) /\ (\A j \in 1..n : pts[j].x = in[j])
    BY ONLY <1>1, <1>12, SortedKeys(in), Charted(in, pts), StrictPoints
  <2>2. ASSUME NEW s \in 1..c-1 PROVE Len(seen[s]) >= 3
    <3> DEFINE q == seen[s]
               p == seen[s + 1][1]
               t == Append(q, p)
               a == b[s]
    <3>1. s \in 1..c /\ s + 1 \in 1..c
      BY <1>2
    <3>2. q \in Seq(Samples) /\ ~Coverable(t, eps)
      BY <1>2, <3>1
    <3>3. Len(q) \in Nat /\ Len(q) >= 2
      BY <1>2, <3>1, <3>2
    <3>4. /\ a \in 1..m /\ b[s + 1] \in 1..m /\ b[s + 1] = a + Len(q) /\ p = pts[b[s + 1]]
          /\ \A j \in 1..Len(q) : q[j] = pts[(a + j) - 1]
      BY <1>4, <1>5, <3>1
    <3> HIDE DEF q, p, a, t
    <3> SUFFICES ASSUME Len(q) = 2 PROVE FALSE
      <4> DEFINE l == Len(q)
      <4>1. l \in Nat /\ l >= 2
        BY <3>3
      <4> HIDE DEF l
      <4>2. l # 2 => l >= 3
        BY <4>1
      <4> QED BY <4>2 DEF l, q
    <3>5. a \in 1..m /\ a + 1 \in 1..m /\ a + 2 \in 1..m /\ p = pts[a + 2]
      BY <1>1, <3>4
    <3>6. q[1] = pts[a] /\ q[2] = pts[a + 1]
      <4>1. 1 \in 1..2 /\ 2 \in 1..2 /\ (a + 1) - 1 = a /\ (a + 2) - 1 = a + 1
        BY <1>1, <3>5
      <4> QED BY <3>4, <4>1
    <3>7. t \in Seq(Samples) /\ Len(t) = 3 /\ t[1] = pts[a] /\ t[2] = pts[a + 1] /\ t[3] = pts[a + 2]
      <4>1. p \in Samples /\ 1 \in 1..2 /\ 2 \in 1..2 /\ 2 + 1 = 3
        BY <1>1, <3>5
      <4>2. t \in Seq(Samples) /\ Len(t) = 3 /\ t[1] = q[1] /\ t[2] = q[2] /\ t[3] = p
        <5>1. /\ t \in Seq(Samples) /\ Len(t) = Len(q) + 1 /\ t[Len(q) + 1] = p
              /\ \A i \in 1..Len(q) : t[i] = q[i]
          BY ONLY <3>2, <4>1, AppendProperties DEF t
        <5> QED BY ONLY <4>1, <5>1, Len(q) = 2
      <4> QED BY <3>5, <3>6, <4>2
    <3>8. /\ t[1].x <= t[2].x /\ t[2].x <= t[3].x
          /\ t[2].y = t[1].y + 1 /\ t[3].y = t[1].y + 2
      <4>1. pts[a].x < pts[a + 1].x /\ pts[a + 1].x < pts[a + 2].x
        BY <1>1, <3>5
      <4>2. pts[a].y = a - 1 /\ pts[a + 1].y = (a + 1) - 1 /\ pts[a + 2].y = (a + 2) - 1
        BY <2>1, <3>5
      <4>3. pts[a].x \in Nat /\ pts[a + 1].x \in Nat /\ pts[a + 2].x \in Nat /\ a \in Nat
        BY <1>1, <3>5
      <4>4. pts[a].x <= pts[a + 1].x /\ pts[a + 1].x <= pts[a + 2].x
        BY <4>1, <4>3
      <4>5. pts[a + 1].y = pts[a].y + 1 /\ pts[a + 2].y = pts[a].y + 2
        BY <4>2, <4>3
      <4> QED BY <3>7, <4>4, <4>5
    <3>9. Coverable(t, eps)
      BY ONLY eps \in Nat \ {0}, <3>7, <3>8, ThreeInARow
    <3> QED BY <3>2, <3>9
  <2>3. \A s \in 1..c : b[s] >= 3 * (s - 1) + 1
    BY <1>9, <2>2
  <2>4. c < n
    <3>1. b[c] >= 3 * (c - 1) + 1
      BY <1>10, <2>3
    <3> QED BY <1>1, <1>2, <1>10, <1>12, <3>1
  <2>5. ASSUME NEW i \in 1..c-1 PROVE segs[i].key <= in[n - 1]
    <3>1. i \in 1..c /\ i + 1 \in 1..c
      BY <1>2
    <3>2. b[i + 1] = b[i] + Len(seen[i]) /\ b[i + 1] \in 1..m /\ b[i] \in 1..m /\ Len(seen[i]) >= 3
          /\ Len(seen[i]) \in Nat
      BY <1>4, <2>2, <3>1
    <3>3. b[i] \in 1..n /\ n - 1 \in 1..n /\ b[i] <= n - 1
      BY SMTT(30), <1>1, <1>12, <2>1, <3>2
    <3>4. in[b[i]] <= in[n - 1]
      BY <1>1, <3>3 DEF SortedKeys
    <3> QED BY <1>5, <2>1, <3>1, <3>3, <3>4
  <2> QED BY <2>4, <2>5
<1>13. Len(segs) \in 1..n
  BY <1>1, <1>2, <1>11
<1> QED BY <1>1, <1>2, <1>6, <1>7, <1>8, <1>12, <1>13 DEF Starts

-----------------------------------------------------------------------------
(* The lines keep within eps of the place of a key, up to the casts: each  *)
(* from its own start to the next, where the intercept of the next line    *)
(* may have to cut it off.                                                 *)
Near(r, eps, pos) == (r - eps) - 2 <= pos

Tracks(in, eps, segs) ==
  \A k \in Nat, r \in Nat, t \in 1..Len(segs) :
    IsPlace(in, k, r) /\ segs[t].key <= k /\ (t = Len(segs) \/ k < segs[t + 1].key) =>
      /\ t < Len(segs) => Near(r, eps, segs[t + 1].intercept)
      /\ \A pos \in Positions(segs[t], k) :
           /\ pos \in Int /\ Near(r, eps, pos)
           /\ \/ pos <= r + eps
              \/ t < Len(segs) /\ segs[t + 1].intercept <= r + eps
              \/ t = Len(segs) /\ in[Len(in)] + 1 < k

LEMMA SubEpsAbove ==
  ASSUME NEW y \in Nat, NEW eps \in Nat \ {0}
  PROVE  SubEps(y, eps) \in Nat /\ y - eps <= SubEps(y, eps)
BY DEF SubEps

LEMMA SegmentTracks ==
  ASSUME NEW eps \in Nat \ {0}, NEW in, SortedKeys(in), NEW pts, Charted(in, pts),
         NEW segs, NEW seen, NEW b, Lined(in, eps, segs, pts, seen, b)
  PROVE  Tracks(in, eps, segs)
<1> DEFINE n == Len(in)
           m == Len(pts)
           c == Len(seen)
<1>1. /\ n \in Nat /\ n >= 1 /\ m \in Nat /\ m >= 2 /\ n = Len(in) /\ m = Len(pts)
      /\ \A i \in 1..n : in[i] \in Nat
      /\ \A j \in 1..m : pts[j].x \in Nat /\ pts[j].y \in Nat
      /\ pts[m].x = in[n] + 1
      /\ \A i, j \in 1..m : i < j => pts[i].x < pts[j].x
      /\ \A i, j \in 1..m : i <= j => pts[i].y <= pts[j].y
  BY ChartedTypes, ChartedRanks DEF Ascends, RanksRise
<1>2. /\ c \in Nat /\ c >= 1 /\ segs \in Seq(Lines) /\ Len(segs) = c
      /\ \A s \in 1..c : Fit(segs[s], seen[s], eps)
      /\ Divided(b, seen, pts, m)
  BY DEF Lined
<1>3. c = Len(seen) /\ c \in Nat \ {0}
  BY <1>2 DEF c
<1> HIDE DEF n, m, c
<1>4. Blocks(b, seen, pts, m)
  BY ONLY <1>1, <1>2, <1>3, DividedFacts
<1>5. /\ b[c] + Len(seen[c]) = m + 1
      /\ \A s \in 1..c : /\ b[s] \in 1..m /\ Len(seen[s]) \in Nat \ {0}
                         /\ b[s] + Len(seen[s]) <= m + 1
                         /\ \A j \in 1..Len(seen[s]) : seen[s][j] = pts[(b[s] + j) - 1]
      /\ \A s \in 1..c-1 : b[s + 1] = b[s] + Len(seen[s])
  BY <1>3, <1>4 DEF Blocks
<1>6. ASSUME NEW s \in 1..c
      PROVE  /\ segs[s].key = pts[b[s]].x /\ segs[s].intercept \in Nat
             /\ SubEps(pts[b[s]].y, eps) <= segs[s].intercept
             /\ segs[s].intercept <= pts[b[s]].y + eps
  <2>1. 1 \in 1..Len(seen[s]) /\ (b[s] + 1) - 1 = b[s]
    BY <1>1, <1>5
  <2>2. seen[s][1] = pts[b[s]]
    BY <1>5, <2>1
  <2>3. Fit(segs[s], seen[s], eps)
    BY <1>2
  <2> QED BY <2>2, <2>3, LineTypes DEF Fit
<1>7. ASSUME NEW k \in Nat, NEW r \in Nat, NEW t \in 1..c,
             IsPlace(in, k, r), segs[t].key <= k, t = c \/ k < segs[t + 1].key
      PROVE  /\ t < c => Near(r, eps, segs[t + 1].intercept)
             /\ \A pos \in Positions(segs[t], k) :
                  /\ pos \in Int /\ Near(r, eps, pos)
                  /\ \/ pos <= r + eps
                     \/ t < c /\ segs[t + 1].intercept <= r + eps
                     \/ t = c /\ in[n] + 1 < k
  <2> DEFINE q == seen[t]
             a == b[t]
             l == Len(q)
             D == {j \in 1..l : q[j].x <= k}
             i == Max(D)
             e == (a + i) - 1
  <2>1. /\ a \in 1..m /\ l \in Nat \ {0} /\ a + l <= m + 1
        /\ \A j \in 1..l : q[j] = pts[(a + j) - 1]
        /\ segs[t].key = pts[a].x
    BY <1>5, <1>6
  <2>2. \A j \in 1..l : (a + j) - 1 \in 1..m /\ q[j].x \in Nat /\ q[j].y \in Nat
    <3> TAKE j \in 1..l
    <3> HIDE DEF a, l
    <3>1. (a + j) - 1 \in 1..m
      BY <1>1, <2>1
    <3> QED BY <1>1, <2>1, <3>1
  <2>3. Fit(segs[t], q, eps)
    BY <1>2
  <2> HIDE DEF q, a, l
  <2>4. i \in D /\ \A j \in D : j <= i
    <3>1. 1 \in 1..l /\ (a + 1) - 1 = a
      BY <1>1, <2>1
    <3>2. 1 \in D
      BY <1>7, <2>1, <3>1
    <3>3. D \subseteq 1..l /\ D # {} /\ 1 \in Int /\ l \in Int
      BY <2>1, <3>2
    <3> HIDE DEF D
    <3> QED BY ONLY <3>3, MaxOfInterval
  <2>5. i \in 1..l /\ q[i].x <= k
    BY <2>4
  <2>6. i < l => i + 1 \in 1..l /\ k < q[i + 1].x
    <3> SUFFICES ASSUME i < l PROVE i + 1 \in 1..l /\ k < q[i + 1].x
      OBVIOUS
    <3>1. i + 1 \in 1..l /\ i + 1 \notin D
      <4>1. i \in Int /\ l \in Int
        BY <2>1, <2>5
      <4> HIDE DEF D, i
      <4> QED BY <2>4, <2>5, <4>1
    <3> QED BY <2>2, <3>1
  <2> HIDE DEF i, D
  <2>7. e \in 1..m /\ q[i] = pts[e] /\ pts[e].x <= k /\ pts[e].y \in Nat /\ i \in Int /\ e + 1 = a + i
    <3>1. a \in Int /\ i \in Int
      BY <1>1, <2>1, <2>5
    <3>2. e \in 1..m /\ q[i] = pts[e] /\ e + 1 = a + i
      BY <2>1, <2>2, <2>5, <3>1
    <3> HIDE DEF e
    <3> QED BY <1>1, <2>5, <3>1, <3>2
  <2> HIDE DEF e
  <2>8. /\ i < l => e + 1 \in 1..m /\ q[i + 1] = pts[e + 1]
        /\ i = l /\ t < c => e + 1 \in 1..m /\ t + 1 \in 1..c /\ b[t + 1] = e + 1
        /\ i = l /\ t = c => e = m
    <3>1. i < l => e + 1 \in 1..m /\ q[i + 1] = pts[e + 1]
      <4> SUFFICES ASSUME i < l PROVE e + 1 \in 1..m /\ q[i + 1] = pts[e + 1]
        OBVIOUS
      <4>1. (a + (i + 1)) - 1 = e + 1
        BY <1>1, <2>1, <2>7
      <4>2. i + 1 \in 1..l
        BY <2>6
      <4> QED BY <2>1, <2>2, <4>1, <4>2
    <3>2. i = l /\ t < c => e + 1 \in 1..m /\ t + 1 \in 1..c /\ b[t + 1] = e + 1
      <4> SUFFICES ASSUME i = l, t < c PROVE e + 1 \in 1..m /\ t + 1 \in 1..c /\ b[t + 1] = e + 1
        OBVIOUS
      <4>1. t \in 1..c-1 /\ t + 1 \in 1..c
        BY <1>2
      <4>2. b[t + 1] = a + l
        BY <1>5, <4>1 DEF a, l, q
      <4> QED BY <1>5, <2>7, <4>1, <4>2
    <3>3. i = l /\ t = c => e = m
      <4> SUFFICES ASSUME i = l, t = c PROVE e = m
        OBVIOUS
      <4>1. a + l = m + 1
        BY <1>5 DEF a, l, q
      <4> QED BY <1>1, <2>7, <4>1
    <3> QED BY <3>1, <3>2, <3>3
  <2>9. e = m \/ (e + 1 \in 1..m /\ k < pts[e + 1].x)
    <3>1. i < l \/ i = l
      BY <2>1, <2>5
    <3>2. t < c \/ t = c
      BY <1>2
    <3>3. i = l /\ t < c => k < pts[e + 1].x
      BY <1>2, <1>6, <1>7, <2>8
    <3> QED BY <2>6, <2>8, <3>1, <3>2, <3>3
  <2>10. r <= pts[e].y + 1
    BY <1>1, <1>7, <2>7, <2>9, PlaceBetween
  <2>11. e + 1 \in 1..m /\ pts[e].x < k => pts[e + 1].y <= r
    <3> SUFFICES ASSUME e + 1 \in 1..m, pts[e].x < k PROVE pts[e + 1].y <= r
      OBVIOUS
    <3>1. (e + 1) - 1 = e
      BY <2>7
    <3> DEFINE j == e + 1
    <3>2. j \in 1..Len(pts) /\ pts[j - 1].x < k
      BY <1>1, <3>1
    <3> HIDE DEF j
    <3>3. pts[j].y <= r
      BY ONLY SortedKeys(in), Charted(in, pts), <1>7, <3>2, PlaceBetween
    <3> QED BY <3>3 DEF j
  <2>12. pts[e].x = k => pts[e].y <= r
    <3> SUFFICES ASSUME pts[e].x = k PROVE pts[e].y <= r
      OBVIOUS
    <3>1. e = 1 \/ pts[e - 1].x < k
      <4>1. e # 1 => e - 1 \in 1..m /\ e - 1 < e
        BY <1>1, <2>7
      <4> QED BY <1>1, <2>7, <4>1
    <3> QED BY <1>1, <1>7, <2>7, <3>1, PlaceBetween
  <2>13. t < c => Near(r, eps, segs[t + 1].intercept)
    <3> SUFFICES ASSUME t < c PROVE Near(r, eps, segs[t + 1].intercept)
      OBVIOUS
    <3> DEFINE g == b[t + 1]
               w == segs[t + 1].intercept
    <3>1. t \in 1..c-1 /\ t + 1 \in 1..c
      BY <1>2
    <3>2. g \in 1..m /\ g = a + l /\ SubEps(pts[g].y, eps) <= w /\ w \in Nat
      BY <1>5, <1>6, <3>1 DEF a, l, q
    <3> HIDE DEF g, w
    <3>3. pts[e].y <= pts[g].y
      <4>1. e <= g
        BY <1>1, <2>1, <2>5, <2>7, <3>2
      <4> QED BY <1>1, <2>7, <3>2, <4>1
    <3>4. pts[g].y \in Nat /\ pts[g].y - eps <= SubEps(pts[g].y, eps) /\ SubEps(pts[g].y, eps) \in Nat
      BY <1>1, <3>2, SubEpsAbove
    <3>5. (r - eps) - 2 <= w
      BY <2>7, <2>10, <3>2, <3>3, <3>4
    <3> QED BY <3>5 DEF Near, w
  <2>14. ASSUME NEW pos \in Positions(segs[t], k)
         PROVE  /\ pos \in Int /\ Near(r, eps, pos)
                /\ \/ pos <= r + eps
                   \/ t < c /\ segs[t + 1].intercept <= r + eps
                   \/ t = c /\ in[n] + 1 < k
    <3>1. /\ pos \in Int
          /\ \A j \in 1..l : /\ k <= q[j].x => pos <= q[j].y + eps
                             /\ q[j].x <= k => SubEps(q[j].y, eps) - 1 <= pos
      <4>1. l = Len(q)
        BY DEF l
      <4>2. \A i1 \in 1..Len(q) : segs[t].key <= k => \A p1 \in Positions(segs[t], k) :
              /\ p1 \in Int
              /\ k <= q[i1].x => p1 <= q[i1].y + eps
              /\ q[i1].x <= k => SubEps(q[i1].y, eps) - 1 <= p1
        BY <2>3 DEF Fit
      <4>3. \E i1 \in 1..Len(q) : TRUE
        BY <2>5, <4>1
      <4> QED BY <1>7, <2>14, <4>1, <4>2, <4>3
    <3>2. Near(r, eps, pos)
      <4>1. SubEps(pts[e].y, eps) - 1 <= pos
        BY <2>5, <2>7, <3>1
      <4>2. SubEps(pts[e].y, eps) \in Nat /\ pts[e].y - eps <= SubEps(pts[e].y, eps)
        BY <2>7, SubEpsAbove
      <4> QED BY <2>7, <2>10, <3>1, <4>1, <4>2 DEF Near
    <3>3. CASE pts[e].x = k
      <4>1. k <= q[i].x
        BY <2>7, <3>3
      <4>2. pos <= pts[e].y + eps
        BY <2>5, <2>7, <3>1, <4>1
      <4> QED BY <2>7, <2>12, <3>1, <3>2, <3>3, <4>2
    <3>4. CASE pts[e].x # k
      <4>1. pts[e].x < k
        BY <1>1, <2>7, <3>4
      <4>2. CASE i < l
        <5>1. i + 1 \in 1..l /\ k <= q[i + 1].x /\ q[i + 1] = pts[e + 1] /\ e + 1 \in 1..m
          BY <2>2, <2>6, <2>8, <4>2
        <5>2. pos <= pts[e + 1].y + eps /\ pts[e + 1].y <= r /\ pts[e + 1].y \in Nat
          BY <1>1, <2>11, <3>1, <4>1, <5>1
        <5> QED BY <3>1, <3>2, <5>2
      <4>3. CASE i = l /\ t < c
        <5>1. e + 1 \in 1..m /\ t + 1 \in 1..c /\ b[t + 1] = e + 1
          BY <2>8, <4>3
        <5>2. pts[e + 1].y <= r /\ pts[e + 1].y \in Nat
          BY <1>1, <2>11, <4>1, <5>1
        <5>3. segs[t + 1].intercept <= pts[e + 1].y + eps /\ segs[t + 1].intercept \in Nat
          BY <1>6, <5>1
        <5>4. segs[t + 1].intercept <= r + eps
          BY <5>2, <5>3
        <5> QED BY <3>1, <3>2, <4>3, <5>4
      <4>4. CASE i = l /\ t = c
        <5>1. e = m /\ in[n] + 1 < k
          BY <1>1, <2>8, <4>1, <4>4
        <5> QED BY <3>1, <3>2, <4>4, <5>1
      <4>5. i < l \/ (i = l /\ t < c) \/ (i = l /\ t = c)
        BY <1>2, <2>1, <2>5
      <4> QED BY <4>2, <4>3, <4>4, <4>5
    <3> QED BY <3>3, <3>4
  <2> QED BY <2>13, <2>14
<1> QED BY <1>1, <1>2, <1>7 DEF Tracks

-----------------------------------------------------------------------------
(* A level over the keys in: whatever segment a search of it for k is at,  *)
(* the position it predicts is within eps of the place of k.               *)
UsedKeys(level) == [i \in 1..level.used |-> level.segs[i].key]

MayServe(level, i, k) ==
  /\ i \in 1..Len(level.segs)-1 /\ level.segs[i].key <= k
  /\ i = level.used \/ k < level.segs[i + 1].key

Predicts(level, in, eps) ==
  \A k \in 0..Sentinel-1, r \in Nat, i \in 1..Len(level.segs)-1 :
    IsPlace(in, k, r) /\ MayServe(level, i, k) =>
      \A pos \in Predicted(level.segs, i, k) :
        pos \in Int /\ Near(r, eps, pos) /\ pos <= r + eps

Serving(level, in, eps) ==
  /\ level.segs \in Seq(Lines) /\ level.used \in 1..Len(level.segs)-1
  /\ level.segs[1].key = in[1] /\ level.segs[Len(level.segs)].key = Sentinel
  /\ \A i, j \in 1..level.used : i < j => level.segs[i].key < level.segs[j].key
  /\ Predicts(level, in, eps)

(* What the keys of a level are like, greatest being the last of all.      *)
Indexable(in, greatest) ==
  /\ SortedKeys(in) /\ in[Len(in)] < Sentinel
  /\ Len(in) >= 2 => in[Len(in) - 1] <= greatest
  /\ Strict(in) \/ in[Len(in)] <= greatest

LEMMA ConstantLine ==
  ASSUME NEW key \in Nat, NEW n \in Nat
  PROVE  /\ Constantly(key, n) \in Lines
         /\ Constantly(key, n).key = key /\ Constantly(key, n).intercept = n
         /\ \A k \in Nat : Positions(Constantly(key, n), k) = {n}
<1> DEFINE L == Constantly(key, n)
<1>1. L.key = key /\ L.intercept = n /\ L.slope.dx = 1 /\ L.slope.dy = 0 /\ L \in Lines
  BY DEF Constantly, Lines
<1> HIDE DEF L
<1>2. ASSUME NEW k \in Nat PROVE Positions(L, k) = {n}
  <2> DEFINE num == L.slope.dy * (k - L.key)
             exact == (num \div L.slope.dx) + L.intercept
             isFloat == \E e \in 0..10 : (L.slope.dy * 2 ^ e) % L.slope.dx = 0
  <2>1. num = 0
    BY <1>1
  <2>2. exact = n
    <3>1. 0 \div 1 = 0
      OBVIOUS
    <3> HIDE DEF num
    <3> QED BY <1>1, <2>1, <3>1
  <2>3. Positions(L, k) = IF num > 0 /\ num % L.slope.dx = 0 /\ ~isFloat THEN {exact, exact - 1} ELSE {exact}
    BY DEF Positions
  <2> HIDE DEF num, exact, isFloat
  <2> QED BY <2>1, <2>2, <2>3
<1> QED BY <1>1, <1>2 DEF L

(* The real segments and what closes the level.                            *)
ClosedBy(level, segs, n, greatest) ==
  LET c == Len(segs)
  IN IF segs[c].key = Sentinel
       THEN level.segs = segs /\ level.used = c - 1
       ELSE /\ level.segs \in Seq(Lines) /\ level.used = c
            /\ \A i \in 1..c : level.segs[i] = segs[i]
            /\ \/ Len(level.segs) = c + 1
               \/ Len(level.segs) = c + 2 /\ level.segs[c + 1] = Constantly(greatest + 1, n)
            /\ level.segs[Len(level.segs)] = Constantly(Sentinel, n)

LEMMA LevelParts ==
  ASSUME NEW eps \in Nat \ {0}, NEW greatest \in Nat, NEW in, SortedKeys(in),
         NEW segs, segs = MakeSegmentation(in, eps), segs \in Seq(Lines), Len(segs) \in 1..Len(in)
  PROVE  ClosedBy(BuildLevel(in, eps, greatest), segs, Len(in), greatest)
<1> DEFINE level == BuildLevel(in, eps, greatest)
           n == Len(in)
           c == Len(segs)
           extra == IF \E p \in Positions(Last(segs), Sentinel - 1) : p < n
                      THEN <<Constantly(greatest + 1, n)>> ELSE <<>>
           end == <<Constantly(Sentinel, n)>>
           whole == (segs \o extra) \o end
<1>1. c \in Nat /\ c >= 1 /\ c = Len(segs) /\ n \in Nat /\ n = Len(in) /\ Last(segs) = segs[c]
  <2>1. Len(in) \in Nat
    BY DEF SortedKeys
  <2> QED BY <2>1 DEF Last
<1>2. level = IF Last(segs).key = Sentinel THEN [segs |-> segs, used |-> c - 1]
              ELSE [segs |-> whole, used |-> c]
  BY DEF BuildLevel
<1>3. CASE segs[c].key = Sentinel
  <2>1. level = [segs |-> segs, used |-> c - 1]
    BY <1>1, <1>2, <1>3
  <2> HIDE DEF level
  <2>2. level.segs = segs /\ level.used = c - 1
    BY <2>1
  <2> QED BY <1>1, <1>3, <2>2 DEF level, ClosedBy
<1>4. CASE segs[c].key # Sentinel
  <2>1. level = [segs |-> whole, used |-> c]
    BY <1>1, <1>2, <1>4
  <2>2. Constantly(greatest + 1, n) \in Lines /\ Constantly(Sentinel, n) \in Lines
    <3>1. greatest + 1 \in Nat /\ Sentinel \in Nat
      BY SentinelAssumption
    <3> QED BY <1>1, <3>1, ConstantLine
  <2>3. extra = <<>> \/ extra = <<Constantly(greatest + 1, n)>>
    OBVIOUS
  <2> HIDE DEF extra, level, n
  <2>4. extra \in Seq(Lines)
    <3> DEFINE x == Constantly(greatest + 1, n)
    <3>1. <<>> \in Seq(Lines) /\ <<x>> \in Seq(Lines)
      BY <2>2
    <3> HIDE DEF x
    <3> QED BY <2>3, <3>1 DEF x
  <2>5. whole \in Seq(Lines) /\ \A i \in 1..c : whole[i] = segs[i]
    <3>1. end \in Seq(Lines)
      BY <2>2
    <3> QED BY <1>1, <2>4, <3>1
  <2>6. \/ Len(whole) = c + 1
        \/ Len(whole) = c + 2 /\ whole[c + 1] = Constantly(greatest + 1, n)
    <3>1. CASE extra = <<>>
      BY <1>1, <3>1
    <3>2. CASE extra = <<Constantly(greatest + 1, n)>>
      BY <1>1, <3>2
    <3> QED BY <2>3, <3>1, <3>2
  <2>7. whole[Len(whole)] = Constantly(Sentinel, n)
    BY <1>1, <2>4
  <2> HIDE DEF whole
  <2>8. level.segs = whole /\ level.used = c
    BY <2>1
  <2> QED BY <1>1, <1>4, <2>5, <2>6, <2>7, <2>8 DEF level, n, ClosedBy
<1> QED BY <1>3, <1>4

LEMMA LevelPredicts ==
  ASSUME NEW eps \in Nat \ {0}, NEW greatest \in Nat, greatest < Sentinel,
         NEW in, Indexable(in, greatest),
         NEW segs, segs = MakeSegmentation(in, eps), Starts(in, segs), Tracks(in, eps, segs)
  PROVE  Predicts(BuildLevel(in, eps, greatest), in, eps)
<1> DEFINE level == BuildLevel(in, eps, greatest)
           n == Len(in)
           c == Len(segs)
           ls == level.segs
<1>1. SortedKeys(in) /\ n \in Nat /\ n >= 1 /\ n = Len(in) /\ \A i \in 1..n : in[i] \in Nat
  BY DEF Indexable, SortedKeys
<1>2. segs \in Seq(Lines) /\ c \in 1..n /\ c = Len(segs)
  BY DEF Starts
<1>3. IF segs[c].key = Sentinel
        THEN ls = segs /\ level.used = c - 1
        ELSE /\ ls \in Seq(Lines) /\ level.used = c
             /\ \A i \in 1..c : ls[i] = segs[i]
             /\ \/ Len(ls) = c + 1
                \/ Len(ls) = c + 2 /\ ls[c + 1] = Constantly(greatest + 1, n)
             /\ ls[Len(ls)] = Constantly(Sentinel, n)
  <2>1. SortedKeys(in) /\ segs \in Seq(Lines) /\ Len(segs) \in 1..Len(in)
    BY <1>1, <1>2
  <2>2. ClosedBy(BuildLevel(in, eps, greatest), segs, Len(in), greatest)
    BY <2>1, LevelParts
  <2> QED BY ONLY <2>2 DEF ClosedBy
<1> HIDE DEF level, n, c
<1> SUFFICES ASSUME NEW k \in 0..Sentinel-1, NEW r \in Nat, NEW i \in 1..Len(ls)-1,
                    IsPlace(in, k, r), MayServe(level, i, k), NEW pos \in Predicted(ls, i, k)
             PROVE  pos \in Int /\ Near(r, eps, pos) /\ pos <= r + eps
  BY DEF Predicts, level
<1> HIDE DEF ls
<1>4. /\ k \in Nat /\ k < Sentinel /\ Sentinel \in Nat /\ r \in 0..n
      /\ \A j \in 1..n : in[j] < k <=> j <= r
      /\ ls[i].key <= k /\ (i = level.used \/ k < ls[i + 1].key)
  BY <1>1, SentinelAssumption DEF IsPlace, MayServe, ls
<1>5. PICK p \in Positions(ls[i], k) :
        pos = IF p < ls[i + 1].intercept THEN p ELSE ls[i + 1].intercept
  BY DEF Predicted
<1>6. ASSUME NEW t \in 1..c, segs[t].key <= k, t = c \/ k < segs[t + 1].key
      PROVE  /\ t < c => Near(r, eps, segs[t + 1].intercept)
             /\ \A q \in Positions(segs[t], k) :
                  /\ q \in Int /\ Near(r, eps, q)
                  /\ \/ q <= r + eps
                     \/ t < c /\ segs[t + 1].intercept <= r + eps
                     \/ t = c /\ in[n] + 1 < k
  BY <1>1, <1>2, <1>4, <1>6 DEF Tracks
<1>7. \A j \in 1..c : segs[j].key \in Nat /\ segs[j].intercept \in Nat
  BY <1>2, LineTypes
(* Cut off by the line that follows.                                       *)
<1>8. ASSUME NEW t \in 1..c, t < c, ls[i] = segs[t], ls[i + 1] = segs[t + 1],
             segs[t].key <= k, k < segs[t + 1].key
      PROVE  pos \in Int /\ Near(r, eps, pos) /\ pos <= r + eps
  <2> DEFINE w == segs[t + 1].intercept
  <2>1. t + 1 \in 1..c /\ w \in Nat
    BY <1>2, <1>7, <1>8
  <2>2. /\ Near(r, eps, w) /\ p \in Int /\ Near(r, eps, p)
        /\ p <= r + eps \/ w <= r + eps
    BY <1>2, <1>5, <1>6, <1>8
  <2>3. pos = IF p < w THEN p ELSE w
    BY <1>5, <1>8
  <2> HIDE DEF w
  <2>4. CASE p < w
    BY <2>1, <2>2, <2>3, <2>4
  <2>5. CASE ~(p < w)
    BY <2>1, <2>2, <2>3, <2>5
  <2> QED BY <2>4, <2>5
(* Cut off by the number of keys.                                          *)
<1>9. ASSUME ls[i] = segs[c], segs[c].key <= k, ls[i + 1].intercept = n
      PROVE  pos \in Int /\ Near(r, eps, pos) /\ pos <= r + eps
  <2>1. c \in 1..c /\ ~(c < c)
    BY <1>2
  <2>2. /\ p \in Int /\ Near(r, eps, p)
        /\ p <= r + eps \/ in[n] + 1 < k
    BY <1>5, <1>6, <1>9, <2>1
  <2>3. in[n] + 1 < k => n <= r
    BY <1>1, <1>4
  <2>4. pos = IF p < n THEN p ELSE n
    BY <1>5, <1>9
  <2>5. Near(r, eps, n)
    BY <1>1, <1>4 DEF Near
  <2>6. CASE p < n
    BY <1>1, <1>4, <2>2, <2>3, <2>4, <2>6
  <2>7. CASE ~(p < n)
    BY <1>1, <1>4, <2>2, <2>3, <2>4, <2>5, <2>7
  <2> QED BY <2>6, <2>7
<1>10. CASE segs[c].key = Sentinel
  <2>1. ls = segs /\ level.used = c - 1 /\ i \in 1..c-1 /\ i + 1 \in 1..c /\ i \in 1..c /\ i < c
    BY <1>2, <1>3, <1>10
  <2>2. i = c - 1 => segs[i + 1].key = Sentinel
    BY <1>2, <1>10
  <2>3. segs[i].key <= k /\ k < segs[i + 1].key
    BY <1>4, <2>1, <2>2
  <2> QED BY <1>8, <2>1, <2>3
<1>11. CASE segs[c].key # Sentinel
  <2>1. /\ ls \in Seq(Lines) /\ level.used = c
        /\ \A j \in 1..c : ls[j] = segs[j]
        /\ \/ Len(ls) = c + 1
           \/ Len(ls) = c + 2 /\ ls[c + 1] = Constantly(greatest + 1, n)
        /\ ls[Len(ls)] = Constantly(Sentinel, n)
    BY <1>3, <1>11
  <2>2. /\ Constantly(Sentinel, n).intercept = n
        /\ Constantly(greatest + 1, n).intercept = n /\ Constantly(greatest + 1, n).key = greatest + 1
        /\ Positions(Constantly(greatest + 1, n), k) = {n}
    <3>1. greatest + 1 \in Nat
      OBVIOUS
    <3> QED BY SMTT(30), <1>1, <1>4, <3>1, ConstantLine
  <2>3. CASE i < c
    <3>1. i \in 1..c /\ i + 1 \in 1..c /\ i # c
      BY <1>2, <2>3
    <3> QED BY <1>4, <1>8, <2>1, <2>3, <3>1
  <2>4. CASE i = c
    <3>1. ls[c + 1].intercept = n
      BY <1>2, <2>1, <2>2
    <3>2. c \in 1..c
      BY <1>2
    <3> QED BY <1>4, <1>9, <2>1, <2>4, <3>1, <3>2
  <2>5. CASE i > c
    <3>1. i = c + 1 /\ Len(ls) = c + 2
      BY <1>2, <2>1, <2>5
    <3>2. /\ ls[i] = Constantly(greatest + 1, n) /\ ls[i + 1] = Constantly(Sentinel, n)
      <4>1. i + 1 = c + 2
        BY <1>2, <3>1
      <4> QED BY <2>1, <3>1, <4>1, c + 1 # c + 2, <1>2
    <3>3. pos = n /\ greatest + 1 <= k
      BY <1>1, <1>4, <1>5, <2>2, <3>2
    <3>4. n - 1 <= r
      <4>1. CASE n >= 2
        <5>1. in[n - 1] <= greatest /\ n - 1 \in 1..n /\ in[n - 1] \in Nat
          BY <1>1, <4>1 DEF Indexable
        <5>2. in[n - 1] < k
          BY <1>4, <3>3, <5>1
        <5> QED BY <1>4, <5>1, <5>2
      <4>2. CASE n = 1
        BY <1>4, <4>2
      <4> QED BY <1>1, <4>1, <4>2
    <3> QED BY <1>1, <1>4, <3>3, <3>4 DEF Near
  <2>6. c \in Int /\ i \in Int
    BY <1>2
  <2> QED BY <2>3, <2>4, <2>5, <2>6
<1> QED BY <1>10, <1>11

(* What build_level() guarantees: a level that serves its keys, and is     *)
(* fewer keys itself, of which the next level can make the same.           *)
Founded(level, in, eps, greatest) ==
  /\ Serving(level, in, eps)
  /\ Indexable(UsedKeys(level), greatest) /\ Strict(UsedKeys(level))
  /\ level.used \in 1..Len(in)
  /\ Strict(in) /\ Len(in) >= 2 => level.used < Len(in)

LEMMA LevelFounded ==
  ASSUME NEW eps \in Nat \ {0}, NEW greatest \in Nat, greatest < Sentinel,
         NEW in, Indexable(in, greatest)
  PROVE  Founded(BuildLevel(in, eps, greatest), in, eps, greatest)
<1> DEFINE level == BuildLevel(in, eps, greatest)
           n == Len(in)
           segs == MakeSegmentation(in, eps)
           c == Len(segs)
           ls == level.segs
           u == level.used
           up == UsedKeys(level)
<1>1. /\ SortedKeys(in) /\ n \in Nat /\ n >= 1 /\ n = Len(in)
      /\ \A i \in 1..n : in[i] \in Nat
      /\ \A i, j \in 1..n : i <= j => in[i] <= in[j]
      /\ in[n] < Sentinel /\ (n >= 2 => in[n - 1] <= greatest)
      /\ Strict(in) \/ in[n] <= greatest
  BY DEF Indexable, SortedKeys
<1>2. Starts(in, segs) /\ Tracks(in, eps, segs)
  <2>1. Charted(in, Points(in))
    BY <1>1, PointsCharted
  <2>2. PICK seen, b : Lined(in, eps, segs, Points(in), seen, b)
    BY <1>1, Segmenting
  <2> HIDE DEF segs
  <2> QED BY <1>1, <2>1, <2>2, SegmentStarts, SegmentTracks
<1>3. Predicts(level, in, eps)
  BY <1>2, LevelPredicts
<1>4. /\ segs \in Seq(Lines) /\ c \in 1..n /\ c = Len(segs) /\ segs[1].key = in[1]
      /\ \A i, j \in 1..c : i < j => segs[i].key < segs[j].key
      /\ \A i \in 1..c : segs[i].key <= in[n] + 1
      /\ Strict(in) /\ n >= 2 => c < n /\ \A i \in 1..c-1 : segs[i].key <= in[n - 1]
  BY <1>2 DEF Starts
<1>5. ClosedBy(level, segs, n, greatest)
  BY <1>1, <1>4, LevelParts
<1> HIDE DEF level, n, segs, c
<1>6. Sentinel \in Nat /\ \A i \in 1..c : segs[i].key \in Nat
  BY <1>4, LineTypes, SentinelAssumption
<1>7. /\ ls \in Seq(Lines) /\ u \in 1..c /\ u <= Len(ls) - 1 /\ Len(ls) \in Nat
      /\ \A i \in 1..u : ls[i] = segs[i]
      /\ ls[Len(ls)].key = Sentinel
      /\ segs[u].key < Sentinel
  <2>1. CASE segs[c].key = Sentinel
    <3>1. ls = segs /\ u = c - 1
      BY <1>4, <1>5, <2>1 DEF ClosedBy
    <3>2. c # 1
      <4>1. in[1] <= in[n] /\ in[1] \in Nat /\ in[n] \in Nat
        BY <1>1
      <4> QED BY <1>1, <1>4, <1>6, <2>1, <4>1
    <3>3. c - 1 \in 1..c /\ c \in 1..c /\ c - 1 < c
      BY <1>4, <3>2
    <3>4. segs[c - 1].key < Sentinel
      BY <1>4, <2>1, <3>3
    <3> QED BY <1>4, <2>1, <3>1, <3>3, <3>4
  <2>2. CASE segs[c].key # Sentinel
    <3>1. /\ ls \in Seq(Lines) /\ u = c
          /\ \A i \in 1..c : ls[i] = segs[i]
          /\ Len(ls) = c + 1 \/ Len(ls) = c + 2
          /\ ls[Len(ls)] = Constantly(Sentinel, n)
      BY <1>4, <1>5, <2>2 DEF ClosedBy
    <3>2. c \in 1..c
      BY <1>4
    <3>3. segs[c].key <= in[n] + 1 /\ in[n] \in Nat /\ segs[c].key \in Nat
      BY <1>1, <1>4, <1>6, <3>2
    <3>4. segs[c].key < Sentinel
      BY <1>1, <1>6, <2>2, <3>3
    <3>5. ls[Len(ls)].key = Sentinel
      BY <1>1, <1>6, <3>1, ConstantLine
    <3> QED BY <1>4, <3>1, <3>2, <3>4, <3>5
  <2> QED BY <2>1, <2>2
<1> HIDE DEF ls, u
<1>8. \A i, j \in 1..u : i < j => ls[i].key < ls[j].key
  BY <1>4, <1>7
<1>9. Serving(level, in, eps)
  <2>1. u \in 1..Len(ls)-1 /\ ls[1].key = in[1]
    BY <1>4, <1>7
  <2> QED BY <1>3, <1>7, <1>8, <2>1 DEF Serving, ls, u
<1>10. /\ up = [i \in 1..u |-> ls[i].key]
       /\ \A i \in 1..u : ls[i].key \in Nat
  BY <1>4, <1>6, <1>7 DEF UsedKeys, ls, u
<1> HIDE DEF up
<1>11. up \in Seq(Nat) /\ Len(up) = u /\ u \in Nat /\ u >= 1 /\ \A i \in 1..u : up[i] = ls[i].key
  BY <1>4, <1>7, <1>10
<1>12. Strict(up)
  BY <1>8, <1>11 DEF Strict
<1>13. SortedKeys(up)
  <2>1. \A i, j \in 1..u : i <= j => up[i] <= up[j]
    <3> TAKE i, j \in 1..u
    <3> HAVE i <= j
    <3>1. i = j \/ i < j
      OBVIOUS
    <3>2. up[i] = up[j] \/ up[i] < up[j]
      BY <1>8, <1>11, <3>1
    <3>3. up[i] \in Nat /\ up[j] \in Nat
      BY <1>10, <1>11
    <3> QED BY <3>2, <3>3
  <2> QED BY <1>11, <2>1 DEF SortedKeys
<1>14. up[u] < Sentinel
  <2>1. u \in 1..u
    BY <1>11
  <2> QED BY <1>7, <1>11, <2>1
<1>15. ASSUME u >= 2 PROVE up[u - 1] <= greatest
  <2>1. u - 1 \in 1..u /\ u \in 1..u /\ u - 1 < u /\ u - 1 \in 1..c-1 /\ n >= 2
    BY <1>1, <1>4, <1>7, <1>11, <1>15
  <2>2. /\ up[u - 1] = segs[u - 1].key /\ up[u] = segs[u].key
        /\ up[u - 1] < up[u] /\ up[u - 1] \in Nat /\ up[u] \in Nat
    BY <1>7, <1>8, <1>10, <1>11, <2>1
  <2>3. CASE Strict(in)
    <3>1. segs[u - 1].key <= in[n - 1] /\ in[n - 1] <= greatest
      BY <1>1, <1>4, <2>1, <2>3
    <3>2. in[n - 1] \in Nat
      BY <1>1, <2>1
    <3> QED BY <2>2, <3>1, <3>2
  <2>4. CASE in[n] <= greatest
    <3>1. segs[u].key <= in[n] + 1 /\ in[n] \in Nat
      BY <1>1, <1>4, <1>7
    <3> QED BY <2>2, <2>4, <3>1
  <2> QED BY <1>1, <2>3, <2>4
<1>16. Indexable(up, greatest)
  BY <1>11, <1>12, <1>13, <1>14, <1>15 DEF Indexable
<1>17. u \in 1..n /\ (Strict(in) /\ n >= 2 => u < n)
  BY <1>1, <1>4, <1>7
<1> QED BY <1>9, <1>12, <1>16, <1>17 DEF Founded, up, u, n, level

-----------------------------------------------------------------------------
(* The levels, each over the keys of the one below.                        *)
LevelsOf(greatest) == {BuildLevel(in, eps, greatest) : in \in Seq(Nat), eps \in Nat}

KeysUnder(levels, keys, j) == IF j = 1 THEN keys ELSE UsedKeys(levels[j - 1])
EpsilonOf(j) == IF j = 1 THEN Epsilon ELSE EpsilonRecursive

Stacked(levels, keys, greatest) ==
  /\ levels \in Seq(LevelsOf(greatest)) /\ Len(levels) >= 1
  /\ \A j \in 1..Len(levels) :
       Founded(levels[j], KeysUnder(levels, keys, j), EpsilonOf(j), greatest)

LEMMA FirstStacked ==
  ASSUME NEW greatest \in Nat, greatest < Sentinel, NEW keys, Indexable(keys, greatest)
  PROVE  LET first == BuildLevel(keys, Epsilon, greatest)
         IN Stacked(<<first>>, keys, greatest) /\ Last(<<first>>).used \in 1..Len(keys)
<1> DEFINE first == BuildLevel(keys, Epsilon, greatest)
           levels == <<first>>
<1>1. Epsilon \in Nat \ {0} /\ Epsilon \in Nat /\ keys \in Seq(Nat)
  BY EpsilonAssumption DEF Indexable, SortedKeys
<1>2. Founded(first, keys, Epsilon, greatest)
  BY <1>1, LevelFounded
<1>3. first \in LevelsOf(greatest)
  BY <1>1 DEF LevelsOf
<1> HIDE DEF first
<1>4. levels \in Seq(LevelsOf(greatest)) /\ Len(levels) = 1 /\ levels[1] = first /\ Last(levels) = first
  BY <1>3 DEF Last
<1> HIDE DEF levels
<1>5. KeysUnder(levels, keys, 1) = keys /\ EpsilonOf(1) = Epsilon
  BY DEF KeysUnder, EpsilonOf
<1>6. Stacked(levels, keys, greatest)
  BY <1>2, <1>4, <1>5 DEF Stacked
<1> QED BY <1>2, <1>4, <1>6 DEF Founded, first, levels

LEMMA RaisedStacked ==
  ASSUME NEW greatest \in Nat, greatest < Sentinel, NEW keys, NEW levels,
         Stacked(levels, keys, greatest)
  PROVE  /\ Stacked(Raised(levels, greatest), keys, greatest)
         /\ Last(levels).used <= 1 => Raised(levels, greatest) = levels
         /\ Last(levels).used > 1 =>
              Last(Raised(levels, greatest)).used \in 1..Last(levels).used-1
<1> DEFINE m == Len(levels)
           top == Last(levels)
           in == UsedKeys(top)
           new == BuildLevel(in, EpsilonRecursive, greatest)
           raised == Append(levels, new)
<1>1. levels \in Seq(LevelsOf(greatest)) /\ m \in Nat /\ m >= 1 /\ m \in 1..m /\ top = levels[m]
      /\ m = Len(levels)
  BY DEF Stacked, Last
<1>2. \A j \in 1..m : Founded(levels[j], KeysUnder(levels, keys, j), EpsilonOf(j), greatest)
  BY DEF Stacked
<1>3. Raised(levels, greatest) = IF top.used <= 1 THEN levels ELSE raised
  BY DEF Raised, UsedKeys
<1>4. Indexable(in, greatest) /\ Strict(in) /\ top.used \in Nat
  <2>1. Founded(top, KeysUnder(levels, keys, m), EpsilonOf(m), greatest)
    BY <1>1, <1>2
  <2> HIDE DEF top
  <2>2. Indexable(in, greatest) /\ Strict(in) /\ Serving(top, KeysUnder(levels, keys, m), EpsilonOf(m))
    BY <2>1 DEF Founded
  <2>3. top.segs \in Seq(Lines) /\ top.used \in 1..Len(top.segs)-1
    BY <2>2 DEF Serving
  <2> QED BY <2>2, <2>3
<1>5. CASE top.used <= 1
  BY <1>3, <1>4, <1>5
<1>6. CASE ~(top.used <= 1)
  <2>1. Len(in) = top.used /\ in \in Seq(Nat)
    <3>1. in = [i \in 1..top.used |-> top.segs[i].key]
      BY DEF UsedKeys
    <3> HIDE DEF in
    <3>2. in \in Seq(Nat)
      BY <1>4 DEF Indexable, SortedKeys
    <3> HIDE DEF top
    <3> QED BY <1>4, <3>1, <3>2
  <2>2. EpsilonRecursive \in Nat \ {0} /\ EpsilonRecursive \in Nat
    BY EpsilonAssumption
  <2>3. new \in LevelsOf(greatest) /\ Founded(new, in, EpsilonRecursive, greatest)
    BY <1>4, <2>1, <2>2, LevelFounded DEF LevelsOf
  <2> HIDE DEF new, m, top, in
  <2>4. /\ raised \in Seq(LevelsOf(greatest)) /\ Len(raised) = m + 1 /\ raised[m + 1] = new
        /\ \A j \in 1..m : raised[j] = levels[j]
    BY ONLY <1>1, <2>3, AppendProperties DEF raised
  <2>5. Last(raised) = new
    BY <2>4 DEF Last
  <2> HIDE DEF raised
  <2>6. ASSUME NEW j \in 1..m+1
        PROVE  Founded(raised[j], KeysUnder(raised, keys, j), EpsilonOf(j), greatest)
    <3>1. CASE j = m + 1
      <4>1. j # 1 /\ j - 1 = m /\ raised[j - 1] = top
        BY <1>1, <2>4, <3>1
      <4>2. KeysUnder(raised, keys, j) = in /\ EpsilonOf(j) = EpsilonRecursive
        BY <4>1 DEF KeysUnder, EpsilonOf, in
      <4> QED BY <2>3, <2>4, <3>1, <4>2
    <3>2. CASE j \in 1..m
      <4>1. j # 1 => raised[j - 1] = levels[j - 1]
        <5>1. j # 1 => j - 1 \in 1..m
          BY <1>1, <3>2
        <5> QED BY <2>4, <5>1
      <4>2. KeysUnder(raised, keys, j) = KeysUnder(levels, keys, j)
        BY <4>1 DEF KeysUnder
      <4> QED BY <1>2, <2>4, <3>2, <4>2
    <3>3. j = m + 1 \/ j \in 1..m
      BY <1>1
    <3> QED BY <3>1, <3>2, <3>3
  <2>7. Stacked(raised, keys, greatest)
    <3>1. Len(raised) >= 1
      BY <1>1, <2>4
    <3> QED BY <2>4, <2>6, <3>1 DEF Stacked
  <2>8. new.used \in 1..top.used-1
    <3>1. new.used \in 1..Len(in) /\ (Len(in) >= 2 => new.used < Len(in))
      BY <1>4, <2>3 DEF Founded
    <3> QED BY <1>4, <1>6, <2>1, <3>1
  <2> QED BY <1>3, <1>6, <2>5, <2>7, <2>8 DEF top
<1> QED BY <1>5, <1>6

(* build() ends with a level of one segment.                               *)
LEMMA LevelsStacked ==
  ASSUME NEW keys, Indexable(keys, Last(keys))
  PROVE  \E levels : /\ Stacked(levels, keys, Last(keys))
                     /\ Last(levels).used = 1
                     /\ LevelsOver(keys) = [l \in DOMAIN levels |-> levels[l].segs]
<1> DEFINE n == Len(keys)
           g == Last(keys)
           first == <<BuildLevel(keys, Epsilon, g)>>
           Equation(h) == h = [l \in 1..n |-> IF l = 1 THEN first ELSE Raised(h[l-1], g)]
           raised == CHOOSE h : Equation(h)
           V == {levels \in Seq(LevelsOf(g)) : Stacked(levels, keys, g)}
           F == [p \in V \X (2..n) |-> Raised(p[1], g)]
<1>1. n \in Nat /\ n >= 1 /\ g = keys[n] /\ g \in Nat /\ g < Sentinel
  <2>1. SortedKeys(keys) /\ keys[Len(keys)] < Sentinel
    BY DEF Indexable
  <2> QED BY <2>1 DEF SortedKeys, Last
<1>2. LevelsOver(keys) = LET levels == raised[n] IN [l \in DOMAIN levels |-> levels[l].segs]
  BY DEF LevelsOver
<1>3. Stacked(first, keys, g) /\ Last(first).used \in 1..n
  <2>1. Indexable(keys, g)
    OBVIOUS
  <2> HIDE DEF g
  <2> QED BY <1>1, <2>1, FirstStacked
<1> HIDE DEF n, g, first
<1>4. \A v \in V : /\ Raised(v, g) \in V
                   /\ Last(v).used <= 1 => Raised(v, g) = v
                   /\ Last(v).used > 1 => Last(Raised(v, g)).used \in 1..Last(v).used-1
  <2> TAKE v \in V
  <2>1. Stacked(v, keys, g)
    OBVIOUS
  <2>2. /\ Stacked(Raised(v, g), keys, g)
        /\ Last(v).used <= 1 => Raised(v, g) = v
        /\ Last(v).used > 1 => Last(Raised(v, g)).used \in 1..Last(v).used-1
    BY <1>1, <2>1, RaisedStacked
  <2>3. Raised(v, g) \in Seq(LevelsOf(g))
    BY <2>2 DEF Stacked
  <2> QED BY <2>2, <2>3
<1>5. first \in V
  BY <1>3 DEF Stacked
<1> HIDE DEF V
<1>6. F \in [V \X (2..n) -> V]
  BY <1>4
<1>7. PICK f \in [1..n -> V] : Follows(f, F, first, 1, n)
  <2>1. n \in Int /\ 1 \in Int /\ 1 <= n /\ 2..n = 1+1..n
    BY <1>1
  <2> HIDE DEF F
  <2> QED BY ONLY <1>5, <1>6, <2>1, Iteration
<1>8. f[1] = first /\ \A l \in 2..n : f[l] = Raised(f[l-1], g)
  <2>1. \A l \in 2..n : f[l-1] \in V
    BY <1>1
  <2>2. \A l \in 2..n : F[<<f[l-1], l>>] = Raised(f[l-1], g)
    BY <2>1
  <2>3. f[1] = first /\ \A l \in 2..n : f[l] = F[<<f[l-1], l>>]
    <3>1. 1+1..n = 2..n
      OBVIOUS
    <3> HIDE DEF F
    <3> QED BY <1>7, <3>1 DEF Follows
  <2> HIDE DEF F
  <2> QED BY <2>2, <2>3
<1>9. Equation(f)
  <2>1. \A l \in 1..n : l = 1 \/ l \in 2..n
    BY <1>1
  <2>2. \A l \in 1..n : f[l] = IF l = 1 THEN first ELSE Raised(f[l-1], g)
    BY <1>8, <2>1
  <2> QED BY <2>2
<1>10. Equation(raised)
  <2> HIDE DEF Equation
  <2> QED BY <1>9
<1> HIDE DEF raised
<1>11. raised[1] = first /\ \A l \in 2..n : raised[l] = Raised(raised[l-1], g)
  BY <1>1, <1>10
<1> DEFINE T == {l \in 1..n : /\ raised[l] \in V /\ Last(raised[l]).used \in Nat \ {0}
                              /\ \/ Last(raised[l]).used <= 1
                                 \/ Last(raised[l]).used <= (n - l) + 1}
<1>12. 1 \in T
  BY <1>1, <1>3, <1>5, <1>11
<1>13. ASSUME NEW l \in 1+1..n, l - 1 \in T PROVE l \in T
  <2> DEFINE v == raised[l - 1]
             a == Last(v).used
             w == raised[l]
             b == Last(w).used
  <2>1. l \in 2..n /\ l \in 1..n
    BY <1>1
  <2>2. v \in V /\ a \in Nat \ {0} /\ (a <= 1 \/ a <= (n - (l - 1)) + 1)
    BY <1>13
  <2>3. w = Raised(v, g)
    BY <1>11, <2>1
  <2>4. w \in V /\ (a <= 1 => w = v) /\ (a > 1 => b \in 1..a-1)
    BY <1>4, <2>2, <2>3
  <2>5. a <= 1 => b = a
    BY <2>4
  <2> HIDE DEF v, w, a, b
  <2>6. b \in Nat \ {0} /\ (b <= 1 \/ b <= (n - l) + 1)
    BY <1>1, <2>1, <2>2, <2>4, <2>5
  <2> QED BY <2>1, <2>4, <2>6 DEF w, b
<1>14. n \in T
  <2>1. 1 \in Int /\ n \in Int /\ n \in 1..n
    BY <1>1
  <2> HIDE DEF T
  <2>2. 1..n \subseteq T
    BY ONLY <1>12, <1>13, <2>1, IntervalInduction
  <2> QED BY <2>1, <2>2
<1>15. raised[n] \in V /\ Last(raised[n]).used = 1
  BY <1>1, <1>14
<1>16. Stacked(raised[n], keys, g)
  BY <1>15 DEF V
<1> QED BY <1>2, <1>15, <1>16 DEF g

-----------------------------------------------------------------------------
(* The search, from the last level down.                                   *)
LEMMA HasPlace ==
  ASSUME NEW in, SortedKeys(in), NEW k \in Nat
  PROVE  \E r \in Nat : IsPlace(in, k, r)
<1> DEFINE n == Len(in)
           T == {i \in 1..n : ~(in[i] < k)}
<1>1. /\ n \in Nat /\ n = Len(in) /\ \A i \in 1..n : in[i] \in Nat
      /\ \A i, j \in 1..n : i <= j => in[i] <= in[j]
  BY DEF SortedKeys
<1> HIDE DEF n
<1>2. CASE T = {}
  <2>1. IsPlace(in, k, n)
    BY <1>1, <1>2 DEF IsPlace
  <2> QED BY <1>1, <2>1
<1>3. CASE T # {}
  <2>1. PICK x \in T : \A y \in T : x <= y
    <3>1. T \subseteq Nat
      OBVIOUS
    <3> HIDE DEF T
    <3> QED BY <1>3, <3>1, LeastNat
  <2> DEFINE r == x - 1
  <2>2. x \in 1..n /\ ~(in[x] < k) /\ r \in 0..n /\ r \in Nat
    BY <1>1, <2>1
  <2>3. ASSUME NEW i \in 1..n PROVE in[i] < k <=> i <= r
    <3>1. i <= r => i \notin T
      BY <2>1, <2>2
    <3>2. ~(i <= r) => in[x] <= in[i]
      BY <1>1, <2>2
    <3>3. in[x] \in Nat /\ in[i] \in Nat
      BY <1>1, <2>2
    <3> QED BY <2>2, <3>1, <3>2, <3>3
  <2> HIDE DEF r
  <2> QED BY <1>1, <2>2, <2>3 DEF IsPlace
<1> QED BY <1>2, <1>3

(* The scan of a level starts before the segment it looks for.             *)
LEMMA ScanServes ==
  ASSUME NEW level, level.segs \in Seq(Lines), level.used \in 1..Len(level.segs)-1,
         level.segs[Len(level.segs)].key = Sentinel,
         NEW k \in 0..Sentinel-1, level.segs[1].key <= k,
         NEW r \in Nat, IsPlace(UsedKeys(level), k, r),
         NEW pos \in Int, pos <= r + EpsilonRecursive
  PROVE  MayServe(level, Scan(level.segs, pos, k), k)
<1> DEFINE ls == level.segs
           m == Len(ls)
           u == level.used
           up == UsedKeys(level)
           start == SubEps(pos, EpsilonRecursive + 1) + 1
           S == {i \in start..m-1 : ls[i + 1].key > k}
           t == Min(S)
<1>1. /\ m \in Nat /\ u \in 1..m-1 /\ \A i \in 1..m : ls[i].key \in Nat
      /\ ls[m].key = Sentinel /\ ls[1].key <= k /\ k \in Nat /\ k < Sentinel /\ Sentinel \in Nat
  <2>1. m \in Nat /\ \A i \in 1..m : ls[i].key \in Nat
    BY LineTypes
  <2> QED BY <2>1, SentinelAssumption
<1>2. up = [i \in 1..u |-> ls[i].key]
  BY DEF UsedKeys
<1>3. IsPlace(up, k, r) /\ Scan(ls, pos, k) = t
  BY DEF Scan
<1> HIDE DEF ls, m, u, up
<1>4. Len(up) = u
  <2>1. up \in Seq(Nat)
    BY <1>1, <1>2
  <2> QED BY <1>1, <1>2, <2>1
<1>5. r <= u /\ \A i \in 1..u : i <= r => ls[i].key < k
  <2>1. u \in Nat /\ \A i \in 1..u : up[i] = ls[i].key
    BY <1>1, <1>2
  <2>2. r \in 0..u /\ \A i \in 1..u : up[i] < k <=> i <= r
    BY <1>3, <1>4 DEF IsPlace
  <2> QED BY <2>1, <2>2
<1>6. start \in Nat /\ start >= 1 /\ (start = 1 \/ start <= r)
  BY EpsilonAssumption DEF SubEps
<1> HIDE DEF start
<1>7. start \in 1..m-1 /\ ls[start].key <= k
  <2>1. start \in 1..u
    BY <1>1, <1>5, <1>6
  <2>2. start = 1 \/ ls[start].key < k
    BY <1>5, <1>6, <2>1
  <2>3. start \in 1..m-1 /\ start \in 1..m
    BY <1>1, <2>1
  <2>4. ls[start].key \in Nat
    BY <1>1, <2>3
  <2> QED BY <1>1, <2>2, <2>3, <2>4
<1>8. t \in S /\ \A i \in S : t <= i
  <2>1. m - 1 \in S
    <3>1. m - 1 \in start..m-1 /\ (m - 1) + 1 = m
      BY <1>1, <1>6, <1>7
    <3> QED BY <1>1, <3>1
  <2>2. S \subseteq start..m-1 /\ start \in Int /\ m - 1 \in Int
    BY <1>1, <1>6
  <2>3. S # {}
    <3> HIDE DEF S
    <3> QED BY <2>1
  <2> HIDE DEF S
  <2> QED BY ONLY <2>2, <2>3, MinOfInterval
<1>9. t \in start..m-1 /\ t \in 1..m-1 /\ k < ls[t + 1].key
  BY <1>1, <1>7, <1>8
<1>10. ls[t].key <= k
  <2>1. CASE t = start
    BY <1>7, <2>1
  <2>2. CASE t # start
    <3>1. t - 1 \in start..m-1 /\ (t - 1) + 1 = t /\ t \in 1..m
      BY <1>1, <1>6, <1>9, <2>2
    <3>2. t - 1 \notin S
      <4> HIDE DEF S, t
      <4> QED BY <1>8, <1>9, <3>1
    <3> QED BY SMTT(30), <1>1, <3>1, <3>2
  <2> QED BY <2>1, <2>2
<1> HIDE DEF t
<1> QED BY <1>3, <1>9, <1>10 DEF MayServe, ls, m

LEMMA FirstKeys ==
  ASSUME NEW keys, NEW greatest, NEW levels, Stacked(levels, keys, greatest)
  PROVE  \A j \in 1..Len(levels) : levels[j].segs[1].key = keys[1]
<1> DEFINE m == Len(levels)
           T == {j \in 1..m : levels[j].segs[1].key = keys[1]}
<1>1. /\ m \in Nat /\ m >= 1 /\ m = Len(levels)
      /\ \A j \in 1..m : Founded(levels[j], KeysUnder(levels, keys, j), EpsilonOf(j), greatest)
  BY DEF Stacked
<1> HIDE DEF m
<1>2. ASSUME NEW j \in 1..m
      PROVE  /\ levels[j].segs[1].key = KeysUnder(levels, keys, j)[1]
             /\ UsedKeys(levels[j])[1] = levels[j].segs[1].key
  <2> DEFINE level == levels[j]
             in == KeysUnder(levels, keys, j)
  <2>1. Serving(level, in, EpsilonOf(j))
    BY <1>1 DEF Founded
  <2> HIDE DEF level, in
  <2>2. level.segs[1].key = in[1] /\ level.segs \in Seq(Lines) /\ level.used \in 1..Len(level.segs)-1
    BY <2>1 DEF Serving
  <2>3. 1 \in 1..level.used
    BY <2>2
  <2>4. UsedKeys(level)[1] = level.segs[1].key
    BY <2>3 DEF UsedKeys
  <2> QED BY <2>2, <2>4 DEF level, in
<1>3. 1 \in T
  BY <1>1, <1>2 DEF KeysUnder
<1>4. ASSUME NEW j \in 1+1..m, j - 1 \in T PROVE j \in T
  <2>1. j \in 1..m /\ j - 1 \in 1..m /\ j # 1
    BY <1>1
  <2> QED BY <1>2, <1>4, <2>1 DEF KeysUnder
<1>5. 1 \in Int /\ m \in Int
  BY <1>1
<1> HIDE DEF T
<1>6. 1..m \subseteq T
  BY ONLY <1>3, <1>4, <1>5, IntervalInduction
<1> QED BY <1>6 DEF T, m

(* One level down.                                                         *)
Down(levels, k, l, from) ==
  {Scan(levels[l].segs, pos, k) :
     pos \in UNION {Predicted(levels[l + 1].segs, i, k) : i \in from}}

LEMMA DownServes ==
  ASSUME NEW keys, NEW greatest, NEW levels, Stacked(levels, keys, greatest),
         NEW k \in 0..Sentinel-1, keys[1] <= k, NEW l \in 1..Len(levels)-1,
         NEW from, \A i \in from : MayServe(levels[l + 1], i, k),
         NEW t \in Down(levels, k, l, from)
  PROVE  MayServe(levels[l], t, k)
<1> DEFINE level == levels[l]
           above == levels[l + 1]
           in == UsedKeys(level)
           e == EpsilonRecursive
<1>1. /\ l \in 1..Len(levels) /\ l + 1 \in 1..Len(levels) /\ l + 1 # 1 /\ (l + 1) - 1 = l
      /\ \A j \in 1..Len(levels) :
           Founded(levels[j], KeysUnder(levels, keys, j), EpsilonOf(j), greatest)
  BY DEF Stacked
<1>2. KeysUnder(levels, keys, l + 1) = in /\ EpsilonOf(l + 1) = e
  BY <1>1 DEF KeysUnder, EpsilonOf
<1>3. Founded(above, in, e, greatest)
  <2>1. Founded(levels[l + 1], KeysUnder(levels, keys, l + 1), EpsilonOf(l + 1), greatest)
    BY <1>1
  <2> QED BY <1>2, <2>1
<1>4. Founded(level, KeysUnder(levels, keys, l), EpsilonOf(l), greatest) /\ level.segs[1].key = keys[1]
  BY <1>1, FirstKeys
<1>5. PICK i \in from : \E pos \in Predicted(above.segs, i, k) : t = Scan(level.segs, pos, k)
  BY DEF Down
<1>6. MayServe(above, i, k)
  OBVIOUS
<1>7. PICK pos \in Predicted(above.segs, i, k) : t = Scan(level.segs, pos, k)
  BY <1>5
<1> HIDE DEF level, above, in, e
<1>8. SortedKeys(in) /\ k \in Nat
  BY <1>4, SentinelAssumption DEF Founded, Indexable, in
<1>9. PICK r \in Nat : IsPlace(in, k, r)
  BY <1>8, HasPlace
<1>10. pos \in Int /\ pos <= r + e
  <2>1. Predicts(above, in, e)
    BY <1>3 DEF Founded, Serving
  <2>2. i \in 1..Len(above.segs)-1
    BY <1>6 DEF MayServe
  <2> QED BY <1>6, <1>7, <1>9, <2>1, <2>2 DEF Predicts
<1>11. /\ level.segs \in Seq(Lines) /\ level.used \in 1..Len(level.segs)-1
       /\ level.segs[Len(level.segs)].key = Sentinel /\ level.segs[1].key <= k
  BY <1>4 DEF Founded, Serving
<1>12. MayServe(level, Scan(level.segs, pos, k), k)
  <2>1. IsPlace(UsedKeys(level), k, r) /\ pos <= r + EpsilonRecursive
    BY <1>9, <1>10 DEF in, e
  <2> QED BY <1>10, <1>11, <2>1, ScanServes
<1> QED BY <1>7, <1>12 DEF level

(* Wherever the search ends, that segment serves.                          *)
LEMMA SearchServes ==
  ASSUME NEW keys, NEW greatest, NEW levels, Stacked(levels, keys, greatest),
         Last(levels).used = 1,
         NEW pgm, pgm.levels = [l \in DOMAIN levels |-> levels[l].segs],
         NEW k \in 0..Sentinel-1, keys[1] <= k
  PROVE  \A i \in SegmentForKey(pgm, k) : MayServe(levels[1], i, k)
<1> DEFINE top == Len(pgm.levels)
           Scans(h, l) == {Scan(pgm.levels[l], pos, k) :
                              pos \in UNION {Predicted(pgm.levels[l + 1], i, k) : i \in h[l + 1]}}
           Equation(h) == h = [l \in 1..top |-> IF l = top THEN {1} ELSE Scans(h, l)]
           at == CHOOSE h : Equation(h)
           level(j) == (top + 1) - j
           Serve(s, l) == \A i \in s : MayServe(levels[l], i, k)
           Step(s, j) == Down(levels, k, level(j), s)
           V == SUBSET Nat
           F == [p \in V \X (2..top) |-> IF Step(p[1], p[2]) \in V THEN Step(p[1], p[2]) ELSE {}]
<1>1. /\ Len(levels) \in Nat /\ Len(levels) >= 1 /\ DOMAIN levels = 1..Len(levels)
  BY DEF Stacked
<1>2. top = Len(levels) /\ \A l \in 1..top : pgm.levels[l] = levels[l].segs
  <2>1. DOMAIN pgm.levels = 1..Len(levels)
    BY <1>1
  <2>2. Len(pgm.levels) = Len(levels)
    BY <1>1, <2>1
  <2> QED BY <1>1, <2>2
<1>3. SegmentForKey(pgm, k) = at[1]
  BY DEF SegmentForKey
<1>4. top \in Nat /\ top >= 1
  BY <1>1, <1>2
<1> HIDE DEF top
<1>5. \A h : \A l \in 1..top-1 : Scans(h, l) = Down(levels, k, l, h[l + 1])
  <2> TAKE h
  <2> TAKE l \in 1..top-1
  <2>1. l \in 1..top /\ l + 1 \in 1..top
    BY <1>4
  <2>2. pgm.levels[l] = levels[l].segs /\ pgm.levels[l + 1] = levels[l + 1].segs
    BY <1>2, <2>1
  <2> QED BY <2>2 DEF Down
<1> HIDE DEF Scans
<1>6. Serve({1}, top)
  <2> DEFINE last == levels[top]
  <2>1. top \in 1..Len(levels) /\ Last(levels) = last /\ last.segs[1].key = keys[1]
    BY <1>2, <1>4, FirstKeys DEF Last
  <2>2. Founded(last, KeysUnder(levels, keys, top), EpsilonOf(top), greatest)
    BY <2>1 DEF Stacked
  <2>3. last.used \in 1..Len(last.segs)-1 /\ last.used = 1
    BY <2>1, <2>2 DEF Founded, Serving
  <2> HIDE DEF last
  <2>4. MayServe(last, 1, k)
    BY <2>1, <2>3 DEF MayServe
  <2> QED BY <2>4 DEF last
<1>7. ASSUME NEW l \in 1..top-1, NEW s, Serve(s, l + 1)
      PROVE  Serve(Down(levels, k, l, s), l)
  <2>1. l \in 1..Len(levels)-1
    BY <1>2
  <2> QED BY <1>7, <2>1, DownServes
<1>8. \A s, l : Serve(s, l) => s \in V
  BY DEF MayServe
<1> HIDE DEF Serve, V, Step
<1>9. F \in [V \X (2..top) -> V]
  <2>1. {} \in V
    BY DEF V
  <2> QED BY <2>1
<1>10. PICK f \in [1..top -> V] : Follows(f, F, {1}, 1, top)
  <2>1. top \in Int /\ 1 \in Int /\ 1 <= top /\ 2..top = 1+1..top /\ {1} \in V
    BY <1>4 DEF V
  <2> HIDE DEF F
  <2> QED BY ONLY <1>9, <2>1, Iteration
<1>11. /\ f[1] = {1}
       /\ \A j \in 2..top : f[j] = IF Step(f[j - 1], j) \in V THEN Step(f[j - 1], j) ELSE {}
  <2>1. \A j \in 2..top : f[j-1] \in V
    BY <1>4
  <2>2. \A j \in 2..top : F[<<f[j-1], j>>] = IF Step(f[j - 1], j) \in V THEN Step(f[j - 1], j) ELSE {}
    BY <2>1
  <2>3. f[1] = {1} /\ \A j \in 2..top : f[j] = F[<<f[j-1], j>>]
    <3>1. 1+1..top = 2..top
      OBVIOUS
    <3> HIDE DEF F
    <3> QED BY <1>10, <3>1 DEF Follows
  <2> HIDE DEF F
  <2> QED BY <2>2, <2>3
<1> DEFINE T == {j \in 1..top : Serve(f[j], level(j))}
<1>12. 1 \in T
  <2>1. level(1) = top /\ 1 \in 1..top
    BY <1>4
  <2> QED BY <1>6, <1>11, <2>1
<1>13. ASSUME NEW j \in 2..top, Serve(f[j - 1], level(j - 1))
       PROVE  f[j] = Step(f[j - 1], j) /\ Serve(f[j], level(j))
  <2>1. level(j) \in 1..top-1 /\ level(j) + 1 = level(j - 1)
    BY <1>4
  <2> HIDE DEF level
  <2>2. Serve(Step(f[j - 1], j), level(j))
    BY <1>7, <1>13, <2>1 DEF Step
  <2>3. f[j] = Step(f[j - 1], j)
    BY <1>8, <1>11, <2>2
  <2> QED BY <2>2, <2>3
<1>14. ASSUME NEW j \in 1+1..top, j - 1 \in T PROVE j \in T
  <2>1. j \in 2..top /\ j \in 1..top
    BY <1>4
  <2>2. Serve(f[j - 1], level(j - 1))
    BY <1>14
  <2>3. Serve(f[j], level(j))
    BY <1>13, <2>1, <2>2
  <2> QED BY <2>1, <2>3
<1>15. 1 \in Int /\ top \in Int
  BY <1>4
<1> HIDE DEF T
<1>16. 1..top \subseteq T
  BY ONLY <1>12, <1>14, <1>15, IntervalInduction
<1>17. \A j \in 2..top : f[j] = Step(f[j - 1], j)
  <2> TAKE j \in 2..top
  <2>1. j - 1 \in 1..top
    BY <1>4
  <2>2. Serve(f[j - 1], level(j - 1))
    BY <1>16, <2>1 DEF T
  <2> QED BY <1>13, <2>2
<1> DEFINE h == [l \in 1..top |-> f[level(l)]]
<1>18. Equation(h)
  <2>1. h[top] = {1}
    <3>1. top \in 1..top /\ level(top) = 1
      BY <1>4
    <3> QED BY <1>11, <3>1
  <2>2. ASSUME NEW l \in 1..top-1 PROVE h[l] = Scans(h, l)
    <3>1. /\ l \in 1..top /\ l + 1 \in 1..top /\ level(l) \in 2..top
          /\ level(l) - 1 = level(l + 1) /\ level(level(l)) = l
      BY <1>4
    <3>2. h[l] = f[level(l)] /\ h[l + 1] = f[level(l + 1)]
      BY <3>1
    <3> HIDE DEF h, level
    <3>3. f[level(l)] = Down(levels, k, l, h[l + 1])
      BY <1>17, <3>1, <3>2 DEF Step
    <3> QED BY <1>5, <3>2, <3>3
  <2> HIDE DEF level
  <2>3. \A l \in 1..top : l = top \/ l \in 1..top-1
    BY <1>4
  <2>4. h = [l \in 1..top |-> h[l]]
    OBVIOUS
  <2> HIDE DEF h
  <2>5. \A l \in 1..top : h[l] = IF l = top THEN {1} ELSE Scans(h, l)
    <3> TAKE l \in 1..top
    <3>1. l \in 1..top-1 => l # top
      BY <1>4
    <3> QED BY <2>1, <2>2, <2>3, <3>1
  <2> QED BY <2>4, <2>5
<1> HIDE DEF h
<1>19. Equation(at)
  <2> HIDE DEF Equation
  <2> QED BY <1>18
<1> HIDE DEF at
<1>20. /\ at[top] = {1}
       /\ \A l \in 1..top-1 : at[l] = Down(levels, k, l, at[l + 1])
  <2>1. top \in 1..top /\ \A l \in 1..top-1 : l \in 1..top /\ l # top
    BY <1>4
  <2>2. \A l \in 1..top : at[l] = IF l = top THEN {1} ELSE Scans(at, l)
    BY <1>19
  <2> QED BY <1>5, <2>1, <2>2
<1> DEFINE U == {j \in 1..top : Serve(at[level(j)], level(j))}
<1>21. 1 \in U
  <2>1. level(1) = top /\ 1 \in 1..top
    BY <1>4
  <2> QED BY <1>6, <1>20, <2>1
<1>22. ASSUME NEW j \in 1+1..top, j - 1 \in U PROVE j \in U
  <2>1. j \in 1..top /\ level(j) \in 1..top-1 /\ level(j) + 1 = level(j - 1)
    BY <1>4
  <2>2. Serve(at[level(j - 1)], level(j - 1))
    BY <1>22
  <2> HIDE DEF level
  <2>3. Serve(at[level(j)], level(j))
    BY <1>7, <1>20, <2>1, <2>2
  <2> QED BY <2>1, <2>3
<1> HIDE DEF U
<1>23. 1..top \subseteq U
  BY ONLY <1>15, <1>21, <1>22, IntervalInduction
<1>24. top \in 1..top /\ level(top) = 1
  BY <1>4
<1>25. Serve(at[1], 1)
  <2> HIDE DEF level
  <2> QED BY <1>23, <1>24 DEF U
<1> QED BY <1>3, <1>25 DEF Serve

-----------------------------------------------------------------------------
(* A PGM-index of sorted keys below the sentinel answers with windows that *)
(* have the place of every key.                                            *)
LEMMA PgmModel ==
  ASSUME NEW keys, SortedKeys(keys), keys[Len(keys)] < Sentinel
  PROVE  \E levels :
           /\ Stacked(levels, keys, Last(keys)) /\ Last(levels).used = 1
           /\ BuildPgm(keys).n = Len(keys) /\ BuildPgm(keys).first_key = keys[1]
           /\ BuildPgm(keys).levels = [l \in DOMAIN levels |-> levels[l].segs]
           /\ BuildPgm(keys) = [n |-> Len(keys), first_key |-> keys[1],
                                levels |-> BuildPgm(keys).levels]
<1> DEFINE n == Len(keys)
           pgm == BuildPgm(keys)
<1>1. /\ n \in Nat /\ n >= 1 /\ Last(keys) = keys[n] /\ keys # <<>>
      /\ \A i \in 1..n : keys[i] \in Nat
      /\ \A i, j \in 1..n : i <= j => keys[i] <= keys[j]
  BY DEF SortedKeys, Last
<1>2. Indexable(keys, Last(keys))
  <2>1. n \in 1..n
    BY <1>1
  <2>2. n >= 2 => n - 1 \in 1..n
    BY <1>1
  <2>3. n >= 2 => keys[n - 1] <= Last(keys)
    BY <1>1, <2>1, <2>2
  <2>4. keys[n] <= Last(keys)
    BY <1>1, <2>1
  <2> QED BY <2>3, <2>4 DEF Indexable
<1>3. PICK levels : /\ Stacked(levels, keys, Last(keys)) /\ Last(levels).used = 1
                    /\ LevelsOver(keys) = [l \in DOMAIN levels |-> levels[l].segs]
  BY <1>2, LevelsStacked
<1>4. pgm = [n |-> Len(keys), first_key |-> keys[1], levels |-> LevelsOver(keys)]
  BY <1>1 DEF BuildPgm
<1> HIDE DEF pgm
<1>5. pgm.n = Len(keys) /\ pgm.first_key = keys[1] /\ pgm.levels = LevelsOver(keys)
  BY <1>4
<1> QED BY <1>3, <1>4, <1>5 DEF pgm

LEMMA BuiltTypes ==
  ASSUME NEW keys, SortedKeys(keys), keys[Len(keys)] < Sentinel
  PROVE  BuildPgm(keys) \in [n : Nat, first_key : Nat, levels : Seq(Seq(Lines))]
<1> DEFINE pgm == BuildPgm(keys)
<1>1. PICK levels :
        /\ Stacked(levels, keys, Last(keys))
        /\ pgm.levels = [l \in DOMAIN levels |-> levels[l].segs]
        /\ pgm = [n |-> Len(keys), first_key |-> keys[1], levels |-> pgm.levels]
  BY PgmModel
<1>2. /\ Len(levels) \in Nat /\ DOMAIN levels = 1..Len(levels)
      /\ \A l \in 1..Len(levels) : levels[l].segs \in Seq(Lines)
  BY <1>1 DEF Stacked, Founded, Serving
<1>3. pgm.levels \in Seq(Seq(Lines))
  <2> DEFINE m == Len(levels)
             segs(l) == levels[l].segs
  <2>1. pgm.levels = [l \in 1..m |-> segs(l)] /\ m \in Nat /\ \A l \in 1..m : segs(l) \in Seq(Lines)
    BY <1>1, <1>2
  <2> HIDE DEF m, segs, pgm
  <2> QED BY <2>1
<1>4. Len(keys) \in Nat /\ keys[1] \in Nat
  BY DEF SortedKeys
<1> DEFINE x == pgm.levels
           S == Seq(Seq(Lines))
<1>5. pgm = [n |-> Len(keys), first_key |-> keys[1], levels |-> x] /\ x \in S
  BY <1>1, <1>3
<1> HIDE DEF pgm, x, S
<1>6. pgm \in [n : Nat, first_key : Nat, levels : S]
  BY <1>4, <1>5
<1> QED BY <1>6 DEF pgm, S

LEMMA WindowHasPlace ==
  ASSUME NEW keys, SortedKeys(keys), keys[Len(keys)] < Sentinel,
         NEW k \in 0..Sentinel-1, NEW r \in Nat, IsPlace(keys, k, r),
         NEW w \in Search(BuildPgm(keys), k)
  PROVE  w.lo \in Nat /\ w.hi \in Nat /\ w.lo <= r /\ r <= w.hi
<1> DEFINE pgm == BuildPgm(keys)
           n == Len(keys)
           q == Max({pgm.first_key, k})
<1>1. PICK levels :
        /\ Stacked(levels, keys, Last(keys)) /\ Last(levels).used = 1
        /\ pgm.n = Len(keys) /\ pgm.first_key = keys[1]
        /\ pgm.levels = [l \in DOMAIN levels |-> levels[l].segs]
  BY ZenonT(60), PgmModel
<1>2. /\ n \in Nat /\ n >= 1 /\ n = Len(keys)
      /\ \A i \in 1..n : keys[i] \in Nat
      /\ \A i, j \in 1..n : i <= j => keys[i] <= keys[j]
      /\ k \in Nat /\ k < Sentinel /\ Sentinel \in Nat /\ keys[n] < Sentinel
  BY SentinelAssumption DEF SortedKeys
<1>3. r \in 0..n /\ \A i \in 1..n : keys[i] < k <=> i <= r
  BY <1>2 DEF IsPlace
<1>4. q = IF keys[1] >= k THEN keys[1] ELSE k
  <2>1. keys[1] \in Int /\ k \in Int
    BY <1>2
  <2> HIDE DEF pgm
  <2> QED BY <1>1, <2>1, MaxOfTwo
<1>5. PICK i \in SegmentForKey(pgm, q) :
        \E pos \in Predicted(pgm.levels[1], i, q) :
          w = [lo |-> SubEps(pos, Epsilon), hi |-> AddEps(pos, Epsilon, pgm.n)]
  BY DEF Search
<1>6. PICK pos \in Predicted(pgm.levels[1], i, q) :
        w = [lo |-> SubEps(pos, Epsilon), hi |-> AddEps(pos, Epsilon, pgm.n)]
  BY <1>5
<1> HIDE DEF pgm, q, n
<1>7. q \in 0..Sentinel-1 /\ keys[1] <= q /\ IsPlace(keys, q, r)
  <2>1. keys[1] \in Nat /\ keys[1] <= keys[n] /\ keys[n] \in Nat
    BY <1>2
  <2>2. CASE keys[1] >= k
    <3>1. q = keys[1]
      BY <1>4, <2>2
    <3>2. \A j \in 1..n : ~(keys[j] < q) /\ ~(keys[j] < k)
      BY <1>2, <2>1, <2>2, <3>1
    <3>3. IsPlace(keys, q, r)
      BY <1>2, <1>3, <3>2 DEF IsPlace
    <3> QED BY <1>2, <2>1, <3>1, <3>3
  <2>3. CASE ~(keys[1] >= k)
    <3>1. q = k
      BY <1>4, <2>3
    <3> QED BY <1>2, <2>1, <2>3, <3>1
  <2> QED BY <2>2, <2>3
<1> DEFINE level == levels[1]
<1>8. MayServe(level, i, q)
  BY <1>1, <1>7, SearchServes
<1>9. Len(levels) >= 1 /\ Len(levels) \in Nat /\ 1 \in DOMAIN levels
      /\ Founded(level, keys, Epsilon, Last(keys)) /\ pgm.levels[1] = level.segs
  <2>1. levels \in Seq(LevelsOf(Last(keys))) /\ Len(levels) >= 1
    BY <1>1 DEF Stacked
  <2>2. 1 \in 1..Len(levels) /\ 1 \in DOMAIN levels /\ Len(levels) \in Nat
    BY <2>1
  <2>3. Founded(levels[1], KeysUnder(levels, keys, 1), EpsilonOf(1), Last(keys))
    BY <1>1, <2>2 DEF Stacked
  <2>4. KeysUnder(levels, keys, 1) = keys /\ EpsilonOf(1) = Epsilon
    BY DEF KeysUnder, EpsilonOf
  <2> QED BY <1>1, <2>1, <2>2, <2>3, <2>4
<1> HIDE DEF level
<1>10. pos \in Int /\ Near(r, Epsilon, pos) /\ pos <= r + Epsilon
  <2>1. Predicts(level, keys, Epsilon) /\ i \in 1..Len(level.segs)-1
    BY <1>8, <1>9 DEF Founded, Serving, MayServe
  <2> QED BY <1>6, <1>7, <1>8, <1>9, <2>1 DEF Predicts
<1>11. w.lo = SubEps(pos, Epsilon) /\ w.hi = AddEps(pos, Epsilon, n)
  BY <1>1, <1>6 DEF n
<1> QED BY <1>2, <1>3, <1>10, <1>11, EpsilonAssumption DEF Near, SubEps, AddEps

-----------------------------------------------------------------------------
(* The adapter's index is none, or one built of sorted keys; and it is the *)
(* index of the adapter's array, unless that was refused.                  *)
PgmIndexed ==
  /\ \/ pgm_model = NoModel
     \/ \E d : Sorted(d) /\ d # <<>> /\ ~Refused(d) /\ pgm_model = BuildPgm(KeySequence(d))
  /\ pgm_data # <<>> /\ ~Refused(pgm_data) => pgm_model = BuildPgm(KeySequence(pgm_data))

LEMMA KeysInSequence ==
  ASSUME NEW d, Sorted(d), d # <<>>
  PROVE  LET keys == KeySequence(d)
         IN /\ SortedKeys(keys) /\ Len(keys) = Len(d)
            /\ Len(d) \in Nat /\ Len(d) >= 1 /\ DOMAIN d = 1..Len(d)
            /\ \A i \in 1..Len(d) : keys[i] = d[i].key
            /\ ~Refused(d) => keys[Len(keys)] < Sentinel
<1> DEFINE keys == KeySequence(d)
           n == Len(d)
<1>1. d \in Seq(Entry) /\ n \in Nat /\ n >= 1 /\ DOMAIN d = 1..n
  BY DEF Sorted
<1>2. \A i \in 1..n : d[i].key \in Nat /\ d[i].key \in 0..Sentinel
  BY <1>1, EntryType, KeyTypeAssumption
<1>3. keys = [i \in 1..n |-> d[i].key]
  BY <1>1 DEF KeySequence
<1>4. keys \in Seq(Nat) /\ Len(keys) = n /\ \A i \in 1..n : keys[i] = d[i].key
  <2> HIDE DEF n, keys
  <2> QED BY <1>1, <1>2, <1>3
<1>5. \A i, j \in 1..n : i <= j => keys[i] <= keys[j]
  BY <1>1, <1>4 DEF Sorted
<1>6. SortedKeys(keys)
  BY <1>1, <1>4, <1>5 DEF SortedKeys
<1>7. ~Refused(d) => keys[n] < Sentinel
  <2>1. n \in 1..n
    BY <1>1
  <2>2. d[n].key \in 0..Sentinel /\ keys[n] = d[n].key
    BY <1>2, <1>4, <2>1
  <2> QED BY <2>2, SentinelAssumption DEF Refused
<1> QED BY <1>1, <1>4, <1>6, <1>7

LEMMA FlushRebuilds ==
  ASSUME NEW s \in Seq(Entry), s # <<>>, pgm_data \in Seq(Entry), PgmFlush(s)
  PROVE  pgm_data' # <<>> /\ Rebuild(pgm_data')
<1> DEFINE u == pgm_data \o s
           t == SortedByKey(u)
<1>1. pgm_data' = t /\ Rebuild(t)
  BY DEF PgmFlush
<1>2. u \in Seq(Entry) /\ Len(u) >= 1 /\ 1 \in DOMAIN u
  OBVIOUS
<1>3. DOMAIN t = DOMAIN u
  BY DEF SortedByKey
<1> HIDE DEF u, t
<1>4. t # <<>>
  <2>1. DOMAIN <<>> = {}
    OBVIOUS
  <2> QED BY <1>2, <1>3, <2>1
<1> QED BY <1>1, <1>4

(* A step leaves the array and the index, or makes a new one of both.      *)
LEMMA ModelSteps ==
  ASSUME Inv, [Next]_vars
  PROVE  \/ pgm_data' = pgm_data /\ pgm_model' = pgm_model
         \/ pgm_data' # <<>> /\ Rebuild(pgm_data')
<1>1. pgm_data \in Seq(Entry) /\ pgm_inserts \in Seq(Entry)
  BY DEF Inv, PgmInv, Sorted
<1>2. CASE UNCHANGED vars
  BY <1>2 DEF vars, pgm_vars
<1>3. ASSUME NEW data \in DataSets, Build(data)
      PROVE  \/ pgm_data' = pgm_data /\ pgm_model' = pgm_model
             \/ pgm_data' # <<>> /\ Rebuild(pgm_data')
  <2>1. PgmBuild(data)
    BY <1>3 DEF Build
  <2>2. CASE data = <<>>
    BY <2>1, <2>2 DEF PgmBuild, pgm_vars
  <2>3. CASE data # <<>>
    <3>1. pgm_data' = data /\ Rebuild(data)
      BY <2>1, <2>3 DEF PgmBuild
    <3> QED BY <2>3, <3>1
  <2> QED BY <2>2, <2>3
<1>4. CASE Lookup
  <2>1. PgmLookupFlush
    BY <1>4 DEF Lookup
  <2>2. CASE pgm_inserts = <<>>
    BY <2>1, <2>2 DEF PgmLookupFlush, pgm_vars
  <2>3. CASE pgm_inserts # <<>>
    <3>1. PgmFlush(pgm_inserts)
      BY <2>1, <2>3 DEF PgmLookupFlush
    <3> QED BY <1>1, <2>3, <3>1, FlushRebuilds
  <2> QED BY <2>2, <2>3
<1>5. ASSUME NEW k \in InsertKeys, Insert(k)
      PROVE  \/ pgm_data' = pgm_data /\ pgm_model' = pgm_model
             \/ pgm_data' # <<>> /\ Rebuild(pgm_data')
  <2> DEFINE e == E(k, Inserted)
             s == Append(pgm_inserts, e)
  <2>1. PgmInsert(e) /\ e \in Entry
    BY <1>5, BoundsAssumption, EntryOfKey DEF Insert
  <2>2. s \in Seq(Entry) /\ s # <<>>
    BY <1>1, <2>1
  <2>3. PgmFlush(s) \/ (pgm_data' = pgm_data /\ pgm_model' = pgm_model)
    BY <2>1 DEF PgmInsert
  <2> HIDE DEF s
  <2> QED BY <1>1, <2>2, <2>3, FlushRebuilds
<1> QED BY <1>2, <1>3, <1>4, <1>5 DEF Next

LEMMA IndexedHolds == ASSUME Inv, Inv', PgmIndexed, [Next]_vars PROVE PgmIndexed'
<1>1. Sorted(pgm_data')
  BY DEF Inv, PgmInv
<1>2. CASE pgm_data' = pgm_data /\ pgm_model' = pgm_model
  BY <1>2 DEF PgmIndexed
<1>3. CASE pgm_data' # <<>> /\ Rebuild(pgm_data')
  <2>1. CASE Refused(pgm_data')
    <3>1. pgm_model' = pgm_model
      BY <1>3, <2>1 DEF Rebuild
    <3> QED BY <2>1, <3>1 DEF PgmIndexed
  <2>2. CASE ~Refused(pgm_data')
    <3>1. pgm_model' = BuildPgm(KeySequence(pgm_data'))
      BY <1>3, <2>2 DEF Rebuild
    <3> QED BY <1>1, <1>3, <2>2, <3>1 DEF PgmIndexed
  <2> QED BY <2>1, <2>2
<1> QED BY <1>2, <1>3, ModelSteps

LEMMA IndexWindows == ASSUME Inv, PgmIndexed PROVE PgmWindowExact
<1>1. ASSUME pgm_model # NoModel, NEW l \in DOMAIN pgm_model.levels,
             NEW i \in DOMAIN pgm_model.levels[l]
      PROVE  pgm_model.levels[l][i].intercept >= 0
  <2>1. PICK d : Sorted(d) /\ d # <<>> /\ ~Refused(d) /\ pgm_model = BuildPgm(KeySequence(d))
    BY <1>1 DEF PgmIndexed
  <2> DEFINE S == Seq(Lines)
  <2>2. pgm_model \in [n : Nat, first_key : Nat, levels : Seq(S)]
    BY <2>1, KeysInSequence, BuiltTypes
  <2>3. pgm_model.levels \in Seq(S)
    <3> HIDE DEF S
    <3> QED BY <2>2
  <2>4. pgm_model.levels[l] \in Seq(Lines)
    <3> HIDE DEF S
    <3>1. pgm_model.levels[l] \in S
      BY <1>1, <2>3
    <3> QED BY <3>1 DEF S
  <2>5. pgm_model.levels[l][i] \in Lines
    BY <1>1, <2>4
  <2> QED BY <2>5, LineTypes
<1>2. ASSUME pgm_data # <<>>, ~Refused(pgm_data), NEW k \in 0..Sentinel-1
      PROVE  LET place == LowerBoundOf(pgm_data, k)
             IN /\ \A w \in Search(pgm_model, k) : w.lo <= place /\ place <= w.hi
                /\ \A a \in PgmAnswer(pgm_data, pgm_model, k) :
                     (a # {}) = (k \in KeysOf(pgm_data))
  <2> DEFINE place == LowerBoundOf(pgm_data, k)
             keys == KeySequence(pgm_data)
             n == Len(pgm_data)
  <2>1. Sorted(pgm_data)
    BY DEF Inv, PgmInv
  <2>2. /\ SortedKeys(keys) /\ Len(keys) = n /\ n \in Nat /\ n >= 1 /\ DOMAIN pgm_data = 1..n
        /\ \A i \in 1..n : keys[i] = pgm_data[i].key
        /\ keys[Len(keys)] < Sentinel
    BY <1>2, <2>1, KeysInSequence
  <2>3. pgm_model = BuildPgm(keys)
    BY <1>2 DEF PgmIndexed
  <2>4. place \in 0..n /\ \A i \in 1..n : pgm_data[i].key < k <=> i <= place
    <3>1. k \in Int
      BY SentinelAssumption
    <3> QED BY <2>1, <2>2, <3>1, LowerBoundExact
  <2> HIDE DEF place, keys, n
  <2>5. IsPlace(keys, k, place)
    BY <2>2, <2>4 DEF IsPlace
  <2>6. \A w \in Search(pgm_model, k) : w.lo \in Nat /\ w.hi \in Nat /\ w.lo <= place /\ place <= w.hi
    <3>1. place \in Nat
      BY <2>4
    <3> QED BY <2>2, <2>3, <2>5, <3>1, WindowHasPlace
  <2>7. pgm_model # NoModel
    <3> DEFINE L == [key : Nat, slope : [dx : Int, dy : Int], intercept : Int]
               S == Seq(Lines)
               R == Seq(L)
    <3>1. pgm_model \in [n : Nat, first_key : Nat, levels : Seq(S)]
      BY <2>2, <2>3, BuiltTypes
    <3>2. Lines \subseteq L
      BY DEF Lines
    <3> HIDE DEF L
    <3>3. S \subseteq R
      <4>1. Seq(Lines) = UNION {[1..m -> Lines] : m \in Nat} /\ Seq(L) = UNION {[1..m -> L] : m \in Nat}
        BY SeqDef
      <4>2. \A m \in Nat : [1..m -> Lines] \subseteq [1..m -> L]
        BY <3>2
      <4> QED BY <4>1, <4>2
    <3> HIDE DEF S, R
    <3>4. Seq(S) \subseteq Seq(R)
      BY <3>3
    <3>5. pgm_model \in [n : Nat, first_key : Nat, levels : Seq(R)]
      BY <3>1, <3>4
    <3> QED BY <3>5, NoModelAssumption DEF R, L
  <2>8. k \in KeysOf(pgm_data) <=> place + 1 \in 1..n /\ pgm_data[place + 1].key = k
    <3>1. \A i \in 1..n : pgm_data[i].key \in Nat
      BY <2>1, <2>2, EntryType DEF Sorted
    <3>2. ASSUME NEW i \in 1..n, pgm_data[i].key = k
          PROVE  place + 1 \in 1..n /\ pgm_data[place + 1].key = k
      <4>1. ~(i <= place)
        BY <2>4, <3>1, <3>2
      <4>2. place + 1 \in 1..n /\ place + 1 <= i /\ ~(place + 1 <= place)
        BY <2>2, <2>4, <4>1
      <4>3. ~(pgm_data[place + 1].key < k) /\ pgm_data[place + 1].key <= k
        BY <2>1, <2>2, <2>4, <3>2, <4>2 DEF Sorted
      <4> QED BY <3>1, <3>2, <4>2, <4>3
    <3> QED BY <2>2, <3>2 DEF KeysOf
  <2>9. ASSUME NEW a \in PgmAnswer(pgm_data, pgm_model, k) PROVE (a # {}) = (k \in KeysOf(pgm_data))
    <3>1. PICK w \in Search(pgm_model, k) :
            a = LET hi == Min({w.hi, n})
                    i == Max({w.lo, Min({hi, place})}) + 1
                IN IF i <= n /\ pgm_data[i].key = k THEN {pgm_data[i]} ELSE {}
      BY <2>7, <2>9 DEF PgmAnswer, n, place
    <3> DEFINE hi == Min({w.hi, n})
               i == Max({w.lo, Min({hi, place})}) + 1
    <3>2. w.lo \in Nat /\ w.hi \in Nat /\ w.lo <= place /\ place <= w.hi /\ place \in Nat
      BY <2>4, <2>6
    <3>3. hi \in Int /\ place <= hi
      BY <2>2, <2>4, <3>2, MinOfTwo
    <3> HIDE DEF hi
    <3>4. Min({hi, place}) = place
      <4>1. Min({hi, place}) = IF hi <= place THEN hi ELSE place
        BY <3>2, <3>3, MinOfTwo
      <4> QED BY <3>2, <3>3, <4>1
    <3>5. Max({w.lo, place}) = place
      <4>1. Max({w.lo, place}) = IF w.lo >= place THEN w.lo ELSE place
        BY <3>2, MaxOfTwo
      <4> QED BY <3>2, <4>1
    <3>6. i = place + 1
      BY <3>4, <3>5
    <3>7. a = IF i <= n /\ pgm_data[i].key = k THEN {pgm_data[i]} ELSE {}
      BY <3>1 DEF hi
    <3> HIDE DEF i
    <3>8. place + 1 \in 1..n <=> i <= n
      BY <2>2, <2>4, <3>6
    <3>9. (a # {}) <=> (i <= n /\ pgm_data[i].key = k)
      BY <3>7
    <3> QED BY <2>8, <3>6, <3>8, <3>9
  <2> QED BY <2>6, <2>9 DEF place
<1> QED BY <1>1, <1>2 DEF PgmWindowExact

-----------------------------------------------------------------------------
(* The segments make_segmentation() cuts the keys into.                    *)
LEMMA InvSegments == ASSUME Inv PROVE PgmSegmentsLongest
<1> SUFFICES ASSUME pgm_data # <<>> PROVE
      LET seen == Segmentation(KeySequence(pgm_data), Epsilon).seen
      IN \A s \in DOMAIN seen :
           /\ Coverable(seen[s], Epsilon)
           /\ s < Len(seen) => ~Coverable(Append(seen[s], seen[s + 1][1]), Epsilon)
  BY DEF PgmSegmentsLongest
<1> DEFINE in == KeySequence(pgm_data)
           st == Segmentation(in, Epsilon)
           seen == st.seen
           n == Len(seen)
<1>1. Sorted(pgm_data)
  BY DEF Inv, PgmInv
<1>2. SortedKeys(in)
  BY <1>1, KeysInSequence
<1>3. Epsilon \in Nat \ {0}
  BY EpsilonAssumption
<1> HIDE DEF in
<1>4. Segmented(st, Epsilon, Points(in), Len(Points(in)))
  BY <1>2, <1>3, Segmenting
<1> HIDE DEF st
<1>5. /\ seen \in Seq(Seq(Samples)) /\ n \in Nat /\ DOMAIN seen = 1..n
      /\ HullOf(st.hull, seen[n], Epsilon)
      /\ \A s \in 1..n-1 : /\ Coverable(seen[s], Epsilon)
                           /\ ~Coverable(Append(seen[s], seen[s + 1][1]), Epsilon)
  BY <1>4 DEF Segmented, Closed
<1>6. Coverable(seen[n], Epsilon)
  BY <1>3, <1>5, HullCoverable
<1> HIDE DEF seen, n
<1>7. \A s \in 1..n : s = n \/ (s \in 1..n-1 /\ s < n)
  BY <1>5
<1>8. \A s \in DOMAIN seen : /\ Coverable(seen[s], Epsilon)
                             /\ s < n => ~Coverable(Append(seen[s], seen[s + 1][1]), Epsilon)
  BY <1>5, <1>6, <1>7
<1> QED BY <1>8 DEF seen, st, in, n
LEMMA InvIsTyped == ASSUME Inv PROVE TypeOK
<1>1. BtInv /\ RmiInv /\ PgmInv /\ Waiting /\ alex_idx \in [Keys -> Nat] /\ alex_size \in Nat
  BY DEF Inv
<1>2. ASSUME NEW j \in DOMAIN bt_leaves
      PROVE  bt_leaves[j] \in Seq(Entry) /\ Increasing(bt_leaves[j]) /\ Len(bt_leaves[j]) \in 1..Order
  <2>1. Leafed(bt_leaves) /\ Len(bt_leaves[j]) \in 1..Order
    BY <1>1, BtLeafed
  <2>2. Sorted(bt_leaves[j])
    BY <2>1 DEF Leafed
  <2> QED BY <2>1, <2>2, SortedIncreasing DEF Sorted
<1>3. \A l \in DOMAIN bt_levels : \A j \in DOMAIN bt_levels[l] : Len(bt_levels[l][j].keys) <= Order
  BY <1>1, NodesHaveRoom
<1>4. /\ bt_pending \in Seq(Entry) /\ Len(bt_pending) < Order * FlushFactor
      /\ bt_height \in {Len(bt_levels), Len(bt_levels) + 1}
  BY <1>1 DEF BtInv
<1>5. /\ rmi_data \in Seq(Entry) /\ Increasing(rmi_data)
      /\ rmi_pending \in Seq(Entry) /\ Len(rmi_pending) < L1Size
  BY <1>1, SortedIncreasing DEF RmiInv, Sorted
<1>6. /\ pgm_data \in Seq(Entry) /\ Increasing(pgm_data) /\ pgm_inserts \in Seq(Entry)
      /\ rebuilt \/ Len(pgm_inserts) <= Max({FlushMin, Len(pgm_data) \div FlushShare})
  BY <1>1, SortedIncreasing DEF PgmInv, Sorted, Waiting, WaitLimit
<1> QED BY <1>1, <1>2, <1>3, <1>4, <1>5, <1>6 DEF TypeOK

LEMMA InvFinds == ASSUME Inv PROVE StoredIsFound
<1>1. BtInv /\ RmiInv
  BY DEF Inv
<1>2. ASSUME NEW k \in Keys
      PROVE  IF k \in KeysOf(BtStored)
               THEN \E e \in BtLookup(k) : e.val \in Copies(BtStored, k)
               ELSE BtLookup(k) = {}
  <2> DEFINE s == BtStored
  <2>1. Sorted(s) /\ Leafed(bt_leaves) /\ Spread(s, bt_leaves) /\ bt_levels = LevelsFor(bt_leaves)
    BY <1>1, BtLeafed DEF BtInv
  <2>2. k \in Nat
    BY KeysAssumption
  <2> HIDE DEF s
  <2>3. IF k \in KeysOf(s) THEN \E e \in BtLookup(k) : e.val \in Copies(s, k) ELSE BtLookup(k) = {}
    BY <2>1, <2>2, BtFinds
  <2> QED BY <2>3 DEF s
<1>3. ASSUME rmi_n = Len(rmi_data), NEW k \in Keys
      PROVE  RmiLookup(k) = {IF k \in KeysOf(rmi_data) THEN "found" ELSE "miss"}
  <2>1. /\ Sorted(rmi_data) /\ rmi_short \in BOOLEAN /\ k \in Nat
        /\ rmi_data # <<>> => /\ rmi_root = RootFor(rmi_data)
                              /\ rmi_leaves = LeavesOf(rmi_data, rmi_root, rmi_short)
    BY <1>1, KeysAssumption DEF RmiInv
  <2> QED BY <1>3, <2>1, RmiFinds
<1> QED BY <1>2, <1>3 DEF StoredIsFound

LEMMA StepHolds == ASSUME Inv, [Next]_vars PROVE Inv'
<1>1. CASE Next
  BY <1>1, BuildHolds, LookupHolds, InsertHolds DEF Next
<1>2. CASE UNCHANGED vars
  <2>1. UNCHANGED <<bt_vars, rmi_vars, pgm_vars, alex_vars, put, rebuilt>>
    BY <1>2 DEF vars
  <2> QED BY <2>1 DEF Inv, BtInv, RmiInv, PgmInv, Waiting, WaitLimit, NothingLost, BtHeld, BtStored,
                      RmiHeld, PgmHeld, bt_vars, rmi_vars, pgm_vars, alex_vars
<1> QED BY <1>1, <1>2

(* The invariant holds of every state of the four baselines, whatever the  *)
(* data they are built from and the keys inserted.                         *)
THEOREM Invariant == Spec => []Inv
<1>1. Init => Inv
  BY InitHolds
<1>2. Inv /\ [Next]_vars => Inv'
  BY StepHolds
<1> QED BY <1>1, <1>2, PTL DEF Spec

(* The leaves and nodes of the B+ tree never outgrow their order, each     *)
(* list of waiting inserts stays below its limit, and the arrays the       *)
(* lookups search are sorted.                                              *)
THEOREM TypeCorrect == Spec => []TypeOK
<1>1. Inv => TypeOK
  BY InvIsTyped
<1> QED BY <1>1, Invariant, PTL

(* No build, insert, flush or lookup of any baseline loses an entry, or    *)
(* makes one up.                                                           *)
THEOREM EntriesKept == Spec => []NothingLost
<1>1. Inv => NothingLost
  BY DEF Inv
<1> QED BY <1>1, Invariant, PTL

(* The separators of the B+ tree and the windows of the RMI lead to every  *)
(* key stored, and to no other: whatever the order, the number of levels   *)
(* and the number of leaf models, and wherever a double falls short.       *)
THEOREM StoredKeysFound == Spec => []StoredIsFound
<1>1. Inv => StoredIsFound
  BY InvFinds
<1> QED BY <1>1, Invariant, PTL


(* The adapter of the PGM-index has an index of its array, unless that was *)
(* refused; and else the index of an array it had before, or none.         *)
THEOREM IndexOfTheArray == Spec => []PgmIndexed
<1>1. Init => PgmIndexed
  BY DEF Init, PgmInit, PgmIndexed
<1>2. Inv /\ Inv' /\ PgmIndexed /\ [Next]_vars => PgmIndexed'
  BY IndexedHolds
<1> QED BY <1>1, <1>2, Invariant, PTL DEF Spec

(* The search of the PGM-index ends in a window that has the place of the  *)
(* key: whatever the two epsilons, the number of levels and the slopes of  *)
(* the lines, and wherever a float falls short.  So the adapter finds the  *)
(* keys stored, and no other.                                              *)
THEOREM WindowsExact == Spec => []PgmWindowExact
<1>1. Inv /\ PgmIndexed => PgmWindowExact
  BY IndexWindows
<1> QED BY <1>1, Invariant, IndexOfTheArray, PTL

(* The segments of the PGM-index are as long as they can be: the hulls     *)
(* that add_point() keeps refuse a point exactly when no line passes       *)
(* within epsilon of it and of all the points of the segment.              *)
THEOREM SegmentsLongest == Spec => []PgmSegmentsLongest
<1>1. Inv => PgmSegmentsLongest
  BY InvSegments
<1> QED BY <1>1, Invariant, PTL
=============================================================================
