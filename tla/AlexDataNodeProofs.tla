------------------------- MODULE AlexDataNodeProofs -------------------------
(***************************************************************************)
(* The gapped array of an ALEX data node, for every set of keys, model,    *)
(* size of the node and of a word: its structure, its searches, the gap    *)
(* that closest_gap() finds, and that it is a sorted multimap.             *)
(***************************************************************************)
EXTENDS AlexDataNode, Recursion, SequenceTheorems

-----------------------------------------------------------------------------
(* Slots from left to right.                                               *)
Increasing(g, n) == \A i, j \in 1..n : i < j => g[i] < g[j]

Enumerates(g, n, S) ==
  g \in [1..n -> S] /\ Increasing(g, n) /\ \A x \in S : \E i \in 1..n : g[i] = x

Below(S, x) == {t \in S : t < x}

LEMMA RankGrows ==
  ASSUME NEW S, S \subseteq Int, IsFiniteSet(S), NEW x \in S, NEW y \in S, x < y
  PROVE  Cardinality(Below(S, x)) < Cardinality(Below(S, y))
<1>1. Below(S, x) \subseteq Below(S, y)
  <2>1. \A t \in S : t \in Int /\ (t < x => t < y)
    OBVIOUS
  <2> QED BY <2>1 DEF Below
<1>2. IsFiniteSet(Below(S, y))
  BY FS_Subset DEF Below
<1>3. x \in Below(S, y) /\ x \notin Below(S, x)
  BY DEF Below
<1>4. /\ IsFiniteSet(Below(S, x))
      /\ Cardinality(Below(S, x)) <= Cardinality(Below(S, y))
      /\ Cardinality(Below(S, y)) = Cardinality(Below(S, x)) => Below(S, y) = Below(S, x)
  BY <1>1, <1>2, FS_Subset
<1>5. Cardinality(Below(S, x)) \in Nat /\ Cardinality(Below(S, y)) \in Nat
  BY <1>2, <1>4, FS_CardinalityType
<1> QED BY <1>3, <1>4, <1>5

LEMMA RankBounded ==
  ASSUME NEW S, S \subseteq Int, IsFiniteSet(S), NEW x \in S
  PROVE  Cardinality(Below(S, x)) \in 0..Cardinality(S)-1
<1>1. Below(S, x) \subseteq S /\ x \notin Below(S, x)
  BY DEF Below
<1>2. /\ IsFiniteSet(Below(S, x))
      /\ Cardinality(Below(S, x)) <= Cardinality(S)
      /\ Cardinality(S) = Cardinality(Below(S, x)) => S = Below(S, x)
  BY <1>1, FS_Subset
<1>3. Cardinality(Below(S, x)) \in Nat /\ Cardinality(S) \in Nat
  BY <1>2, FS_CardinalityType
<1> QED BY <1>1, <1>2, <1>3

(* Every rank below the size of a set is that of one of its elements.      *)
LEMMA RanksTaken ==
  ASSUME NEW S, S \subseteq Int, IsFiniteSet(S), NEW i \in 1..Cardinality(S)
  PROVE  \E x \in S : Cardinality(Below(S, x)) = i - 1
<1> DEFINE n == Cardinality(S)
           T == 0..n-1
           f == [x \in S |-> Cardinality(Below(S, x))]
<1>1. n \in Nat
  BY FS_CardinalityType
<1>2. f \in [S -> T]
  BY RankBounded
<1>3. \A x, y \in S : x # y => f[x] # f[y]
  <2>1. SUFFICES ASSUME NEW x \in S, NEW y \in S, x < y PROVE f[x] < f[y]
    <3>1. \A x \in S : f[x] \in Int /\ x \in Int
      BY <1>1, <1>2
    <3> HIDE DEF f
    <3> QED BY <3>1
  <2> QED BY <2>1, RankGrows
<1>4. IsFiniteSet(T) /\ Cardinality(T) = n
  <2> HIDE DEF n
  <2>1. 0 \in Int /\ n - 1 \in Int /\ (0 > n - 1 => n = 0) /\ n - 1 - 0 + 1 = n
    BY <1>1
  <2> QED BY <2>1, FS_Interval
<1> HIDE DEF f, T
<1>5. f \in Injection(S, T)
  BY <1>2, <1>3 DEF Injection, IsInjective
<1>6. f \in Surjection(S, T)
  BY <1>4, <1>5, FS_Injection
<1>7. i - 1 \in T
  BY <1>1 DEF T
<1>8. PICK x \in S : f[x] = i - 1
  BY <1>6, <1>7 DEF Surjection
<1> QED BY <1>8 DEF f

LEMMA InOrderEnumerates ==
  ASSUME NEW S, S \subseteq Int, IsFiniteSet(S)
  PROVE  Cardinality(S) \in Nat /\ Enumerates(InOrder(S), Cardinality(S), S)
<1> DEFINE n == Cardinality(S)
           g == InOrder(S)
<1>1. n \in Nat
  BY FS_CardinalityType
<1>2. \A i \in 1..n : g[i] \in S /\ Cardinality(Below(S, g[i])) = i - 1
  <2>1. TAKE i \in 1..n
  <2>2. g[i] = CHOOSE x \in S : Cardinality(Below(S, x)) = i - 1
    BY DEF InOrder, Below
  <2>3. \E x \in S : Cardinality(Below(S, x)) = i - 1
    BY RanksTaken
  <2> HIDE DEF g
  <2> QED BY <2>2, <2>3
<1>3. g \in [1..n -> S]
  BY <1>2 DEF InOrder
<1> HIDE DEF g
<1>4. ASSUME NEW i \in 1..n, NEW j \in 1..n, i < j PROVE g[i] < g[j]
  <2>1. g[i] \in Int /\ g[j] \in Int
    BY <1>2
  <2>2. g[i] # g[j]
    BY <1>2, <1>4
  <2>3. CASE g[j] < g[i]
    <3>1. Cardinality(Below(S, g[j])) < Cardinality(Below(S, g[i]))
      BY <1>2, <2>3, RankGrows
    <3>2. j - 1 < i - 1
      BY <1>2, <3>1
    <3> QED BY <1>4, <3>2
  <2> QED BY <2>1, <2>2, <2>3
<1>5. ASSUME NEW x \in S PROVE \E i \in 1..n : g[i] = x
  <2> DEFINE r == Cardinality(Below(S, x))
             y == g[r + 1]
  <2>1. r \in 0..n-1 /\ r + 1 \in 1..n /\ (r + 1) - 1 = r
    <3>1. r \in 0..n-1
      BY RankBounded
    <3> HIDE DEF r, n
    <3> QED BY <1>1, <3>1
  <2> HIDE DEF n
  <2>2. y \in S /\ Cardinality(Below(S, y)) = r
    <3> HIDE DEF r
    <3> QED BY <1>2, <2>1
  <2> HIDE DEF y
  <2>3. x \in Int /\ y \in Int /\ r \in Int
    BY <2>1, <2>2
  <2>4. ~ (x < y) /\ ~ (y < x)
    <3>1. x < y => Cardinality(Below(S, x)) < Cardinality(Below(S, y))
      BY <2>2, RankGrows
    <3>2. y < x => Cardinality(Below(S, y)) < Cardinality(Below(S, x))
      BY <2>2, RankGrows
    <3>3. Cardinality(Below(S, x)) = r
      BY DEF r
    <3> HIDE DEF r
    <3> QED BY <2>2, <2>3, <3>1, <3>2, <3>3
  <2>5. x = y
    BY <2>3, <2>4
  <2> HIDE DEF r
  <2>6. g[r + 1] = x
    BY <2>5 DEF y
  <2> QED BY <2>1, <2>6 DEF n
<1> QED BY <1>1, <1>3, <1>4, <1>5 DEF Enumerates, Increasing, g

LEMMA InOrderUnique ==
  ASSUME NEW S, S \subseteq Int, NEW n \in Nat, NEW g, Enumerates(g, n, S)
  PROVE  IsFiniteSet(S) /\ Cardinality(S) = n /\ InOrder(S) = g
<1>1. /\ g \in [1..n -> S] /\ Increasing(g, n)
      /\ \A x \in S : \E i \in 1..n : g[i] = x
  BY DEF Enumerates
<1>2. \A i, j \in 1..n : i # j => g[i] # g[j]
  <2>1. \A i \in 1..n : g[i] \in Int /\ i \in Int
    <3>1. g \in [1..n -> Int]
      BY <1>1
    <3> QED BY <3>1
  <2>2. \A i, j \in 1..n : i < j => g[i] < g[j]
    BY <1>1 DEF Increasing
  <2> TAKE i, j \in 1..n
  <2>3. i < j \/ j < i \/ i = j
    OBVIOUS
  <2> QED BY <2>1, <2>2, <2>3
<1>3. ExistsBijection(1..n, S)
  BY <1>1, <1>2 DEF ExistsBijection, Bijection, Injection, Surjection, IsInjective
<1>4. IsFiniteSet(S) /\ Cardinality(S) = n
  BY <1>3, FS_NatBijection, FS_CountingElements
<1>5. ASSUME NEW i \in 1..n PROVE Cardinality(Below(S, g[i])) = i - 1
  <2> DEFINE T == Below(S, g[i])
             h == [j \in 1..i-1 |-> g[j]]
  <2>1. i - 1 \in Nat /\ 1..i-1 \subseteq 1..n
    OBVIOUS
  <2>2. \A j \in 1..n : g[j] \in Int
    BY <1>1
  <2>3. \A j \in 1..i-1 : g[j] \in T
    BY <1>1, <2>1 DEF Below, Increasing
  <2>4. \A x \in T : \E j \in 1..i-1 : g[j] = x
    <3>1. TAKE x \in T
    <3>2. PICK j \in 1..n : g[j] = x
      BY <1>1 DEF Below
    <3>3. g[j] < g[i]
      BY <3>2 DEF Below
    <3>4. j < i
      <4>1. i < j => g[i] < g[j]
        BY <1>1 DEF Increasing
      <4> QED BY <2>2, <3>3, <4>1
    <3> QED BY <3>2, <3>4
  <2> HIDE DEF T
  <2>5. h \in [1..i-1 -> T]
    BY <2>3
  <2>6. ExistsBijection(1..i-1, T)
    <3>1. \A j, k \in 1..i-1 : h[j] = h[k] => j = k
      BY <1>2, <2>1
    <3>2. \A x \in T : \E j \in 1..i-1 : h[j] = x
      BY <2>4
    <3> HIDE DEF h
    <3>3. h \in Bijection(1..i-1, T)
      BY <2>5, <3>1, <3>2 DEF Bijection, Injection, Surjection, IsInjective
    <3> QED BY <3>3 DEF ExistsBijection
  <2>7. Cardinality(T) = i - 1
    BY <2>1, <2>6, FS_CountingElements
  <2> QED BY <2>7 DEF T
<1>6. ASSUME NEW i \in 1..n PROVE InOrder(S)[i] = g[i]
  <2> DEFINE P(x) == x \in S /\ Cardinality(Below(S, x)) = i - 1
  <2>1. InOrder(S)[i] = CHOOSE x \in S : Cardinality(Below(S, x)) = i - 1
    BY <1>4 DEF InOrder, Below
  <2>2. P(g[i])
    BY <1>1, <1>5
  <2>3. ASSUME NEW x, P(x) PROVE x = g[i]
    <3>1. PICK j \in 1..n : g[j] = x
      BY <1>1, <2>3
    <3>2. j - 1 = i - 1
      BY <1>5, <2>3, <3>1
    <3> QED BY <3>1, <3>2
  <2>4. \E x \in S : Cardinality(Below(S, x)) = i - 1
    BY <2>2
  <2>5. P(CHOOSE x \in S : Cardinality(Below(S, x)) = i - 1)
    BY <2>4
  <2> QED BY <2>1, <2>3, <2>5
<1>7. InOrder(S) = [i \in 1..n |-> InOrder(S)[i]]
  <2> DEFINE f == [i \in 1..n |-> CHOOSE x \in S : Cardinality(Below(S, x)) = i - 1]
  <2>1. InOrder(S) = f
    BY <1>4 DEF InOrder, Below
  <2>2. f = [i \in 1..n |-> f[i]]
    OBVIOUS
  <2> QED BY <2>1, <2>2
<1> QED BY <1>1, <1>4, <1>6, <1>7

(* A strictly increasing function takes one order to the other.            *)
Onto(h, S, T) ==
  /\ h \in [S -> T] /\ \A x, y \in S : x < y => h[x] < h[y]
  /\ \A y \in T : \E x \in S : h[x] = y

ImageOf(h, S, T) ==
  /\ IsFiniteSet(T) /\ Cardinality(T) = Cardinality(S)
  /\ InOrder(T) = [i \in 1..Cardinality(S) |-> h[InOrder(S)[i]]]

LEMMA InOrderImage ==
  ASSUME NEW S, S \subseteq Int, IsFiniteSet(S), NEW T, T \subseteq Int,
         NEW h, Onto(h, S, T)
  PROVE  ImageOf(h, S, T)
<1> DEFINE n == Cardinality(S)
           g == InOrder(S)
           f == [i \in 1..n |-> h[g[i]]]
<1> USE DEF Onto
<1>1. n \in Nat /\ Enumerates(g, n, S)
  BY InOrderEnumerates
<1> HIDE DEF n, g
<1>2. Enumerates(f, n, T)
  <2>1. g \in [1..n -> S] /\ \A x \in S : \E i \in 1..n : g[i] = x
    BY <1>1 DEF Enumerates
  <2>2. f \in [1..n -> T] /\ \A y \in T : \E i \in 1..n : f[i] = y
    <3>1. \A i \in 1..n : g[i] \in S /\ h[g[i]] \in T /\ f[i] = h[g[i]]
      BY <2>1
    <3>2. f \in [1..n -> T]
      BY <3>1
    <3> HIDE DEF f
    <3>3. ASSUME NEW y \in T PROVE \E i \in 1..n : f[i] = y
      <4>1. PICK x \in S : h[x] = y
        OBVIOUS
      <4>2. PICK i \in 1..n : g[i] = x
        BY <2>1
      <4> QED BY <3>1, <4>1, <4>2
    <3> QED BY <3>2, <3>3
  <2>3. \A i, j \in 1..n : i < j => f[i] < f[j]
    BY <1>1, <2>1 DEF Enumerates, Increasing
  <2> HIDE DEF f
  <2> QED BY <2>2, <2>3 DEF Enumerates, Increasing
<1> HIDE DEF f
<1>3. IsFiniteSet(T) /\ Cardinality(T) = n /\ InOrder(T) = f
  BY <1>1, <1>2, InOrderUnique
<1> QED BY <1>3 DEF f, n, g, ImageOf

(* An element behind all others comes last.                                *)
LEMMA InOrderAdd ==
  ASSUME NEW S, S \subseteq Int, IsFiniteSet(S), NEW x \in Int, \A y \in S : y < x
  PROVE  /\ Cardinality(S) \in Nat
         /\ InOrder(S \cup {x}) =
              [i \in 1..Cardinality(S)+1 |-> IF i <= Cardinality(S) THEN InOrder(S)[i] ELSE x]
<1> DEFINE n == Cardinality(S)
           g == InOrder(S)
           f == [i \in 1..n+1 |-> IF i <= n THEN g[i] ELSE x]
<1>1. n \in Nat /\ Enumerates(g, n, S)
  BY InOrderEnumerates
<1> HIDE DEF n, g
<1>2. /\ g \in [1..n -> S] /\ \A y \in S : \E i \in 1..n : g[i] = y
      /\ \A i, j \in 1..n : i < j => g[i] < g[j]
  BY <1>1 DEF Enumerates, Increasing
<1>3. \A i \in 1..n+1 : i \in 1..n \/ i = n + 1
  BY <1>1
<1>4. f[n + 1] = x /\ \A i \in 1..n : f[i] = g[i]
  BY <1>1
<1>5. f \in [1..n+1 -> S \cup {x}]
  BY <1>1, <1>2
<1> HIDE DEF f
<1>6. \A y \in S \cup {x} : \E i \in 1..n+1 : f[i] = y
  <2>1. n + 1 \in 1..n+1 /\ 1..n \subseteq 1..n+1
    BY <1>1
  <2> QED BY <1>2, <1>4, <2>1
<1>7. ASSUME NEW i \in 1..n+1, NEW j \in 1..n+1, i < j PROVE f[i] < f[j]
  <2>1. i \in 1..n
    BY <1>1, <1>7
  <2>2. CASE j \in 1..n
    BY <1>2, <1>4, <1>7, <2>1, <2>2
  <2>3. CASE j = n + 1
    BY <1>2, <1>4, <2>1, <2>3
  <2> QED BY <1>3, <2>2, <2>3
<1>8. Enumerates(f, n + 1, S \cup {x})
  BY <1>5, <1>6, <1>7 DEF Enumerates, Increasing
<1>9. InOrder(S \cup {x}) = f
  <2>1. n + 1 \in Nat /\ S \cup {x} \subseteq Int
    BY <1>1
  <2> QED BY <1>8, <2>1, InOrderUnique
<1> QED BY <1>1, <1>9 DEF f, n, g

(* The others close up when one leaves.                                    *)
LEMMA InOrderRemove ==
  ASSUME NEW S, S \subseteq Int, IsFiniteSet(S), NEW i \in 1..Cardinality(S)
  PROVE  /\ Cardinality(S) \in Nat
         /\ InOrder(S \ {InOrder(S)[i]}) =
              [j \in 1..Cardinality(S)-1 |->
                 IF j < i THEN InOrder(S)[j] ELSE InOrder(S)[j + 1]]
<1> DEFINE n == Cardinality(S)
           g == InOrder(S)
           x == g[i]
           f == [j \in 1..n-1 |-> IF j < i THEN g[j] ELSE g[j + 1]]
<1>1. n \in Nat /\ Enumerates(g, n, S) /\ i \in 1..n
  BY InOrderEnumerates
<1> HIDE DEF n, g
<1>2. /\ g \in [1..n -> S] /\ \A y \in S : \E j \in 1..n : g[j] = y
      /\ \A j, m \in 1..n : j < m => g[j] < g[m]
  BY <1>1 DEF Enumerates, Increasing
<1>3. \A j \in 1..n : g[j] \in Int /\ g[j] \in S
  BY <1>2
<1>4. \A j \in 1..n : j # i => g[j] # x
  <2> TAKE j \in 1..n
  <2>1. j < i \/ i < j \/ j = i
    BY <1>1
  <2> QED BY <1>1, <1>2, <1>3, <2>1
<1>5. \A j \in 1..n-1 : j \in 1..n /\ j + 1 \in 1..n /\ j + 1 \in Int
  BY <1>1
<1>6. f \in [1..n-1 -> S \ {x}]
  <2>1. \A j \in 1..n-1 : ~ (j < i) => j + 1 # i
    BY <1>1
  <2>2. \A j \in 1..n-1 : j < i => j # i
    BY <1>1
  <2>3. \A j \in 1..n-1 : (IF j < i THEN g[j] ELSE g[j + 1]) \in S \ {x}
    BY <1>3, <1>4, <1>5, <2>1, <2>2
  <2> QED BY <2>3
<1>7. \A j \in 1..n-1 : f[j] = IF j < i THEN g[j] ELSE g[j + 1]
  OBVIOUS
<1> HIDE DEF f
<1>8. ASSUME NEW y \in S \ {x} PROVE \E j \in 1..n-1 : f[j] = y
  <2>1. PICK j \in 1..n : g[j] = y
    BY <1>2
  <2>2. j # i
    BY <2>1
  <2>3. CASE j < i
    <3>1. j \in 1..n-1
      BY <1>1, <2>3
    <3> QED BY <1>7, <2>1, <2>3, <3>1
  <2>4. CASE i < j
    <3>1. j - 1 \in 1..n-1 /\ ~ (j - 1 < i) /\ (j - 1) + 1 = j
      BY <1>1, <2>4
    <3> QED BY <1>7, <2>1, <3>1
  <2> QED BY <1>1, <2>2, <2>3, <2>4
<1>9. ASSUME NEW j \in 1..n-1, NEW m \in 1..n-1, j < m PROVE f[j] < f[m]
  <2>1. f[j] = g[j] \/ (f[j] = g[j + 1] /\ i <= j)
    <3>1. f[j] = IF j < i THEN g[j] ELSE g[j + 1]
      BY <1>7
    <3>2. i \in Int /\ j \in Int
      BY <1>1
    <3> QED BY <3>1, <3>2
  <2>2. (f[m] = g[m] /\ m < i) \/ f[m] = g[m + 1]
    BY <1>7
  <2>3. j \in 1..n /\ j + 1 \in 1..n /\ m \in 1..n /\ m + 1 \in 1..n
    BY <1>5
  <2>4. j < m /\ j < m + 1 /\ j + 1 < m + 1 /\ ~ (i <= j /\ m < i)
    BY <1>1, <1>9
  <2> QED BY <1>2, <2>1, <2>2, <2>3, <2>4
<1>10. Enumerates(f, n - 1, S \ {x})
  BY <1>6, <1>8, <1>9 DEF Enumerates, Increasing
<1>11. InOrder(S \ {x}) = f
  <2> HIDE DEF x
  <2>1. n - 1 \in Nat /\ S \ {x} \subseteq Int
    <3>1. n \in Nat /\ i \in 1..n
      BY <1>1
    <3>2. n - 1 \in Nat
      BY ONLY <3>1
    <3> QED BY <3>2
  <2> QED BY <1>10, <2>1, InOrderUnique
<1> QED BY <1>1, <1>11 DEF f, n, g

(* The elements below a bound come first.                                  *)
LEMMA SplitAt ==
  ASSUME NEW S, S \subseteq Int, NEW n \in Nat, NEW g, Enumerates(g, n, S), NEW x \in Int
  PROVE  \E m \in 0..n : \A i \in 1..n : g[i] < x <=> i <= m
<1> DEFINE L == {i \in 1..n : g[i] < x}
<1>1. \A i, j \in 1..n : i < j => g[i] < g[j]
  BY DEF Enumerates, Increasing
<1>2. \A i \in 1..n : g[i] \in Int
  <2>1. g \in [1..n -> S]
    BY DEF Enumerates
  <2> QED BY <2>1
<1>3. CASE L = {}
  <2>1. \A i \in 1..n : ~ (g[i] < x) /\ ~ (i <= 0)
    BY <1>3
  <2> QED BY <2>1
<1>4. CASE L # {}
  <2> DEFINE m == Max(L)
  <2>1. m \in L /\ \A i \in L : i <= m
    BY <1>4, MaxOfInterval
  <2> HIDE DEF m
  <2>2. m \in 1..n /\ g[m] < x
    BY <2>1
  <2>3. ASSUME NEW i \in 1..n, i <= m PROVE g[i] < x
    <3>1. g[i] \in Int /\ g[m] \in Int /\ (i = m \/ g[i] < g[m])
      BY <1>1, <1>2, <2>2, <2>3
    <3> QED BY <2>2, <3>1
  <2>4. \A i \in 1..n : g[i] < x => i <= m
    BY <2>1
  <2> QED BY <2>2, <2>3, <2>4
<1> QED BY <1>3, <1>4

(* The elements of a stretch are a stretch of the elements.                *)
InStretch(S, a, b, T) ==
  \E m \in 0..Cardinality(S), c \in 0..Cardinality(S) :
    /\ m + c <= Cardinality(S) /\ Cardinality(T) = c
    /\ Cardinality(S) \in Nat
    /\ InOrder(T) = [j \in 1..c |-> InOrder(S)[m + j]]
    /\ (\A x \in S : a <= x) => m = 0
    /\ (\A x \in S : x < b) => m + c = Cardinality(S)

LEMMA InOrderStretch ==
  ASSUME NEW S, S \subseteq Int, IsFiniteSet(S), NEW a \in Int, NEW b \in Int,
         NEW T, T = S \cap (a..b-1)
  PROVE  InStretch(S, a, b, T)
<1> DEFINE n == Cardinality(S)
           g == InOrder(S)
<1>1. n \in Nat /\ Enumerates(g, n, S)
  BY InOrderEnumerates
<1> HIDE DEF n, g
<1>2. /\ g \in [1..n -> S] /\ \A y \in S : \E j \in 1..n : g[j] = y
      /\ \A j, m \in 1..n : j < m => g[j] < g[m]
  BY <1>1 DEF Enumerates, Increasing
<1>3. \A j \in 1..n : g[j] \in Int /\ g[j] \in S
  BY <1>2
<1>4. PICK m \in 0..n : \A i \in 1..n : g[i] < a <=> i <= m
  BY <1>1, SplitAt
<1>5. PICK e \in 0..n : \A i \in 1..n : g[i] < b <=> i <= e
  BY <1>1, SplitAt
<1> DEFINE c == IF m <= e THEN e - m ELSE 0
           f == [j \in 1..c |-> g[m + j]]
<1>6. c \in 0..n /\ m + c <= n /\ m \in Int /\ e \in Int
  BY <1>1, <1>4, <1>5
<1>7. \A j \in 1..c : m + j \in 1..n /\ m < m + j /\ m + j <= e /\ m <= e /\ c = e - m
  BY <1>1, <1>4, <1>5
<1> HIDE DEF c
<1>8. \A i \in 1..n : i \in Int /\ (g[i] \in T <=> m < i /\ i <= e)
  BY <1>3, <1>4, <1>5, <1>6
<1>9. f \in [1..c -> T]
  BY <1>7, <1>8
<1>10. \A j \in 1..c : f[j] = g[m + j]
  OBVIOUS
<1> HIDE DEF f
<1>11. ASSUME NEW y \in T PROVE \E j \in 1..c : f[j] = y
  <2>1. PICK i \in 1..n : g[i] = y
    BY <1>2
  <2>2. m < i /\ i <= e
    BY <1>8, <2>1
  <2>3. i - m \in 1..c /\ m + (i - m) = i
    BY <1>6, <2>2 DEF c
  <2> QED BY <1>10, <2>1, <2>3
<1>12. ASSUME NEW i \in 1..c, NEW j \in 1..c, i < j PROVE f[i] < f[j]
  <2>1. m + i < m + j
    BY <1>6, <1>12
  <2> QED BY <1>2, <1>7, <1>10, <2>1
<1>13. Enumerates(f, c, T)
  BY <1>9, <1>11, <1>12 DEF Enumerates, Increasing
<1>14. Cardinality(T) = c /\ InOrder(T) = f
  BY <1>6, <1>13, InOrderUnique
<1>15. ASSUME \A x \in S : a <= x PROVE m = 0
  <2>1. SUFFICES ASSUME m >= 1 PROVE FALSE
    BY <1>4
  <2>2. m \in 1..n /\ g[m] < a
    BY <1>4, <1>6, <2>1
  <2> QED BY <1>3, <1>15, <2>2
<1>16. ASSUME \A x \in S : x < b PROVE m + c = n
  <2>1. e = n
    <3>1. CASE n = 0
      BY <1>5, <3>1
    <3>2. CASE n # 0
      <4>1. n \in 1..n
        BY <1>1, <3>2
      <4>2. g[n] < b
        BY <1>3, <1>16, <4>1
      <4>3. n <= e
        BY <1>5, <4>1, <4>2
      <4> QED BY <1>1, <1>5, <4>3
    <3> QED BY <3>1, <3>2
  <2> QED BY <1>4, <1>6, <2>1 DEF c
<1> QED BY <1>1, <1>6, <1>14, <1>15, <1>16 DEF n, g, f, InStretch

-----------------------------------------------------------------------------
(* Every slot holds the key of the next entry, or the sentinel.            *)
Gapped(cap, key, filled) ==
  /\ \A f \in filled : key[f] \in Keys
  /\ \A f, g \in filled : f < g => key[f] <= key[g]
  /\ \A s \in 0..cap-1 :
       /\ \A f \in filled : s <= f /\ (\A g \in filled : g < s \/ f <= g) => key[s] = key[f]
       /\ (\A g \in filled : g < s) => key[s] = Sentinel

Node == [cap : Nat \ {0}, key : UNION {[0..c-1 -> Keys \cup {Sentinel}] : c \in Nat},
         pay : UNION {[D -> Payloads] : D \in SUBSET Nat},
         num : Nat, expandAt : Nat, contractAt : Nat]

(* A node in good order.                                                   *)
NodeOK(nd) ==
  /\ nd \in Node
  /\ nd.key \in [SlotsOf(nd) -> Keys \cup {Sentinel}]
  /\ nd.pay \in [Filled(nd) -> Payloads] /\ Filled(nd) \subseteq SlotsOf(nd)
  /\ nd.num = Cardinality(Filled(nd))
  /\ nd.expandAt \in 10..10 * nd.cap
  /\ Gapped(nd.cap, nd.key, Filled(nd))

LEMMA NodeFacts ==
  ASSUME NEW nd, NodeOK(nd)
  PROVE  /\ nd.cap \in Nat \ {0} /\ SlotsOf(nd) = 0..nd.cap-1
         /\ nd.key \in [0..nd.cap-1 -> Keys \cup {Sentinel}]
         /\ nd.key \in [0..nd.cap-1 -> Nat]
         /\ Filled(nd) \subseteq 0..nd.cap-1 /\ Filled(nd) \subseteq Int
         /\ IsFiniteSet(Filled(nd)) /\ nd.num = Cardinality(Filled(nd))
         /\ nd.num \in 0..nd.cap
         /\ Sentinel \in Nat /\ \A k \in Keys : k \in Nat /\ k < Sentinel
<1>1. /\ nd.cap \in Nat \ {0} /\ SlotsOf(nd) = 0..nd.cap-1
      /\ nd.key \in [0..nd.cap-1 -> Keys \cup {Sentinel}]
      /\ Filled(nd) \subseteq 0..nd.cap-1 /\ nd.num = Cardinality(Filled(nd))
  BY DEF NodeOK, SlotsOf, Node
<1>2. Sentinel \in Nat /\ \A k \in Keys : k \in Nat /\ k < Sentinel
  BY KeysAssumption, SentinelAssumption
<1>3. nd.key \in [0..nd.cap-1 -> Nat]
  BY <1>1, <1>2
<1>4. IsFiniteSet(0..nd.cap-1) /\ Cardinality(0..nd.cap-1) = nd.cap
  <2> DEFINE c == nd.cap
  <2>1. c \in Nat \ {0}
    BY <1>1
  <2> HIDE DEF c
  <2>2. 0 \in Int /\ c - 1 \in Int /\ ~ (0 > c - 1) /\ c - 1 - 0 + 1 = c
    BY <2>1
  <2>3. IsFiniteSet(0..c-1) /\ Cardinality(0..c-1) = c
    BY <2>2, FS_Interval
  <2> QED BY <2>3 DEF c
<1>5. IsFiniteSet(Filled(nd)) /\ Cardinality(Filled(nd)) <= nd.cap
  BY <1>1, <1>4, FS_Subset
<1>6. Cardinality(Filled(nd)) \in Nat
  BY <1>5, FS_CardinalityType
<1> QED BY <1>1, <1>2, <1>3, <1>5, <1>6

(* The entry a slot gets its key from.                                     *)
LEMMA NextEntry ==
  ASSUME NEW cap \in Nat, NEW filled, filled \subseteq 0..cap-1, NEW s \in Int,
         \E f \in filled : s <= f
  PROVE  \E f \in filled : s <= f /\ \A g \in filled : g < s \/ f <= g
<1> DEFINE T == {f \in filled : s <= f}
<1>1. T \subseteq 0..cap-1 /\ T # {} /\ 0 \in Int /\ cap - 1 \in Int
  <2>1. PICK f \in filled : s <= f
    OBVIOUS
  <2>2. f \in T
    BY <2>1
  <2>3. T \subseteq 0..cap-1
    <3>1. T \subseteq filled
      OBVIOUS
    <3> HIDE DEF T
    <3> QED BY <3>1
  <2>4. 0 \in Int /\ cap - 1 \in Int
    OBVIOUS
  <2> QED BY <2>2, <2>3, <2>4
<1>2. Min(T) \in T /\ \A g \in T : Min(T) <= g
  BY ONLY <1>1, MinOfInterval
<1>3. \A g \in filled : g < s \/ g \in T
  <2>1. \A g \in filled : g \in Int
    OBVIOUS
  <2> QED BY <2>1
<1> DEFINE m == Min(T)
<1>4. m \in T /\ \A g \in T : m <= g
  BY <1>2
<1> HIDE DEF m
<1> QED BY <1>3, <1>4

(* The keys ascend over entries and gaps alike.                            *)
LEMMA KeysAscend ==
  ASSUME NEW cap \in Nat, NEW filled, filled \subseteq 0..cap-1,
         NEW key, Gapped(cap, key, filled),
         NEW s \in 0..cap-1, NEW t \in 0..cap-1, s <= t
  PROVE  key[s] \in Nat /\ key[s] <= key[t] /\ key[s] <= Sentinel
<1>1. /\ \A f \in filled : key[f] \in Keys
      /\ \A f, g \in filled : f < g => key[f] <= key[g]
  BY DEF Gapped
<1>2. /\ \A f \in filled : s <= f /\ (\A g \in filled : g < s \/ f <= g) => key[s] = key[f]
      /\ (\A g \in filled : g < s) => key[s] = Sentinel
      /\ \A f \in filled : t <= f /\ (\A g \in filled : g < t \/ f <= g) => key[t] = key[f]
      /\ (\A g \in filled : g < t) => key[t] = Sentinel
  BY DEF Gapped
<1>3. Sentinel \in Nat /\ \A k \in Keys : k \in Nat /\ k < Sentinel
  BY KeysAssumption, SentinelAssumption
<1>4. s \in Int /\ t \in Int /\ \A f \in filled : f \in Int
  OBVIOUS
<1>5. CASE \A g \in filled : g < s
  <2>1. \A g \in filled : g < t
    BY <1>4, <1>5
  <2> QED BY <1>2, <1>3, <1>5, <2>1
<1>6. CASE \E g \in filled : s <= g
  <2>1. PICK f \in filled : s <= f /\ \A g \in filled : g < s \/ f <= g
    BY <1>4, <1>6, NextEntry
  <2>2. key[s] = key[f] /\ key[f] \in Nat /\ key[f] < Sentinel
    BY <1>1, <1>2, <1>3, <2>1
  <2>3. CASE \A g \in filled : g < t
    BY <1>2, <1>3, <2>2, <2>3
  <2>4. CASE \E g \in filled : t <= g
    <3>1. PICK e \in filled : t <= e /\ \A g \in filled : g < t \/ e <= g
      BY <1>4, <2>4, NextEntry
    <3>2. key[t] = key[e] /\ key[e] \in Nat
      BY <1>1, <1>2, <1>3, <3>1
    <3>3. f <= e
      BY <1>4, <2>1, <3>1
    <3>4. key[f] <= key[e]
      <4>1. f = e \/ f < e
        BY <1>4, <3>3
      <4> QED BY <1>1, <2>2, <3>2, <4>1
    <3>5. key[s] = key[f] /\ key[t] = key[e] /\ Sentinel \in Nat
      BY <1>3, <2>2, <3>2
    <3> QED BY ONLY <2>2, <3>4, <3>5
  <2> QED BY <1>4, <2>3, <2>4
<1> QED BY <1>4, <1>5, <1>6

-----------------------------------------------------------------------------
(* Searches.  The doubled bound passes the answer, its half does not.      *)
LEMMA DoublingBrackets ==
  ASSUME NEW size \in Nat, NEW stops
  PROVE  LET b == Doubling(size, stops)
         IN /\ b[1] \in 0..b[2] /\ b[2] \in 0..size
            /\ b[1] = 0 \/ (b[1] \in 1..size-1 /\ b[1] \notin stops)
            /\ b[2] = size \/ b[2] \in stops
<1> DEFINE Stopped(b) == b >= size \/ b \in stops
           Turn(b) == IF Stopped(b) THEN b ELSE 2 * b
           F == [p \in Nat \X (1..size) |-> Turn(p[1])]
           Equation(g) == g = [i \in 0..size |-> IF i = 0 THEN 1 ELSE Turn(g[i - 1])]
           bound == CHOOSE g : Equation(g)
<1>1. Doubling(size, stops) = <<bound[size] \div 2, Min({bound[size], size})>>
  BY DEF Doubling
<1>2. \A b \in Nat : Turn(b) \in Nat
  OBVIOUS
<1>3. PICK f \in [0..size -> Nat] : Follows(f, F, 1, 0, size)
  <2>1. F \in [Nat \X (1..size) -> Nat]
    BY <1>2
  <2>2. size \in Int /\ 0 \in Int /\ 0 <= size /\ 1..size = 0+1..size /\ 1 \in Nat
    OBVIOUS
  <2> HIDE DEF F
  <2> QED BY ONLY <2>1, <2>2, Iteration
<1>4. Equation(f)
  <2>1. f[0] = 1 /\ \A i \in 1..size : f[i] = F[<<f[i-1], i>>]
    <3> HIDE DEF F
    <3> QED BY <1>3 DEF Follows
  <2>2. \A i \in 1..size : i - 1 \in 0..size
    OBVIOUS
  <2>3. \A i \in 1..size : F[<<f[i-1], i>>] = Turn(f[i-1])
    <3> HIDE DEF Turn
    <3> QED BY <1>3, <2>2
  <2> HIDE DEF F, Turn
  <2>4. \A i \in 0..size : i = 0 \/ i \in 1..size
    OBVIOUS
  <2>5. \A i \in 0..size : f[i] = IF i = 0 THEN 1 ELSE Turn(f[i - 1])
    BY <2>1, <2>3, <2>4
  <2> QED BY <2>5
<1>5. Equation(bound)
  BY <1>4
<1> HIDE DEF bound, Turn
<1>6. bound[0] = 1 /\ \A i \in 1..size : bound[i] = Turn(bound[i-1])
  BY <1>5
<1> DEFINE Good(b, i) ==
             /\ b \in Nat /\ b >= 1 /\ (Stopped(b) \/ b >= i + 1)
             /\ b = 1 \/ \E h \in 1..size-1 : b = 2 * h /\ h \notin stops
           T == {i \in 0..size : Good(bound[i], i)}
<1>7. 0 \in T
  BY <1>6
<1>8. ASSUME NEW b, NEW i \in Nat, Good(b, i) PROVE Good(Turn(b), i + 1)
  <2>1. CASE Stopped(b)
    BY <1>8, <2>1 DEF Turn
  <2>2. CASE ~ Stopped(b)
    <3>1. Turn(b) = 2 * b /\ b \in 1..size-1 /\ b \notin stops
      BY <1>8, <2>2 DEF Turn
    <3>2. b >= i + 1
      BY <1>8, <2>2
    <3> QED BY <3>1, <3>2
  <2> QED BY <2>1, <2>2
<1>9. ASSUME NEW i \in 0+1..size, i - 1 \in T PROVE i \in T
  <2>1. i \in 1..size /\ i \in 0..size /\ i - 1 \in Nat /\ (i - 1) + 1 = i
    OBVIOUS
  <2>2. Good(bound[i-1], i - 1)
    BY <1>9
  <2> HIDE DEF Good
  <2> QED BY <1>6, <1>8, <2>1, <2>2
<1>10. 0..size \subseteq T
  <2>1. 0 \in Int /\ size \in Int
    OBVIOUS
  <2> HIDE DEF T
  <2> QED BY ONLY <1>7, <1>9, <2>1, IntervalInduction
<1> DEFINE B == bound[size]
<1>11. Good(B, size)
  <2>1. size \in 0..size
    OBVIOUS
  <2> HIDE DEF Good
  <2> QED BY <1>10, <2>1
<1> HIDE DEF B
<1>12. Min({B, size}) = IF B <= size THEN B ELSE size
  BY <1>11, MinOfTwo
<1>13. Stopped(B)
  BY <1>11
<1>14. \/ B = 1 /\ B \div 2 = 0
       \/ \E h \in 1..size-1 : B = 2 * h /\ B \div 2 = h /\ h \notin stops
  BY <1>11
<1> DEFINE b1 == B \div 2
           b2 == Min({B, size})
<1>15. /\ b1 \in 0..b2 /\ b2 \in 0..size
       /\ b1 = 0 \/ (b1 \in 1..size-1 /\ b1 \notin stops)
       /\ b2 = size \/ b2 \in stops
  BY <1>11, <1>12, <1>13, <1>14
<1> QED BY <1>1, <1>15 DEF B

(* The keys beyond the one searched for fill the end of the node.          *)
UpSet(cap, beyond) ==
  beyond \subseteq 0..cap-1 /\ \A s \in beyond : \A t \in 0..cap-1 : s <= t => t \in beyond

(* u is the first slot beyond.                                             *)
FirstBeyond(u, cap, beyond) ==
  u \in 0..cap /\ \A s \in 0..cap-1 : s \in beyond <=> u <= s

(* The binary search ends where the slots beyond the key begin, if they    *)
(* begin in its range.                                                     *)
LEMMA BinarySearchExact ==
  ASSUME NEW cap \in Nat, NEW beyond, UpSet(cap, beyond),
         NEW l \in 0..cap, NEW r \in 0..cap, l <= r,
         \A s \in 0..cap-1 : s < l => s \notin beyond,
         \A s \in 0..cap-1 : r <= s => s \in beyond
  PROVE  FirstBeyond(BinarySearch(l, r, beyond), cap, beyond)
<1> DEFINE n == r - l
           V == Int \X Int
           Mid(b) == b[1] + (b[2] - b[1]) \div 2
           Turn(b) == IF b[1] >= b[2] THEN b
                      ELSE IF Mid(b) \in beyond THEN <<b[1], Mid(b)>>
                           ELSE <<Mid(b) + 1, b[2]>>
           F == [p \in V \X (1..n) |-> Turn(p[1])]
           Equation(g) == g = [i \in 0..n |-> IF i = 0 THEN <<l, r>> ELSE Turn(g[i - 1])]
           bounds == CHOOSE g : Equation(g)
<1>1. BinarySearch(l, r, beyond) = bounds[n][1]
  BY DEF BinarySearch
<1>2. /\ l \in Int /\ r \in Int /\ n \in Nat /\ <<l, r>> \in V
      /\ \A b \in V : Mid(b) \in Int /\ Turn(b) \in V
  OBVIOUS
<1> HIDE DEF n, V, Mid, Turn
<1>3. PICK f \in [0..n -> V] : Follows(f, F, <<l, r>>, 0, n)
  <2>1. F \in [V \X (1..n) -> V]
    BY <1>2
  <2>2. n \in Int /\ 0 \in Int /\ 0 <= n /\ 1..n = 0+1..n
    BY <1>2
  <2> HIDE DEF F
  <2> QED BY ONLY <1>2, <2>1, <2>2, Iteration
<1>4. Equation(f)
  <2>1. f[0] = <<l, r>> /\ \A i \in 1..n : f[i] = F[<<f[i-1], i>>]
    <3> HIDE DEF F
    <3> QED BY <1>3 DEF Follows
  <2>2. \A i \in 1..n : i - 1 \in 0..n
    BY <1>2
  <2>3. \A i \in 1..n : F[<<f[i-1], i>>] = Turn(f[i-1])
    BY <1>3, <2>2
  <2> HIDE DEF F
  <2>4. \A i \in 0..n : i = 0 \/ i \in 1..n
    BY <1>2
  <2>5. \A i \in 0..n : f[i] = IF i = 0 THEN <<l, r>> ELSE Turn(f[i - 1])
    BY <2>1, <2>3, <2>4
  <2> QED BY <2>5
<1>5. Equation(bounds)
  BY <1>4
<1> HIDE DEF bounds
<1>6. bounds[0] = <<l, r>> /\ \A i \in 1..n : bounds[i] = Turn(bounds[i-1])
  BY <1>2, <1>5
<1> DEFINE Good(b, i) ==
             /\ b \in V /\ 0 <= b[1] /\ b[1] <= b[2] /\ b[2] <= cap
             /\ b[2] - b[1] <= n - i \/ b[1] = b[2]
             /\ \A s \in 0..cap-1 : s < b[1] => s \notin beyond
             /\ \A s \in 0..cap-1 : b[2] <= s => s \in beyond
           T == {i \in 0..n : Good(bounds[i], i)}
<1>7. 0 \in T
  <2>1. bounds[0][1] = l /\ bounds[0][2] = r
    BY <1>6
  <2>2. Good(bounds[0], 0)
    BY <1>2, <1>6, <2>1 DEF n
  <2> HIDE DEF Good
  <2> QED BY <1>2, <2>2
<1>8. ASSUME NEW b, NEW i \in Nat, Good(b, i) PROVE Good(Turn(b), i + 1)
  <2> DEFINE lo == b[1]
             hi == b[2]
             mid == lo + (hi - lo) \div 2
  <2>1. lo \in Int /\ hi \in Int /\ 0 <= lo /\ lo <= hi /\ hi <= cap /\ b \in V
    BY <1>8 DEF V
  <2>2. CASE lo >= hi
    <3>1. Turn(b) = b /\ lo = hi
      BY <2>1, <2>2 DEF Turn
    <3> QED BY <1>8, <3>1
  <2>3. CASE lo < hi
    <3> HIDE DEF lo, hi
    <3>1. mid \in Int /\ lo <= mid /\ mid < hi /\ mid \in 0..cap-1
      BY <2>1, <2>3
    <3>2. Mid(b) = mid
      BY DEF Mid, lo, hi
    <3> HIDE DEF mid
    <3>3. CASE mid \in beyond
      <4>1. Turn(b) = <<lo, mid>>
        BY <2>1, <2>3, <3>2, <3>3 DEF Turn, lo, hi
      <4>2. \A s \in 0..cap-1 : mid <= s => s \in beyond
        BY <3>1, <3>3 DEF UpSet
      <4>3. mid - lo <= n - (i + 1)
        BY <1>2, <1>8, <2>1, <2>3, <3>1 DEF lo, hi
      <4>4. /\ <<lo, mid>> \in V /\ <<lo, mid>>[1] = lo /\ <<lo, mid>>[2] = mid
            /\ \A s \in 0..cap-1 : s < lo => s \notin beyond
        BY <1>8, <2>1, <3>1 DEF V, lo
      <4> QED BY <2>1, <3>1, <4>1, <4>2, <4>3, <4>4
    <3>4. CASE mid \notin beyond
      <4>1. Turn(b) = <<mid + 1, hi>>
        BY <2>1, <2>3, <3>2, <3>4 DEF Turn, lo, hi
      <4>2. \A s \in 0..cap-1 : s < mid + 1 => s \notin beyond
        <5>1. \A s \in 0..cap-1 : s < mid + 1 => s <= mid
          BY <3>1
        <5> QED BY <3>1, <3>4, <5>1 DEF UpSet
      <4>3. hi - (mid + 1) <= n - (i + 1)
        BY <1>2, <1>8, <2>1, <2>3, <3>1 DEF lo, hi
      <4>4. /\ <<mid + 1, hi>> \in V /\ <<mid + 1, hi>>[1] = mid + 1 /\ <<mid + 1, hi>>[2] = hi
            /\ \A s \in 0..cap-1 : hi <= s => s \in beyond
        BY <1>8, <2>1, <3>1 DEF V, hi
      <4>5. 0 <= mid + 1 /\ mid + 1 <= hi
        BY <2>1, <3>1
      <4> QED BY <2>1, <4>1, <4>2, <4>3, <4>4, <4>5
    <3> QED BY <3>3, <3>4
  <2> QED BY <2>1, <2>2, <2>3
<1>9. ASSUME NEW i \in 0+1..n, i - 1 \in T PROVE i \in T
  <2>1. i \in 1..n /\ i \in 0..n /\ i - 1 \in Nat /\ (i - 1) + 1 = i
    BY <1>2
  <2>2. Good(bounds[i-1], i - 1)
    BY <1>9
  <2> HIDE DEF Good
  <2> QED BY <1>6, <1>8, <2>1, <2>2
<1>10. 0..n \subseteq T
  <2>1. 0 \in Int /\ n \in Int
    BY <1>2
  <2> HIDE DEF T
  <2> QED BY ONLY <1>7, <1>9, <2>1, IntervalInduction
<1> DEFINE b == bounds[n]
<1>11. Good(b, n)
  <2>1. n \in 0..n
    BY <1>2
  <2> HIDE DEF Good
  <2> QED BY <1>10, <2>1
<1> HIDE DEF b
<1>12. b[1] \in Int /\ b[2] \in Int /\ b[1] = b[2] /\ b[1] \in 0..cap
  BY <1>2, <1>11 DEF V
<1>13. \A s \in 0..cap-1 : s \in beyond <=> b[1] <= s
  <2>1. \A s \in 0..cap-1 : s < b[1] \/ b[1] <= s
    BY <1>12
  <2>2. \A s \in 0..cap-1 : s < b[1] => ~ (b[1] <= s)
    BY <1>12
  <2> QED BY <1>11, <1>12, <2>1, <2>2
<1> QED BY <1>1, <1>12, <1>13 DEF FirstBeyond, b

(* However far the starting slot is off, the search ends at the first slot *)
(* beyond the key.                                                         *)
LEMMA ExponentialSearchExact ==
  ASSUME NEW cap \in Nat, NEW beyond, UpSet(cap, beyond), NEW m \in 0..cap-1
  PROVE  FirstBeyond(ExponentialSearch(cap, m, beyond), cap, beyond)
<1>0. m \in Int /\ m \in 0..cap-1 /\ cap \in Int /\ m < cap
  OBVIOUS
<1>1. CASE m \in beyond
  <2> DEFINE stops == {d \in 1..m : m - d \notin beyond}
             b == Doubling(m, stops)
             b1 == b[1]
             b2 == b[2]
             l == m - b2
             r == m - b1
  <2>1. ExponentialSearch(cap, m, beyond) = BinarySearch(l, r, beyond)
    BY <1>1 DEF ExponentialSearch
  <2>2. /\ b1 \in 0..b2 /\ b2 \in 0..m
        /\ b1 = 0 \/ (b1 \in 1..m-1 /\ b1 \notin stops)
        /\ b2 = m \/ b2 \in stops
    BY <1>0, DoublingBrackets
  <2> HIDE DEF b1, b2
  <2>3. l \in 0..cap /\ r \in 0..cap /\ l <= r /\ r \in 0..cap-1
    BY <1>0, <2>2
  <2>4. r \in beyond
    <3>1. CASE b1 = 0
      BY <1>0, <1>1, <3>1
    <3>2. CASE b1 \in 1..m-1 /\ b1 \notin stops
      <4>1. b1 \in 1..m
        BY <1>0, <3>2
      <4> QED BY <3>2, <4>1
    <3> QED BY <2>2, <3>1, <3>2
  <2>5. ASSUME NEW s \in 0..cap-1, s < l PROVE s \notin beyond
    <3>1. b2 # m
      BY <1>0, <2>5
    <3>2. l \notin beyond /\ l \in 0..cap-1
      BY <1>0, <2>2, <3>1
    <3>3. s <= l
      BY <1>0, <2>3, <2>5
    <3> HIDE DEF l
    <3> QED BY <3>2, <3>3 DEF UpSet
  <2>6. \A s \in 0..cap-1 : r <= s => s \in beyond
    <3> HIDE DEF r
    <3> QED BY <2>4 DEF UpSet
  <2> HIDE DEF l, r
  <2> QED BY <2>1, <2>3, <2>5, <2>6, BinarySearchExact
<1>2. CASE m \notin beyond
  <2> DEFINE size == cap - m
             stops == {d \in 1..size : m + d \in beyond}
             b == Doubling(size, stops)
             b1 == b[1]
             b2 == b[2]
             l == m + b1
             r == m + b2
  <2>1. ExponentialSearch(cap, m, beyond) = BinarySearch(l, r, beyond)
    BY <1>2 DEF ExponentialSearch
  <2>2. size \in Nat
    BY <1>0
  <2>3. /\ b1 \in 0..b2 /\ b2 \in 0..size
        /\ b1 = 0 \/ (b1 \in 1..size-1 /\ b1 \notin stops)
        /\ b2 = size \/ b2 \in stops
    <3> HIDE DEF size
    <3> QED BY <2>2, DoublingBrackets
  <2> HIDE DEF b1, b2
  <2>4. l \in 0..cap /\ r \in 0..cap /\ l <= r
    BY <1>0, <2>3
  <2>5. l \notin beyond /\ l \in 0..cap-1
    <3>1. CASE b1 = 0
      BY <1>0, <1>2, <3>1
    <3>2. CASE b1 \in 1..size-1 /\ b1 \notin stops
      <4>1. b1 \in 1..size /\ m + b1 \in 0..cap-1
        BY <1>0, <3>2
      <4> QED BY <3>2, <4>1
    <3> QED BY <2>3, <3>1, <3>2
  <2>6. ASSUME NEW s \in 0..cap-1, s < l PROVE s \notin beyond
    <3>1. s <= l
      BY <1>0, <2>4, <2>6
    <3> HIDE DEF l
    <3> QED BY <2>5, <3>1 DEF UpSet
  <2>7. ASSUME NEW s \in 0..cap-1, r <= s PROVE s \in beyond
    <3>1. b2 # size
      BY <1>0, <2>7
    <3>2. r \in beyond
      BY <2>3, <3>1
    <3> HIDE DEF r
    <3> QED BY <2>7, <3>2 DEF UpSet
  <2> HIDE DEF l, r
  <2> QED BY <2>1, <2>4, <2>5, <2>6, <2>7, BinarySearchExact
<1> QED BY <1>1, <1>2

LEMMA UpperBoundExact ==
  ASSUME NEW nd, NodeOK(nd), NEW m \in SlotsOf(nd), NEW k \in Int
  PROVE  /\ UpperBound(nd, m, k) \in 0..nd.cap
         /\ \A s \in 0..nd.cap-1 : nd.key[s] > k <=> UpperBound(nd, m, k) <= s
<1> DEFINE cap == nd.cap
           beyond == {s \in SlotsOf(nd) : nd.key[s] > k}
           u == UpperBound(nd, m, k)
<1>1. /\ cap \in Nat /\ SlotsOf(nd) = 0..cap-1 /\ nd.key \in [0..cap-1 -> Nat]
      /\ Filled(nd) \subseteq 0..cap-1 /\ Gapped(cap, nd.key, Filled(nd))
  BY NodeFacts DEF NodeOK
<1>2. u = ExponentialSearch(cap, m, beyond)
  BY DEF UpperBound
<1> HIDE DEF cap, u
<1>3. UpSet(cap, beyond)
  <2>1. ASSUME NEW s \in beyond, NEW t \in 0..cap-1, s <= t PROVE t \in beyond
    <3>1. s \in 0..cap-1 /\ nd.key[s] > k
      BY <1>1
    <3>2. nd.key[s] <= nd.key[t]
      BY <1>1, <2>1, <3>1, KeysAscend
    <3>3. nd.key[s] \in Nat /\ nd.key[t] \in Nat
      BY <1>1, <3>1
    <3>4. nd.key[t] > k
      BY <3>1, <3>2, <3>3
    <3> QED BY <1>1, <3>4
  <2>2. beyond \subseteq 0..cap-1
    BY <1>1
  <2> HIDE DEF beyond
  <2> QED BY <2>1, <2>2 DEF UpSet
<1>4. FirstBeyond(u, cap, beyond)
  <2> HIDE DEF beyond
  <2> QED BY <1>1, <1>2, <1>3, ExponentialSearchExact
<1> QED BY <1>1, <1>4 DEF FirstBeyond, cap, u

LEMMA LowerBoundExact ==
  ASSUME NEW nd, NodeOK(nd), NEW m \in SlotsOf(nd), NEW k \in Int
  PROVE  /\ LowerBound(nd, m, k) \in 0..nd.cap
         /\ \A s \in 0..nd.cap-1 : nd.key[s] >= k <=> LowerBound(nd, m, k) <= s
<1> DEFINE cap == nd.cap
           beyond == {s \in SlotsOf(nd) : nd.key[s] >= k}
           u == LowerBound(nd, m, k)
<1>1. /\ cap \in Nat /\ SlotsOf(nd) = 0..cap-1 /\ nd.key \in [0..cap-1 -> Nat]
      /\ Filled(nd) \subseteq 0..cap-1 /\ Gapped(cap, nd.key, Filled(nd))
  BY NodeFacts DEF NodeOK
<1>2. u = ExponentialSearch(cap, m, beyond)
  BY DEF LowerBound
<1> HIDE DEF cap, u
<1>3. UpSet(cap, beyond)
  <2>1. ASSUME NEW s \in beyond, NEW t \in 0..cap-1, s <= t PROVE t \in beyond
    <3>1. s \in 0..cap-1 /\ nd.key[s] >= k
      BY <1>1
    <3>2. nd.key[s] <= nd.key[t]
      BY <1>1, <2>1, <3>1, KeysAscend
    <3>3. nd.key[s] \in Nat /\ nd.key[t] \in Nat
      BY <1>1, <3>1
    <3>4. nd.key[t] >= k
      BY <3>1, <3>2, <3>3
    <3> QED BY <1>1, <3>4
  <2>2. beyond \subseteq 0..cap-1
    BY <1>1
  <2> HIDE DEF beyond
  <2> QED BY <2>1, <2>2 DEF UpSet
<1>4. FirstBeyond(u, cap, beyond)
  <2> HIDE DEF beyond
  <2> QED BY <1>1, <1>2, <1>3, ExponentialSearchExact
<1> QED BY <1>1, <1>4 DEF FirstBeyond, cap, u

(* A slot whose key is below the sentinel and that of the next slot is     *)
(* filled.                                                                 *)
LEMMA LastOfKeyFilled ==
  ASSUME NEW nd, NodeOK(nd), NEW s \in 0..nd.cap-1, nd.key[s] < Sentinel,
         \A t \in 0..nd.cap-1 : s < t => nd.key[s] < nd.key[t]
  PROVE  s \in Filled(nd)
<1> DEFINE cap == nd.cap
           key == nd.key
           filled == Filled(nd)
<1>1. /\ cap \in Nat \ {0} /\ key \in [0..cap-1 -> Nat] /\ filled \subseteq 0..cap-1
      /\ Sentinel \in Nat /\ Gapped(cap, key, filled) /\ s \in 0..cap-1
  BY NodeFacts DEF NodeOK
<1>2. key[s] < Sentinel /\ \A t \in 0..cap-1 : s < t => key[s] < key[t]
  OBVIOUS
<1>3. SUFFICES s \in filled
  OBVIOUS
<1> HIDE DEF cap, key, filled
<1>4. ~ (\A g \in filled : g < s)
  BY <1>1, <1>2 DEF Gapped
<1>5. \E g \in filled : s <= g
  BY <1>1, <1>4
<1>6. PICK f \in filled : s <= f /\ \A g \in filled : g < s \/ f <= g
  <2>1. cap \in Nat /\ s \in Int
    BY <1>1
  <2> QED BY <1>1, <1>5, <2>1, NextEntry
<1>7. key[s] = key[f] /\ f \in 0..cap-1
  BY <1>1, <1>6 DEF Gapped
<1>8. ~ (s < f)
  BY <1>1, <1>2, <1>7
<1>9. s = f
  BY <1>1, <1>6, <1>7, <1>8
<1> QED BY <1>6, <1>9

LEMMA UpperSplits ==
  ASSUME NEW nd, NodeOK(nd), NEW m \in SlotsOf(nd), NEW k \in Keys,
         NEW u, u = UpperBound(nd, m, k)
  PROVE  /\ u \in 0..nd.cap
         /\ {s \in Filled(nd) : nd.key[s] <= k} = {s \in Filled(nd) : s < u}
         /\ u > 0 => u - 1 \in Filled(nd) /\ nd.key[u-1] <= k
<1> DEFINE cap == nd.cap
           key == nd.key
           filled == Filled(nd)
<1>1. /\ cap \in Nat \ {0} /\ key \in [0..cap-1 -> Nat] /\ filled \subseteq 0..cap-1
      /\ Sentinel \in Nat /\ k \in Nat /\ k < Sentinel
  BY NodeFacts
<1>2. u \in 0..cap /\ \A s \in 0..cap-1 : key[s] > k <=> u <= s
  <2>1. k \in Int
    BY <1>1
  <2> QED BY <2>1, UpperBoundExact
<1>3. \A s \in 0..cap-1 : key[s] <= k <=> s < u
  <2>1. \A s \in 0..cap-1 : key[s] \in Nat /\ s \in Int /\ u \in Int
    BY <1>1, <1>2
  <2>2. \A s \in 0..cap-1 : (key[s] <= k <=> ~ (key[s] > k)) /\ (s < u <=> ~ (u <= s))
    BY <1>1, <2>1
  <2> QED BY <1>2, <2>2
<1>4. {s \in filled : key[s] <= k} = {s \in filled : s < u}
  BY <1>1, <1>3
<1>5. ASSUME u > 0 PROVE u - 1 \in filled /\ key[u-1] <= k
  <2> DEFINE t == u - 1
  <2>1. t \in 0..cap-1 /\ t < u /\ \A s \in 0..cap-1 : t < s => u <= s
    BY <1>1, <1>2, <1>5
  <2> HIDE DEF t
  <2>2. key[t] <= k /\ key[t] \in Nat
    BY <1>1, <1>3, <2>1
  <2>3. key[t] < Sentinel
    BY <1>1, <2>2
  <2>4. \A s \in 0..cap-1 : t < s => key[t] < key[s]
    <3> TAKE s \in 0..cap-1
    <3> HAVE t < s
    <3>1. key[s] > k /\ key[s] \in Nat
      BY <1>1, <1>2, <2>1
    <3> QED BY <1>1, <2>2, <3>1
  <2>5. t \in filled
    BY <2>1, <2>3, <2>4, LastOfKeyFilled
  <2> QED BY <2>2, <2>5 DEF t
<1> QED BY <1>2, <1>4, <1>5

LEMMA LowerSplits ==
  ASSUME NEW nd, NodeOK(nd), NEW m \in SlotsOf(nd), NEW k \in Keys,
         NEW u, u = LowerBound(nd, m, k)
  PROVE  /\ u \in 0..nd.cap
         /\ {s \in Filled(nd) : nd.key[s] < k} = {s \in Filled(nd) : s < u}
         /\ u = nd.cap => nd.cap - 1 \in Filled(nd)
<1> DEFINE cap == nd.cap
           key == nd.key
           filled == Filled(nd)
<1>1. /\ cap \in Nat \ {0} /\ key \in [0..cap-1 -> Nat] /\ filled \subseteq 0..cap-1
      /\ Sentinel \in Nat /\ k \in Nat /\ k < Sentinel
  BY NodeFacts
<1>2. u \in 0..cap /\ \A s \in 0..cap-1 : key[s] >= k <=> u <= s
  <2>1. k \in Int
    BY <1>1
  <2> QED BY <2>1, LowerBoundExact
<1>3. \A s \in 0..cap-1 : key[s] < k <=> s < u
  <2>1. \A s \in 0..cap-1 : key[s] \in Nat /\ s \in Int /\ u \in Int
    BY <1>1, <1>2
  <2>2. \A s \in 0..cap-1 : (key[s] < k <=> ~ (key[s] >= k)) /\ (s < u <=> ~ (u <= s))
    BY <1>1, <2>1
  <2> QED BY <1>2, <2>2
<1>4. {s \in filled : key[s] < k} = {s \in filled : s < u}
  BY <1>1, <1>3
<1>5. ASSUME u = cap PROVE cap - 1 \in filled
  <2> DEFINE t == cap - 1
  <2>1. t \in 0..cap-1 /\ t < u /\ \A s \in 0..cap-1 : ~ (t < s)
    BY <1>1, <1>5
  <2> HIDE DEF t
  <2>2. key[t] < k /\ key[t] \in Nat
    BY <1>1, <1>3, <2>1
  <2>3. key[t] < Sentinel
    BY <1>1, <2>2
  <2>4. t \in filled
    BY <2>1, <2>3, LastOfKeyFilled
  <2> QED BY <2>4 DEF t
<1> QED BY <1>2, <1>4, <1>5

(* get_next_filled_position(): past the last slot, if the word behind the  *)
(* bitmap is not read, is zero, or has its first bit set.                  *)
LEMMA NextFilledExact ==
  ASSUME NEW nd, NodeOK(nd), NEW pos \in 0..nd.cap,
         pos = nd.cap => nd.cap - 1 \in Filled(nd) /\ SafeEnd(nd)
  PROVE  LET n == NextFilled(nd, pos)
         IN /\ n = Min({s \in Filled(nd) : s >= pos} \cup {nd.cap})
            /\ n \in pos..nd.cap
            /\ n = nd.cap \/ n \in Filled(nd)
            /\ \A s \in Filled(nd) : s < pos \/ n <= s
<1> DEFINE cap == nd.cap
           filled == Filled(nd)
           T == {s \in filled : s >= pos} \cup {cap}
           n == NextFilled(nd, pos)
<1>1. cap \in Nat \ {0} /\ filled \subseteq 0..cap-1 /\ pos \in 0..cap
  BY NodeFacts
<1>2. \A s \in filled : s \in Int /\ s \in 0..cap-1 /\ s < cap
  BY <1>1
<1>3. n = Min(T)
  <2>1. CASE pos = cap /\ cap % W = 0 /\ StrayBits # {}
    <3>1. 0 \in StrayBits
      BY <2>1 DEF SafeEnd
    <3>2. Min(StrayBits) = 0
      <4>1. StrayBits \subseteq 0..W-1 /\ StrayBits # {} /\ 0 \in Int /\ W - 1 \in Int
        BY <3>1, StrayAssumption, SizesAssumption
      <4>2. Min(StrayBits) \in StrayBits /\ \A b \in StrayBits : Min(StrayBits) <= b
        BY ONLY <4>1, MinOfInterval
      <4> DEFINE least == Min(StrayBits)
      <4>3. least \in 0..W-1 /\ least <= 0
        BY <3>1, <4>1, <4>2
      <4> HIDE DEF least
      <4>4. least = 0
        BY <4>1, <4>3
      <4> QED BY <4>4 DEF least
    <3>3. n = cap + Min(StrayBits)
      BY <2>1 DEF NextFilled
    <3>4. T = {cap}
      BY <1>1, <1>2, <2>1
    <3>5. Min({cap}) = cap
      <4>1. {cap, cap} = {cap} /\ cap \in Int
        BY <1>1
      <4> HIDE DEF cap
      <4> QED BY <4>1, MinOfTwo
    <3> HIDE DEF T, n, cap
    <3> QED BY <1>1, <3>2, <3>3, <3>4, <3>5
  <2>2. CASE ~ (pos = cap /\ cap % W = 0 /\ StrayBits # {})
    BY <2>2 DEF NextFilled
  <2> QED BY <2>1, <2>2
<1>4. T \subseteq 0..cap /\ T # {} /\ 0 \in Int /\ cap \in Int
  BY <1>1, <1>2
<1>5. Min(T) \in T /\ \A s \in T : Min(T) <= s
  <2> HIDE DEF T, cap
  <2> QED BY <1>4, MinOfInterval
<1> HIDE DEF n
<1>6. \A s \in filled : s < pos \/ n <= s
  BY <1>1, <1>2, <1>3, <1>5
<1>7. n \in pos..cap /\ (n = cap \/ n \in filled)
  <2>1. n \in T
    BY <1>3, <1>5
  <2> QED BY <1>1, <1>2, <2>1
<1> QED BY <1>3, <1>6, <1>7 DEF n

LEMMA FindKeyExact ==
  ASSUME NEW nd, NodeOK(nd), NEW m \in SlotsOf(nd), NEW k \in Keys
  PROVE  LET upTo == {s \in Filled(nd) : nd.key[s] <= k}
             below == {s \in Filled(nd) : nd.key[s] < k}
         IN FindKey(nd, m, k) = IF upTo = below THEN -1 ELSE Max(upTo)
<1> DEFINE cap == nd.cap
           key == nd.key
           filled == Filled(nd)
           upTo == {s \in filled : key[s] <= k}
           below == {s \in filled : key[s] < k}
           u == UpperBound(nd, m, k)
           t == u - 1
<1>1. /\ cap \in Nat \ {0} /\ key \in [0..cap-1 -> Nat] /\ filled \subseteq 0..cap-1
      /\ Sentinel \in Nat /\ k \in Nat /\ Gapped(cap, key, filled)
  BY NodeFacts DEF NodeOK
<1>2. /\ u \in 0..cap /\ upTo = {s \in filled : s < u}
      /\ u > 0 => t \in filled /\ key[t] <= k
  BY UpperSplits
<1>3. FindKey(nd, m, k) = IF t < 0 \/ key[t] # k THEN -1 ELSE t
  BY DEF FindKey
<1> HIDE DEF u, cap, key, filled
<1>4. CASE u = 0
  <2>1. upTo = {}
    <3>1. \A s \in filled : s \in 0..cap-1 /\ ~ (s < 0)
      BY <1>1
    <3> HIDE DEF upTo
    <3> QED BY <1>2, <1>4, <3>1
  <2>2. below = {}
    <3>1. \A s \in filled : key[s] \in Nat
      BY <1>1
    <3>2. \A s \in filled : key[s] < k => key[s] <= k
      BY <1>1, <3>1
    <3>3. below \subseteq upTo
      BY <3>2
    <3> QED BY <2>1, <3>3
  <2> QED BY <1>3, <1>4, <2>1, <2>2 DEF key, filled
<1>5. CASE u > 0
  <2>1. t \in filled /\ key[t] <= k /\ key[t] \in Nat /\ t \in 0..cap-1 /\ t < u /\ t \in upTo
    BY <1>1, <1>2, <1>5
  <2>2. \A s \in upTo : s \in filled /\ s <= t /\ s \in 0..cap-1
    BY <1>1, <1>2
  <2>3. CASE key[t] = k
    <3>1. t \notin below
      BY <1>1, <2>3
    <3>2. Max(upTo) \in upTo /\ \A y \in upTo : y <= Max(upTo)
      <4> HIDE DEF upTo
      <4>1. upTo \subseteq 0..cap-1 /\ upTo # {}
        BY <2>1, <2>2
      <4>2. 0 \in Int /\ cap - 1 \in Int
        BY <1>1
      <4> QED BY ONLY <4>1, <4>2, MaxOfInterval
    <3>3. Max(upTo) = t
      <4> HIDE DEF upTo
      <4> DEFINE x == Max(upTo)
      <4>1. x \in upTo /\ t <= x /\ x <= t /\ x \in Int /\ t \in Int
        BY <2>1, <2>2, <3>2
      <4> HIDE DEF x
      <4> QED BY <4>1 DEF x
    <3>4. upTo # below
      BY <2>1, <3>1
    <3>5. ~ (t < 0 \/ key[t] # k)
      BY <1>1, <2>1, <2>3
    <3> HIDE DEF t
    <3> QED BY <1>3, <3>3, <3>4, <3>5 DEF key, filled
  <2>4. CASE key[t] # k
    <3>1. \A s \in upTo : key[s] < k
      <4> TAKE s \in upTo
      <4>1. s \in 0..cap-1 /\ s <= t
        BY <2>2
      <4>2. key[s] <= key[t]
        BY <1>1, <2>1, <4>1, KeysAscend
      <4>3. key[s] \in Nat
        BY <1>1, <4>1
      <4> QED BY <1>1, <2>1, <2>4, <4>2, <4>3
    <3>2. upTo = below
      <4>1. \A s \in filled : key[s] \in Nat
        BY <1>1
      <4>2. \A s \in filled : key[s] < k => key[s] <= k
        BY <1>1, <4>1
      <4> QED BY <3>1, <4>2
    <3> HIDE DEF t
    <3> QED BY <1>3, <2>4, <3>2 DEF key, filled
  <2> QED BY <2>3, <2>4
<1> QED BY <1>2, <1>4, <1>5

(* A position between the entries up to a key and those behind it.         *)
Between(nd, k, at) ==
  /\ at \in 0..nd.cap
  /\ \A f \in Filled(nd) : (nd.key[f] <= k => f < at) /\ (nd.key[f] > k => at <= f)

(* As close to the prediction as the gap between those entries allows.     *)
Placed(nd, m, k, at) ==
  LET upTo == {s \in Filled(nd) : nd.key[s] <= k}
      after == Filled(nd) \ upTo
      open == {s \in SlotsOf(nd) \ Filled(nd) :
                 (\A f \in upTo : f < s) /\ (\A f \in after : s < f)}
  IN /\ \A f \in upTo : f < at
     /\ \A f \in after : at <= f
     /\ open # {} => at \in open /\ \A s \in open : Abs(at - m) <= Abs(s - m)

LEMMA InsertPositionExact ==
  ASSUME NEW nd, NodeOK(nd), NEW m \in SlotsOf(nd), NEW k \in Keys
  PROVE  /\ Between(nd, k, InsertPosition(nd, m, k))
         /\ Placed(nd, m, k, InsertPosition(nd, m, k))
<1> DEFINE cap == nd.cap
           key == nd.key
           filled == Filled(nd)
           upTo == {s \in filled : key[s] <= k}
           after == filled \ upTo
           at == InsertPosition(nd, m, k)
           u == UpperBound(nd, m, k)
           open == {s \in SlotsOf(nd) \ filled :
                      (\A f \in upTo : f < s) /\ (\A f \in after : s < f)}
<1>1. /\ cap \in Nat \ {0} /\ key \in [0..cap-1 -> Nat] /\ filled \subseteq 0..cap-1
      /\ Sentinel \in Nat /\ k \in Nat /\ SlotsOf(nd) = 0..cap-1 /\ m \in 0..cap-1
  BY NodeFacts
<1>2. /\ u \in 0..cap /\ upTo = {s \in filled : s < u}
      /\ u > 0 => u - 1 \in filled /\ key[u-1] <= k
  BY UpperSplits
<1>3. /\ \A s \in filled : s \in Int /\ s \in 0..cap-1
      /\ \A s \in upTo : s \in filled /\ s < u
      /\ \A s \in after : s \in filled /\ u <= s
      /\ u \in Int /\ m \in Int
  BY <1>1, <1>2
<1>4. \A s \in open : s \in 0..cap-1 /\ u <= s
  <2> TAKE s \in open
  <2>1. s \in 0..cap-1 /\ s \in Int /\ \A f \in upTo : f < s
    BY <1>1
  <2>2. CASE u = 0
    BY <2>1, <2>2
  <2>3. CASE u > 0
    <3>1. u - 1 \in upTo
      BY <1>2, <1>3, <2>3
    <3> QED BY <1>3, <2>1, <3>1
  <2> QED BY <1>2, <2>2, <2>3
<1> DEFINE Goal(p) == /\ p \in 0..cap
                      /\ \A f \in upTo : f < p
                      /\ \A f \in after : p <= f
                      /\ open # {} => p \in open /\ \A s \in open : Abs(p - m) <= Abs(s - m)
<1>5. Goal(at)
  <2>1. CASE m <= u \/ u \in filled
    <3>1. at = u
      BY <2>1 DEF InsertPosition
    <3> HIDE DEF at, filled, u
    <3>2. ASSUME open # {}
          PROVE  u \in open /\ \A s \in open : Abs(u - m) <= Abs(s - m)
      <4>1. u \in 0..cap-1
        <5>1. PICK s \in open : TRUE
          BY <3>2
        <5>2. s \in 0..cap-1 /\ u <= s
          BY <1>4, <5>1
        <5> HIDE DEF open, upTo, after
        <5> QED BY <1>1, <1>2, <5>2
      <4>2. u \notin filled
        <5>1. SUFFICES ASSUME u \in filled PROVE FALSE
          OBVIOUS
        <5>2. u \in after
          BY <1>2, <1>3, <5>1
        <5>3. PICK s \in open : TRUE
          BY <3>2
        <5>4. s < u
          BY <5>2, <5>3
        <5> QED BY <1>3, <1>4, <5>3, <5>4
      <4>3. u \in open
        <5>1. \A f \in after : u < f
          BY <1>3, <4>2
        <5> QED BY <1>1, <1>3, <4>1, <4>2, <5>1
      <4>4. m <= u
        BY <2>1, <4>2
      <4>5. \A s \in open : Abs(u - m) <= Abs(s - m)
        <5> HIDE DEF open
        <5> QED BY <1>3, <1>4, <4>4 DEF Abs
      <4> QED BY <4>3, <4>5
    <3> HIDE DEF open, upTo, after
    <3> QED BY <1>2, <1>3, <3>1, <3>2
  <2>2. CASE u < m /\ u \notin filled
    <3> DEFINE e == IF u + 1 = cap THEN cap ELSE NextFilled(nd, u + 1)
    <3>1. at = Min({m, e - 1})
      <4>1. ~ (m <= u \/ u \in filled)
        BY <1>3, <2>2
      <4> QED BY <4>1 DEF InsertPosition
    <3>2. /\ e \in u+1..cap /\ e \in Int /\ (e = cap \/ e \in filled)
          /\ \A s \in filled : s < u + 1 \/ e <= s
      <4>1. CASE u + 1 = cap
        BY <1>1, <1>3, <4>1
      <4>2. CASE u + 1 # cap
        <5>1. u + 1 \in 0..cap /\ u + 1 \in Int
          BY <1>1, <1>2, <2>2
        <5>2. /\ NextFilled(nd, u + 1) \in u+1..cap
              /\ NextFilled(nd, u + 1) = cap \/ NextFilled(nd, u + 1) \in filled
              /\ \A s \in filled : s < u + 1 \/ NextFilled(nd, u + 1) <= s
          BY <4>2, <5>1, NextFilledExact
        <5> QED BY <1>1, <4>2, <5>1, <5>2
      <4> QED BY <4>1, <4>2
    <3> HIDE DEF e, at, filled, u
    <3>3. at = (IF m <= e - 1 THEN m ELSE e - 1) /\ at \in Int
      BY <1>3, <3>1, <3>2, MinOfTwo
    <3>4. u <= at /\ at < e /\ at \in 0..cap-1 /\ (at = m \/ (at < m /\ at = e - 1))
      BY <1>1, <1>2, <1>3, <2>2, <3>2, <3>3
    <3>5. \A s \in filled : s < u \/ e <= s
      <4> TAKE s \in filled
      <4>1. s # u /\ s \in Int
        BY <1>3, <2>2
      <4> QED BY <1>3, <3>2, <4>1
    <3>6. \A f \in after : at < f
      BY <1>3, <3>2, <3>4, <3>5
    <3>7. \A f \in upTo : f < at
      BY <1>3, <3>4
    <3>8. at \in open
      <4>1. at \notin filled
        BY <1>3, <3>2, <3>4, <3>5
      <4> QED BY <1>1, <3>4, <3>6, <3>7, <4>1
    <3>9. \A s \in open : s < e
      <4> TAKE s \in open
      <4>1. CASE e = cap
        BY <1>1, <1>4, <4>1
      <4>2. CASE e \in filled
        <5>1. e \in after
          BY <1>2, <1>3, <3>2, <4>2
        <5> QED BY <5>1
      <4> QED BY <3>2, <4>1, <4>2
    <3>10. \A s \in open : Abs(at - m) <= Abs(s - m)
      <4> TAKE s \in open
      <4>1. s \in Int /\ s < e
        BY <1>4, <3>9
      <4> QED BY <1>3, <3>2, <3>3, <3>4, <4>1 DEF Abs
    <3>11. \A f \in after : at <= f
      BY <1>3, <3>3, <3>6
    <3> HIDE DEF open, upTo, after
    <3> QED BY <1>1, <3>4, <3>7, <3>8, <3>10, <3>11
  <2> QED BY <1>3, <2>1, <2>2
<1>6. Between(nd, k, at)
  <2> HIDE DEF at
  <2>1. \A f \in filled : key[f] \in Nat /\ (key[f] <= k => f \in upTo) /\ (key[f] > k => f \in after)
    BY <1>1
  <2> QED BY <1>5, <2>1 DEF Between
<1> QED BY <1>5, <1>6 DEF Placed

-----------------------------------------------------------------------------
(* Words of the bitmap and the slots they stand for.                       *)
LEMMA WordsOrdered ==
  ASSUME NEW w \in Nat \ {0}, NEW i \in Int, NEW j \in Int, i < j
  PROVE  i * w + w <= j * w /\ i * w \in Int /\ j * w \in Int
<1>1. j - i - 1 >= 0 /\ j - i - 1 \in Int
  OBVIOUS
<1>2. (j - i - 1) * w >= 0
  BY <1>1
<1>3. (j - i - 1) * w = j * w - i * w - w
  OBVIOUS
<1> QED BY <1>2, <1>3

LEMMA WordOf ==
  ASSUME NEW w \in Nat \ {0}, NEW x \in Nat
  PROVE  /\ x \div w \in Nat /\ x % w \in 0..w-1
         /\ x = (x \div w) * w + (x % w)
<1>1. x \div w \in Int /\ x % w \in Int
  OBVIOUS
<1>2. (x \div w) * w <= x /\ x < (x \div w + 1) * w
  OBVIOUS
<1>3. x = (x \div w) * w + (x % w)
  BY Z3
<1> DEFINE q == x \div w
           r == x % w
<1>4. q \in Int /\ r \in Int /\ q * w <= x /\ x < (q + 1) * w /\ x = q * w + r
  BY <1>1, <1>2, <1>3
<1> HIDE DEF q, r
<1>5. (q + 1) * w = q * w + w /\ q * w \in Int
  BY <1>4
<1>6. r \in 0..w-1
  BY <1>4, <1>5
<1>7. q >= 0
  <2>1. SUFFICES ASSUME q < 0 PROVE FALSE
    BY <1>4
  <2>2. (q + 1) * w <= 0
    <3>1. q + 1 <= 0 /\ q + 1 \in Int
      BY <1>4, <2>1
    <3> QED BY <3>1
  <2> QED BY <1>4, <1>5, <2>2
<1> QED BY <1>3, <1>4, <1>6, <1>7 DEF q, r

LEMMA WordsMonotone ==
  ASSUME NEW w \in Nat \ {0}, NEW x \in Nat, NEW y \in Nat, x <= y
  PROVE  x \div w <= y \div w
<1> DEFINE i == x \div w
           j == y \div w
<1>1. /\ i \in Int /\ j \in Int /\ i * w \in Int /\ j * w \in Int
      /\ i * w <= x /\ y < j * w + w
  <2>1. /\ i \in Int /\ x % w \in 0..w-1 /\ x = i * w + (x % w)
        /\ j \in Int /\ y % w \in 0..w-1 /\ y = j * w + (y % w)
    BY WordOf
  <2> HIDE DEF i, j
  <2>2. i * w \in Int /\ j * w \in Int
    BY <2>1
  <2> QED BY <2>1, <2>2
<1> HIDE DEF i, j
<1>2. j < i => j * w + w <= i * w
  BY <1>1, WordsOrdered
<1>3. i <= j
  BY <1>1, <1>2
<1> QED BY <1>3 DEF i, j

LEMMA GapFacts ==
  ASSUME NEW filled, NEW w \in Nat \ {0}, NEW i \in Int
  PROVE  /\ i * w \in Int
         /\ \A g : g \in GapsOf(filled, w, i) <=>
                     g \in Int /\ i * w <= g /\ g < i * w + w /\ g \notin filled
         /\ GapsOf(filled, w, i) = {} =>
              FirstGap(filled, w, i) = i * w + w /\ LastGap(filled, w, i) = i * w - 1
         /\ GapsOf(filled, w, i) # {} =>
              /\ FirstGap(filled, w, i) \in GapsOf(filled, w, i)
              /\ LastGap(filled, w, i) \in GapsOf(filled, w, i)
         /\ \A g \in GapsOf(filled, w, i) :
              FirstGap(filled, w, i) <= g /\ g <= LastGap(filled, w, i)
         /\ FirstGap(filled, w, i) \in i * w..i * w + w
         /\ LastGap(filled, w, i) \in i * w - 1..i * w + w - 1
<1> DEFINE a == i * w
           G == GapsOf(filled, w, i)
           A == G \cup {a + w}
           B == G \cup {a - 1}
<1>1. a \in Int
  OBVIOUS
<1>2. G = (a..a+w-1) \ filled
  BY DEF GapsOf
<1>3. FirstGap(filled, w, i) = Min(A) /\ LastGap(filled, w, i) = Max(B)
  BY DEF FirstGap, LastGap
<1> HIDE DEF a, G
<1>4. \A g : g \in G <=> g \in Int /\ a <= g /\ g < a + w /\ g \notin filled
  BY <1>1, <1>2
<1>5. Min(A) \in A /\ \A g \in A : Min(A) <= g
  <2>1. A \subseteq a..a+w /\ A # {} /\ a + w \in Int
    BY <1>1, <1>4
  <2> HIDE DEF A
  <2> QED BY <1>1, <2>1, MinOfInterval
<1>6. Max(B) \in B /\ \A g \in B : g <= Max(B)
  <2>1. B \subseteq a-1..a+w /\ B # {} /\ a + w \in Int /\ a - 1 \in Int
    BY <1>1, <1>4
  <2> HIDE DEF B
  <2> QED BY <2>1, MaxOfInterval
<1> DEFINE f == Min(A)
           l == Max(B)
<1>7. f \in A /\ l \in B /\ (\A g \in A : f <= g) /\ (\A g \in B : g <= l)
  BY <1>5, <1>6
<1> HIDE DEF f, l
<1>8. G = {} => f = a + w /\ l = a - 1
  BY <1>7
<1>9. ASSUME G # {} PROVE f \in G /\ l \in G
  <2>1. PICK g \in G : TRUE
    BY <1>9
  <2>2. g \in Int /\ a <= g /\ g < a + w /\ f <= g /\ g <= l
    BY <1>4, <1>7, <2>1
  <2>3. f # a + w /\ l # a - 1
    BY <1>1, <2>2
  <2> QED BY <1>7, <2>3
<1>10. \A g \in G : f <= g /\ g <= l
  BY <1>7
<1>11. FirstGap(filled, w, i) = f /\ LastGap(filled, w, i) = l
  BY <1>3 DEF f, l
<1>12. f \in a..a+w /\ l \in a-1..a+w-1
  BY <1>1, <1>4, <1>7
<1> QED BY <1>1, <1>4, <1>8, <1>9, <1>10, <1>11, <1>12 DEF a, G

(* A gap lies in the word its slot belongs to, and so behind the last gap  *)
(* of no later word and in front of the first of no earlier one.           *)
LEMMA GapsByWord ==
  ASSUME NEW filled, NEW w \in Nat \ {0}, NEW g \in Nat, g \notin filled
  PROVE  /\ g \div w \in Nat
         /\ g \in GapsOf(filled, w, g \div w)
         /\ \A i \in Int : g \div w <= i => g <= LastGap(filled, w, i) /\ g < i * w + w
         /\ \A i \in Int : i <= g \div w => FirstGap(filled, w, i) <= g /\ i * w <= g
<1> DEFINE v == g \div w
<1>1. v \in Nat /\ v * w \in Int /\ v * w <= g /\ g < v * w + w
  <2>1. v \in Nat /\ g % w \in 0..w-1 /\ g = v * w + (g % w)
    BY WordOf
  <2> HIDE DEF v
  <2>2. v * w \in Int
    BY <2>1
  <2> QED BY <2>1, <2>2
<1> HIDE DEF v
<1>2. g \in GapsOf(filled, w, v)
  BY <1>1, GapFacts
<1>3. ASSUME NEW i \in Int, v <= i PROVE g <= LastGap(filled, w, i) /\ g < i * w + w
  <2>1. CASE v = i
    BY <1>1, <1>2, <2>1, GapFacts
  <2>2. CASE v < i
    <3>1. v * w + w <= i * w /\ i * w \in Int
      BY <1>1, <2>2, WordsOrdered
    <3>2. LastGap(filled, w, i) \in i * w - 1..i * w + w - 1
      BY GapFacts
    <3> DEFINE a == i * w
    <3>3. a \in Int /\ LastGap(filled, w, i) \in a-1..a+w-1 /\ v * w + w <= a
      BY <3>1, <3>2
    <3> HIDE DEF a
    <3>4. g <= LastGap(filled, w, i) /\ g < a + w
      BY <1>1, <3>3
    <3> QED BY <3>4 DEF a
  <2> QED BY <1>1, <1>3, <2>1, <2>2
<1>4. ASSUME NEW i \in Int, i <= v PROVE FirstGap(filled, w, i) <= g /\ i * w <= g
  <2>1. CASE v = i
    BY <1>1, <1>2, <2>1, GapFacts
  <2>2. CASE i < v
    <3>1. i * w + w <= v * w /\ i * w \in Int
      BY <1>1, <2>2, WordsOrdered
    <3>2. FirstGap(filled, w, i) \in i * w..i * w + w
      BY GapFacts
    <3> DEFINE a == i * w
    <3>3. a \in Int /\ FirstGap(filled, w, i) \in a..a+w /\ a + w <= v * w
      BY <3>1, <3>2
    <3> HIDE DEF a
    <3>4. FirstGap(filled, w, i) <= g /\ a <= g
      BY <1>1, <3>3
    <3> QED BY <3>4 DEF a
  <2> QED BY <1>1, <1>4, <2>1, <2>2
<1> QED BY <1>1, <1>2, <1>3, <1>4 DEF v

(* The nearer one of two gaps is the closest if no other is between them.  *)
LEMMA NearerClosest ==
  ASSUME NEW cap \in Nat, NEW filled, NEW pos \in 0..cap-1, NEW l \in Nat, NEW r \in Nat,
         l \notin filled, r \notin filled, l < pos, pos < r,
         \A g \in (0..cap-1) \ filled : g <= l \/ r <= g
  PROVE  IsClosestGap(Nearer(cap, pos, l, r), filled, cap, pos)
BY DEF IsClosestGap, Nearer, Abs

LEMMA LeftClosest ==
  ASSUME NEW cap \in Nat, NEW filled, NEW pos \in 0..cap-1, NEW l \in Nat, NEW r \in Int,
         l \notin filled, l < pos, pos - l <= r - pos,
         \A g \in (0..cap-1) \ filled : g <= l \/ r <= g
  PROVE  IsClosestGap(l, filled, cap, pos)
BY DEF IsClosestGap, Abs

LEMMA RightClosest ==
  ASSUME NEW cap \in Nat, NEW filled, NEW pos \in 0..cap-1, NEW l \in Int, NEW r \in 0..cap-1,
         r \notin filled, pos < r, r - pos <= pos - l,
         \A g \in (0..cap-1) \ filled : g <= l \/ r <= g
  PROVE  IsClosestGap(r, filled, cap, pos)
BY DEF IsClosestGap, Abs

LEMMA AroundExact ==
  ASSUME NEW cap \in Nat \ {0}, NEW filled, filled \subseteq 0..cap-1,
         NEW w \in Nat \ {0}, NEW pos \in 0..cap-1, NEW d \in Nat \ {0},
         d <= pos \div w, pos \div w + d <= (cap - 1) \div w,
         \A g \in (0..cap-1) \ filled :
           g \div w <= pos \div w - d \/ pos \div w + d <= g \div w
  PROVE  LET a == Around(filled, cap, w, pos, d)
         IN /\ a = -1 => \A g \in (0..cap-1) \ filled :
                           g \div w < pos \div w - d \/ pos \div w + d < g \div w
            /\ a # -1 => IsClosestGap(a, filled, cap, pos)
<1> DEFINE Free == (0..cap-1) \ filled
           word == pos \div w
           bit == pos % w
           lastWord == (cap - 1) \div w
           l == word - d
           r == word + d
           S == word * w
           D == d * w
           a == Around(filled, cap, w, pos, d)
           G(i) == GapsOf(filled, w, i)
           F(i) == FirstGap(filled, w, i)
           L(i) == LastGap(filled, w, i)
           Rest == \A g \in Free : g \div w < l \/ r < g \div w
<1> SUFFICES IsClosestGap(a, filled, cap, pos) \/ (a = -1 /\ Rest)
  <2>1. IsClosestGap(a, filled, cap, pos) => a # -1
    BY DEF IsClosestGap
  <2> HIDE DEF a
  <2>2. ASSUME IsClosestGap(a, filled, cap, pos) \/ (a = -1 /\ Rest)
        PROVE  (a = -1 => Rest) /\ (a # -1 => IsClosestGap(a, filled, cap, pos))
    BY <2>1, <2>2
  <2> QED BY <2>2 DEF a
<1>1. /\ word \in Nat /\ bit \in 0..w-1 /\ pos = S + bit /\ S \in Int
      /\ lastWord \in Nat /\ lastWord * w \in Int /\ lastWord * w <= cap - 1
  <2>1. pos \in Nat /\ cap - 1 \in Nat
    OBVIOUS
  <2>2. word \in Nat /\ bit \in 0..w-1 /\ pos = word * w + bit
    BY <2>1, WordOf
  <2> DEFINE v == (cap - 1) % w
  <2>3. lastWord \in Nat /\ v \in 0..w-1 /\ cap - 1 = lastWord * w + v
    BY <2>1, WordOf
  <2> HIDE DEF word, lastWord, v
  <2>4. lastWord * w \in Int /\ word * w \in Int
    BY <2>2, <2>3
  <2> QED BY <2>2, <2>3, <2>4
<1>2. a = IF G(l) # {} /\ G(r) # {} THEN Nearer(cap, pos, L(l), F(r))
          ELSE IF G(l) # {}
               THEN IF bit > w \div 2 /\ r < lastWord /\ G(r + 1) # {}
                    THEN Nearer(cap, pos, L(l), F(r + 1)) ELSE L(l)
          ELSE IF G(r) # {} /\ F(r) < cap
               THEN IF bit < w \div 2 /\ l > 0 /\ G(l - 1) # {}
                    THEN Nearer(cap, pos, L(l - 1), F(r)) ELSE F(r)
          ELSE -1
  BY DEF Around
<1>3. \A g \in Free : g \div w <= l \/ r <= g \div w
  OBVIOUS
<1>4. l \in Nat /\ r \in Nat /\ r <= lastWord /\ d <= word
  <2>1. d <= word /\ word + d <= lastWord
    OBVIOUS
  <2> HIDE DEF word, lastWord
  <2> QED BY <1>1, <2>1
<1> HIDE DEF word, bit, lastWord, a
<1>5. l * w = S - D /\ r * w = S + D /\ (r + 1) * w = S + D + w /\ (l - 1) * w = S - D - w
  BY <1>1
<1>6. D \in Int /\ w <= D
  <2>1. 0 \in Int /\ d \in Int /\ 0 < d
    OBVIOUS
  <2>2. 0 * w + w <= d * w /\ d * w \in Int
    BY ONLY <2>1, WordsOrdered, w \in Nat \ {0}
  <2> QED BY <2>2
<1>7. \A i \in Int : /\ \A g : g \in G(i) <=> g \in Int /\ i * w <= g /\ g < i * w + w /\ g \notin filled
                     /\ i * w \in Int
                     /\ G(i) # {} => F(i) \in G(i) /\ L(i) \in G(i)
                     /\ F(i) \in i * w..i * w + w /\ L(i) \in i * w - 1..i * w + w - 1
  BY GapFacts
<1>8. \A g \in Free : /\ g \in Nat /\ g \div w \in Nat /\ g \in G(g \div w)
                      /\ \A i \in Int : g \div w <= i => g <= L(i)
                      /\ \A i \in Int : i <= g \div w => F(i) <= g
  <2> TAKE g \in Free
  <2>1. g \in Nat /\ g \notin filled
    OBVIOUS
  <2> QED BY <2>1, GapsByWord
<1> HIDE DEF G, F, L
<1>9. /\ G(l) # {} => L(l) \in Nat /\ L(l) \notin filled /\ L(l) < pos /\ L(l) >= S - D
      /\ G(r) # {} => F(r) \in Nat /\ F(r) \notin filled /\ pos < F(r) /\ F(r) < S + D + w
      /\ F(r + 1) \in Nat /\ pos < F(r + 1) /\ F(r + 1) >= S + D + w
      /\ G(r + 1) # {} => F(r + 1) \notin filled
      /\ G(r + 1) = {} => \A g \in Free : r + 1 <= g \div w => r + 2 <= g \div w
      /\ L(l - 1) \in Int /\ L(l - 1) < pos /\ L(l - 1) < S - D
      /\ l > 0 /\ G(l - 1) # {} => L(l - 1) \in Nat /\ L(l - 1) \notin filled
  <2>1. l \in Int /\ r \in Int /\ r + 1 \in Int /\ l - 1 \in Int
    BY <1>4
  <2>2. l * w >= 0 /\ r * w >= 0
    BY <1>4
  <2>3. G(l) # {} => L(l) \in Nat /\ L(l) \notin filled /\ L(l) < pos /\ L(l) >= S - D
    <3>1. ASSUME G(l) # {}
          PROVE  L(l) \in Int /\ S - D <= L(l) /\ L(l) < S - D + w /\ L(l) \notin filled
      <4>1. L(l) \in G(l) /\ l * w = S - D
        BY <1>5, <1>7, <2>1, <3>1
      <4> QED BY <1>7, <2>1, <4>1
    <3>2. S - D >= 0
      BY <1>5, <2>2
    <3> HIDE DEF S, D, l
    <3> QED BY <1>1, <1>6, <3>1, <3>2
  <2>4. G(r) # {} => F(r) \in Nat /\ F(r) \notin filled /\ pos < F(r) /\ F(r) < S + D + w
    <3>1. ASSUME G(r) # {}
          PROVE  F(r) \in Int /\ S + D <= F(r) /\ F(r) < S + D + w /\ F(r) \notin filled
      <4>1. F(r) \in G(r) /\ r * w = S + D
        BY <1>5, <1>7, <2>1, <3>1
      <4> QED BY <1>7, <2>1, <4>1
    <3>2. S + D >= 0
      BY <1>5, <2>2
    <3> HIDE DEF S, D, r
    <3> QED BY <1>1, <1>6, <3>1, <3>2
  <2>5. F(r + 1) \in Nat /\ pos < F(r + 1) /\ F(r + 1) >= S + D + w
    <3>1. F(r + 1) \in S + D + w..S + D + w + w
      BY <1>5, <1>7, <2>1
    <3>2. S + D >= 0
      BY <1>5, <2>2
    <3> HIDE DEF S, D, r
    <3> QED BY <1>1, <1>6, <3>1, <3>2
  <2>6. G(r + 1) # {} => F(r + 1) \notin filled
    BY <1>7, <2>1
  <2>7. G(r + 1) = {} => \A g \in Free : r + 1 <= g \div w => r + 2 <= g \div w
    <3> SUFFICES ASSUME G(r + 1) = {}, NEW g \in Free, r + 1 <= g \div w PROVE r + 2 <= g \div w
      OBVIOUS
    <3> DEFINE v == g \div w
    <3>1. v \in Nat /\ g \in G(v) /\ r + 1 <= v
      BY <1>8
    <3> HIDE DEF v, r
    <3>2. v # r + 1
      BY <3>1
    <3>3. r + 2 <= v
      BY <1>4, <3>1, <3>2
    <3> QED BY <3>3 DEF v
  <2>8. L(l - 1) \in Int /\ L(l - 1) < pos /\ L(l - 1) < S - D
    <3>1. L(l - 1) \in S - D - w - 1..S - D - w + w - 1
      BY <1>5, <1>7, <2>1
    <3> HIDE DEF S, D, l
    <3> QED BY <1>1, <1>6, <3>1
  <2>9. l > 0 /\ G(l - 1) # {} => L(l - 1) \in Nat /\ L(l - 1) \notin filled
    <3>1. ASSUME l > 0, G(l - 1) # {} PROVE L(l - 1) \in Nat /\ L(l - 1) \notin filled
      <4>1. L(l - 1) \in G(l - 1)
        BY <1>7, <2>1, <3>1
      <4>2. l - 1 \in Nat /\ (l - 1) * w >= 0
        BY <1>4, <3>1
      <4>3. L(l - 1) \in Int /\ (l - 1) * w <= L(l - 1) /\ L(l - 1) \notin filled
        BY <1>7, <2>1, <4>1
      <4>4. (l - 1) * w \in Int
        BY <1>7, <2>1
      <4> QED BY <4>2, <4>3, <4>4
    <3> QED BY <3>1
  <2> QED BY <2>3, <2>4, <2>5, <2>6, <2>7, <2>8, <2>9
<1>10. \A g \in Free : /\ r + 1 <= g \div w => F(r + 1) <= g
                       /\ r + 2 <= g \div w => S + D + w + w <= g
                       /\ g \div w <= l => g <= L(l)
                       /\ r <= g \div w => F(r) <= g
                       /\ g \div w <= l - 1 => g <= L(l - 1)
                       /\ g \div w <= l - 2 => g < S - D - w
  <2> TAKE g \in Free
  <2>1. l \in Int /\ r \in Int /\ r + 1 \in Int /\ r + 2 \in Int /\ l - 1 \in Int /\ l - 2 \in Int
    BY <1>4
  <2>2. (r + 2) * w = S + D + w + w /\ (l - 2) * w + w = S - D - w
    BY <1>1
  <2>3. g \in Nat /\ g \notin filled
    BY <1>8
  <2>4. \A i \in Int : (g \div w <= i => g < i * w + w) /\ (i <= g \div w => i * w <= g)
    BY <2>3, GapsByWord
  <2>5. (r + 2 <= g \div w => (r + 2) * w <= g) /\ (g \div w <= l - 2 => g < (l - 2) * w + w)
    BY <2>1, <2>4
  <2> HIDE DEF r, l, S, D
  <2> QED BY <1>8, <2>1, <2>2, <2>5
<1>11. \A g \in Free : /\ g \div w \in Int /\ g \in Int /\ g \in 0..cap-1 /\ g \in G(g \div w)
                       /\ g \div w <= lastWord /\ g \div w >= 0
  <2>1. \A g \in Free : g \in Int /\ g \in 0..cap-1
    OBVIOUS
  <2>2. \A g \in Free : g \div w \in Int /\ g \div w >= 0
    BY <1>8
  <2>3. \A g \in Free : g \div w <= lastWord
    <3> TAKE g \in Free
    <3>1. g \in Nat /\ cap - 1 \in Nat /\ g <= cap - 1
      OBVIOUS
    <3>2. g \div w <= (cap - 1) \div w
      BY ONLY <3>1, w \in Nat \ {0}, WordsMonotone
    <3> QED BY <3>2 DEF lastWord
  <2> QED BY <1>8, <2>1, <2>2, <2>3
<1>12. CASE G(l) # {} /\ G(r) # {}
  <2>1. a = Nearer(cap, pos, L(l), F(r))
    BY <1>2, <1>12
  <2>2. \A g \in Free : g <= L(l) \/ F(r) <= g
    BY <1>3, <1>10
  <2>3. /\ L(l) \in Nat /\ L(l) \notin filled /\ L(l) < pos
        /\ F(r) \in Nat /\ F(r) \notin filled /\ pos < F(r) /\ cap \in Nat
    BY <1>9, <1>12
  <2> QED BY <2>1, <2>2, <2>3, NearerClosest
<1>13. CASE G(l) # {} /\ G(r) = {}
  <2>1. \A g \in Free : g <= L(l) \/ (F(r + 1) <= g /\ r + 1 <= g \div w)
    <3> TAKE g \in Free
    <3> DEFINE v == g \div w
    <3>1. v \in Int /\ g \in G(v) /\ (v <= l \/ r <= v)
      BY <1>3, <1>11
    <3>2. (v <= l => g <= L(l)) /\ (r + 1 <= v => F(r + 1) <= g)
      BY <1>10
    <3> HIDE DEF v, r
    <3>3. v # r
      BY <1>13, <3>1
    <3>4. v <= l \/ r + 1 <= v
      BY <1>4, <3>1, <3>3
    <3> QED BY <3>2, <3>4 DEF v
  <2>2. L(l) \in Nat /\ L(l) \notin filled /\ L(l) < pos /\ L(l) >= S - D /\ cap \in Nat
    BY <1>9, <1>13
  <2>3. CASE bit > w \div 2 /\ r < lastWord /\ G(r + 1) # {}
    <3>1. a = Nearer(cap, pos, L(l), F(r + 1))
      BY <1>2, <1>13, <2>3
    <3>2. F(r + 1) \in Nat /\ F(r + 1) \notin filled /\ pos < F(r + 1)
      BY <1>9, <2>3
    <3> QED BY <2>1, <2>2, <3>1, <3>2, NearerClosest
  <2>4. CASE ~ (bit > w \div 2 /\ r < lastWord /\ G(r + 1) # {})
    <3> DEFINE far == 2 * pos - L(l)
    <3>1. a = L(l)
      BY <1>2, <1>13, <2>4
    <3>2. far \in Int /\ pos - L(l) <= far - pos
      BY <2>2
    <3>3. ASSUME NEW g \in Free, r + 1 <= g \div w PROVE far <= g
      <4>1. g \in Int /\ g \div w \in Int /\ g \div w <= lastWord
        BY <1>11
      <4>2. r < lastWord
        <5> HIDE DEF r
        <5> QED BY <1>1, <1>4, <3>3, <4>1
      <4>3. CASE ~ (bit > w \div 2)
        <5>1. S + D + w <= g
          <6>1. F(r + 1) \in Nat /\ F(r + 1) >= S + D + w /\ F(r + 1) <= g
            BY <1>9, <1>10, <3>3
          <6> HIDE DEF S, D
          <6> QED BY <1>1, <1>6, <4>1, <6>1
        <5>2. 2 * bit <= w
          BY <1>1, <4>3
        <5> HIDE DEF S, D
        <5>3. pos = S + bit /\ bit \in Int /\ S \in Int
          BY <1>1
        <5> QED BY <1>6, <2>2, <4>1, <5>1, <5>2, <5>3
      <4>4. CASE G(r + 1) = {}
        <5>1. r + 2 <= g \div w
          BY <1>9, <3>3, <4>4
        <5>2. S + D + w + w <= g
          BY <1>10, <5>1
        <5> HIDE DEF S, D
        <5> QED BY <1>1, <1>6, <2>2, <4>1, <5>2
      <4> QED BY <2>4, <4>2, <4>3, <4>4
    <3>4. \A g \in Free : g <= L(l) \/ far <= g
      <4> HIDE DEF far
      <4> QED BY <2>1, <3>3
    <3> HIDE DEF far
    <3> QED BY <2>2, <3>1, <3>2, <3>4, LeftClosest
  <2> QED BY <2>3, <2>4
<1>14. CASE G(l) = {} /\ G(r) # {} /\ F(r) < cap
  <2>1. \A g \in Free : F(r) <= g \/ (g <= L(l - 1) /\ g \div w <= l - 1)
    <3> TAKE g \in Free
    <3> DEFINE v == g \div w
    <3>1. v \in Int /\ g \in G(v) /\ (v <= l \/ r <= v)
      BY <1>3, <1>11
    <3>2. (v <= l - 1 => g <= L(l - 1)) /\ (r <= v => F(r) <= g)
      BY <1>10
    <3> HIDE DEF v, l
    <3>3. v # l
      BY <1>14, <3>1
    <3>4. v <= l - 1 \/ r <= v
      BY <1>4, <3>1, <3>3
    <3> QED BY <3>2, <3>4 DEF v
  <2>2. /\ F(r) \in Nat /\ F(r) \notin filled /\ pos < F(r) /\ F(r) < S + D + w
        /\ cap \in Nat /\ F(r) \in 0..cap-1
    BY <1>9, <1>14
  <2>3. CASE bit < w \div 2 /\ l > 0 /\ G(l - 1) # {}
    <3>1. a = Nearer(cap, pos, L(l - 1), F(r))
      BY <1>2, <1>14, <2>3
    <3>2. L(l - 1) \in Nat /\ L(l - 1) \notin filled /\ L(l - 1) < pos
      BY <1>9, <2>3
    <3> QED BY <2>1, <2>2, <3>1, <3>2, NearerClosest
  <2>4. CASE ~ (bit < w \div 2 /\ l > 0 /\ G(l - 1) # {})
    <3> DEFINE far == 2 * pos - F(r)
    <3>1. a = F(r)
      BY <1>2, <1>14, <2>4
    <3>2. far \in Int /\ F(r) - pos <= pos - far
      BY <2>2
    <3>3. ASSUME NEW g \in Free, g \div w <= l - 1 PROVE g <= far
      <4>1. g \in Int /\ g \div w \in Int /\ g \div w >= 0
        BY <1>11
      <4>2. l > 0
        <5> HIDE DEF l
        <5> QED BY <1>4, <3>3, <4>1
      <4>3. CASE ~ (bit < w \div 2)
        <5>1. L(l - 1) < S - D /\ g <= L(l - 1) /\ L(l - 1) \in Int
          BY <1>9, <1>10, <3>3
        <5>2. 2 * bit >= w - 1
          BY <1>1, <4>3
        <5> HIDE DEF S, D
        <5> QED BY <1>1, <1>6, <2>2, <4>1, <5>1, <5>2
      <4>4. CASE G(l - 1) = {}
        <5>1. g \div w <= l - 2
          <6> DEFINE v == g \div w
          <6>1. v \in Int /\ g \in G(v) /\ v <= l - 1
            BY <1>11, <3>3
          <6> HIDE DEF v, l
          <6>2. v # l - 1
            BY <4>4, <6>1
          <6>3. v <= l - 2
            BY <1>4, <6>1, <6>2
          <6> QED BY <6>3 DEF v
        <5>2. g < S - D - w
          BY <1>10, <5>1
        <5> HIDE DEF S, D
        <5>3. pos = S + bit /\ bit \in Nat /\ S \in Int
          BY <1>1
        <5> DEFINE x == F(r)
        <5>4. x \in Nat /\ x < S + D + w /\ far = 2 * pos - x
          BY <2>2
        <5> HIDE DEF x, far
        <5> QED BY <1>6, <4>1, <5>2, <5>3, <5>4
      <4> QED BY <2>4, <4>2, <4>3, <4>4
    <3>4. \A g \in Free : g <= far \/ F(r) <= g
      <4> HIDE DEF far
      <4> QED BY <2>1, <3>3
    <3> HIDE DEF far
    <3> QED BY <2>2, <3>1, <3>2, <3>4, RightClosest
  <2> QED BY <2>3, <2>4
<1>15. CASE G(l) = {} /\ (G(r) = {} \/ F(r) >= cap)
  <2>1. a = -1
    <3>1. G(r) # {} => F(r) \in Nat
      BY <1>9
    <3> QED BY <1>2, <1>15, <3>1
  <2>2. ASSUME NEW g \in Free PROVE g \div w < l \/ r < g \div w
    <3> DEFINE v == g \div w
    <3>1. v \in Int /\ g \in G(v) /\ (v <= l \/ r <= v) /\ g \in 0..cap-1
      BY <1>3, <1>11
    <3>2. r <= v => F(r) <= g
      BY <1>10
    <3>3. G(r) # {} => F(r) \in Nat
      BY <1>9
    <3> HIDE DEF v, l, r
    <3>4. v # l
      BY <1>15, <3>1
    <3>5. v # r
      BY <1>15, <3>1, <3>2, <3>3
    <3>6. v < l \/ r < v
      BY <1>4, <3>1, <3>4, <3>5
    <3> QED BY <3>6 DEF v
  <2> QED BY <2>1, <2>2
<1> QED
  <2>1. G(r) # {} => F(r) \in Nat
    BY <1>9
  <2>2. F(r) < cap \/ F(r) >= cap \/ G(r) = {}
    BY <2>1
  <2> QED BY <1>12, <1>13, <1>14, <1>15, <2>2

LEMMA RightOfFacts ==
  ASSUME NEW cap \in Nat \ {0}, NEW filled, filled \subseteq 0..cap-1,
         NEW w \in Nat \ {0}, NEW pos \in 0..cap-1,
         NEW right, right = RightOf(filled, cap, w, pos)
  PROVE  /\ right \in Nat
         /\ \A g \in (0..cap-1) \ filled : g >= pos => pos + right <= g
         /\ pos + right \notin filled \/ right >= w
         /\ (\E g \in GapsOf(filled, w, pos \div w) : g >= pos) =>
              right < w /\ pos + right \notin filled
<1> DEFINE Free == (0..cap-1) \ filled
           word == pos \div w
           bit == pos % w
           lastWord == (cap - 1) \div w
           S == word * w
           G(i) == GapsOf(filled, w, i)
           F(i) == FirstGap(filled, w, i)
           here == {g \in G(word) : g >= pos}
<1>1. /\ word \in Nat /\ bit \in 0..w-1 /\ pos = S + bit /\ S \in Int
      /\ word \in Int /\ word + 1 \in Int /\ (word + 1) * w = S + w
  <2>1. pos \in Nat
    OBVIOUS
  <2>2. word \in Nat /\ bit \in 0..w-1 /\ pos = word * w + bit
    BY <2>1, WordOf
  <2> HIDE DEF word
  <2>3. word * w \in Int /\ (word + 1) * w = word * w + w
    BY <2>2
  <2> QED BY <2>2, <2>3
<1>2. right = IF here # {} THEN Min(here) - pos
              ELSE IF word < lastWord THEN F(word + 1) - pos ELSE w
  BY DEF RightOf
<1>3. \A g \in Free : /\ g \in Nat /\ g \div w \in Nat /\ g \in G(g \div w)
                      /\ word + 1 <= g \div w => F(word + 1) <= g
                      /\ g \div w <= lastWord
                      /\ g >= pos => word <= g \div w
  <2> TAKE g \in Free
  <2>1. g \in Nat /\ g \notin filled /\ cap - 1 \in Nat /\ g <= cap - 1 /\ pos \in Nat
    OBVIOUS
  <2>2. /\ g \div w \in Nat /\ g \in G(g \div w)
        /\ word + 1 <= g \div w => F(word + 1) <= g
    BY <1>1, <2>1, GapsByWord
  <2>3. g \div w <= (cap - 1) \div w
    BY ONLY <2>1, w \in Nat \ {0}, WordsMonotone
  <2>4. g >= pos => word <= g \div w
    <3>1. pos <= g => pos \div w <= g \div w
      BY ONLY <2>1, w \in Nat \ {0}, WordsMonotone
    <3>2. g >= pos => pos <= g
      BY <2>1
    <3> QED BY <3>1, <3>2
  <2> QED BY <2>1, <2>2, <2>3, <2>4
<1> HIDE DEF word, bit, lastWord
<1>4. /\ \A g : g \in G(word) <=> g \in Int /\ S <= g /\ g < S + w /\ g \notin filled
      /\ \A g : g \in G(word + 1) <=> g \in Int /\ S + w <= g /\ g < S + w + w /\ g \notin filled
      /\ G(word + 1) # {} => F(word + 1) \in G(word + 1)
      /\ G(word + 1) = {} => F(word + 1) = S + w + w
  BY <1>1, GapFacts
<1> HIDE DEF S, G, F
<1>5. CASE here # {}
  <2>1. here \subseteq S..S+w-1
    BY <1>1, <1>4
  <2>2. Min(here) \in here /\ \A g \in here : Min(here) <= g
    <3>1. S \in Int /\ S + w - 1 \in Int
      BY <1>1
    <3> HIDE DEF here
    <3> QED BY ONLY <1>5, <2>1, <3>1, MinOfInterval
  <2> DEFINE m == Min(here)
  <2>3. m \in G(word) /\ m >= pos /\ right = m - pos /\ \A g \in here : m <= g
    BY <1>2, <1>5, <2>2
  <2> HIDE DEF m
  <2>4. m \in Int /\ S <= m /\ m < S + w /\ m \notin filled
    BY <1>4, <2>3
  <2>5. right \in Nat /\ right < w /\ pos + right = m
    BY <1>1, <2>3, <2>4
  <2>6. ASSUME NEW g \in Free, g >= pos PROVE m <= g
    <3> DEFINE v == g \div w
    <3>1. v \in Nat /\ g \in G(v) /\ word <= v /\ g \in Nat
      BY <1>3, <2>6
    <3>2. CASE v = word
      BY <2>3, <2>6, <3>1, <3>2
    <3>3. CASE word + 1 <= v
      <4>1. F(word + 1) <= g
        BY <1>3, <3>3
      <4>2. F(word + 1) \in Int /\ S + w <= F(word + 1)
        <5> HIDE DEF v
        <5> QED BY <1>1, <1>4
      <4> HIDE DEF v
      <4> QED BY <1>1, <2>4, <3>1, <4>1, <4>2
    <3> HIDE DEF v
    <3> QED BY <1>1, <3>1, <3>2, <3>3
  <2> QED BY <2>4, <2>5, <2>6
<1>6. CASE here = {}
  <2>1. ~ \E g \in G(word) : g >= pos
    BY <1>6
  <2>2. ASSUME NEW g \in Free, g >= pos PROVE word < lastWord /\ F(word + 1) <= g
    <3> DEFINE v == g \div w
    <3>1. v \in Nat /\ g \in G(v) /\ word <= v /\ g \in Nat /\ v <= lastWord
      BY <1>3, <2>2
    <3>2. word + 1 <= v => F(word + 1) <= g
      BY <1>3
    <3> HIDE DEF v
    <3>3. v # word
      BY <2>1, <2>2, <3>1
    <3>4. lastWord \in Int
      BY DEF lastWord
    <3> QED BY <1>1, <3>1, <3>2, <3>3, <3>4
  <2>3. CASE word < lastWord
    <3> DEFINE f == F(word + 1)
    <3>1. right = f - pos /\ f \in Int /\ S + w <= f /\ (f \notin filled \/ f = S + w + w)
      BY <1>1, <1>2, <1>4, <1>6, <2>3
    <3>2. \A g \in Free : g >= pos => f <= g
      BY <2>2
    <3> HIDE DEF f
    <3>3. right \in Nat /\ pos + right = f /\ (f = S + w + w => right >= w)
      BY <1>1, <3>1
    <3> QED BY <2>1, <3>1, <3>2, <3>3 DEF G, word
  <2>4. CASE ~ (word < lastWord)
    <3>1. right = w
      BY <1>2, <1>6, <2>4
    <3>2. right \in Nat /\ right >= w
      BY <3>1
    <3> QED BY <2>1, <2>2, <2>4, <3>2 DEF G, word
  <2> QED BY <2>3, <2>4
<1> QED BY <1>5, <1>6

LEMMA LeftOfFacts ==
  ASSUME NEW cap \in Nat \ {0}, NEW filled, filled \subseteq 0..cap-1,
         NEW w \in Nat \ {0}, NEW pos \in 0..cap-1,
         NEW left, left = LeftOf(filled, cap, w, pos)
  PROVE  /\ left \in Nat \ {0}
         /\ \A g \in (0..cap-1) \ filled : g < pos => g <= pos - left
         /\ (pos - left \in Nat /\ pos - left \notin filled) \/ left >= w
         /\ (\E g \in GapsOf(filled, w, pos \div w) : g < pos) =>
              left < w /\ pos - left \in Nat /\ pos - left \notin filled
<1> DEFINE Free == (0..cap-1) \ filled
           word == pos \div w
           bit == pos % w
           S == word * w
           G(i) == GapsOf(filled, w, i)
           L(i) == LastGap(filled, w, i)
           here == {g \in G(word) : g < pos}
<1>1. /\ word \in Nat /\ bit \in 0..w-1 /\ pos = S + bit /\ S \in Nat
      /\ word \in Int /\ word - 1 \in Int /\ (word - 1) * w = S - w
      /\ word > 0 => S - w >= 0
  <2>1. pos \in Nat
    OBVIOUS
  <2>2. word \in Nat /\ bit \in 0..w-1 /\ pos = word * w + bit
    BY <2>1, WordOf
  <2> HIDE DEF word
  <2>3. word * w \in Nat /\ (word - 1) * w = word * w - w
    BY <2>2
  <2>4. word > 0 => (word - 1) * w >= 0
    <3>1. word > 0 => word - 1 \in Nat
      BY <2>2
    <3> QED BY <3>1
  <2> QED BY <2>2, <2>3, <2>4
<1>2. left = IF here # {} THEN pos - Max(here)
             ELSE IF word > 0 THEN pos - L(word - 1) ELSE w
  BY DEF LeftOf
<1>3. \A g \in Free : /\ g \in Nat /\ g \div w \in Nat /\ g \in G(g \div w)
                      /\ g \div w <= word - 1 => g <= L(word - 1)
                      /\ g < pos => g \div w <= word
  <2> TAKE g \in Free
  <2>1. g \in Nat /\ g \notin filled /\ pos \in Nat
    OBVIOUS
  <2>2. /\ g \div w \in Nat /\ g \in G(g \div w)
        /\ g \div w <= word - 1 => g <= L(word - 1)
    BY <1>1, <2>1, GapsByWord
  <2>3. g < pos => g \div w <= word
    <3>1. g <= pos => g \div w <= pos \div w
      BY ONLY <2>1, w \in Nat \ {0}, WordsMonotone
    <3>2. g < pos => g <= pos
      BY <2>1
    <3> QED BY <3>1, <3>2
  <2> QED BY <2>1, <2>2, <2>3
<1> HIDE DEF word, bit
<1>4. /\ \A g : g \in G(word) <=> g \in Int /\ S <= g /\ g < S + w /\ g \notin filled
      /\ \A g : g \in G(word - 1) <=> g \in Int /\ S - w <= g /\ g < S - w + w /\ g \notin filled
      /\ G(word - 1) # {} => L(word - 1) \in G(word - 1)
      /\ G(word - 1) = {} => L(word - 1) = S - w - 1
  <2>1. \A g : g \in G(word) <=> g \in Int /\ S <= g /\ g < S + w /\ g \notin filled
    BY <1>1, GapFacts
  <2> DEFINE P == (word - 1) * w
  <2>2. /\ \A g : g \in G(word - 1) <=> g \in Int /\ P <= g /\ g < P + w /\ g \notin filled
        /\ G(word - 1) # {} => L(word - 1) \in G(word - 1)
        /\ G(word - 1) = {} => L(word - 1) = P - 1
    BY <1>1, GapFacts
  <2>3. P = S - w
    BY <1>1
  <2> HIDE DEF P, S, G, L
  <2> QED BY <2>1, <2>2, <2>3
<1> HIDE DEF S, G, L
<1>5. CASE here # {}
  <2>1. here \subseteq S..S+w-1
    BY <1>1, <1>4
  <2>2. Max(here) \in here /\ \A g \in here : g <= Max(here)
    <3>1. S \in Int /\ S + w - 1 \in Int
      BY <1>1
    <3> HIDE DEF here
    <3> QED BY ONLY <1>5, <2>1, <3>1, MaxOfInterval
  <2> DEFINE m == Max(here)
  <2>3. m \in G(word) /\ m < pos /\ left = pos - m /\ \A g \in here : g <= m
    BY <1>2, <1>5, <2>2
  <2> HIDE DEF m
  <2>4. m \in Nat /\ S <= m /\ m < S + w /\ m \notin filled
    BY <1>1, <1>4, <2>3
  <2>5. left \in Nat \ {0} /\ left < w /\ pos - left = m
    BY <1>1, <2>3, <2>4
  <2>6. ASSUME NEW g \in Free, g < pos PROVE g <= m
    <3> DEFINE v == g \div w
    <3>1. v \in Nat /\ g \in G(v) /\ v <= word /\ g \in Nat
      BY <1>3, <2>6
    <3>2. CASE v = word
      BY <2>3, <2>6, <3>1, <3>2
    <3>3. CASE v <= word - 1
      <4>1. g <= L(word - 1)
        BY <1>3, <3>3
      <4>2. L(word - 1) \in Int /\ L(word - 1) < S
        <5> HIDE DEF v
        <5> QED BY <1>1, <1>4
      <4> HIDE DEF v
      <4> QED BY <1>1, <2>4, <3>1, <4>1, <4>2
    <3> HIDE DEF v
    <3> QED BY <1>1, <3>1, <3>2, <3>3
  <2> QED BY <2>4, <2>5, <2>6
<1>6. CASE here = {}
  <2>1. ~ \E g \in G(word) : g < pos
    BY <1>6
  <2>2. ASSUME NEW g \in Free, g < pos PROVE word > 0 /\ g <= L(word - 1)
    <3> DEFINE v == g \div w
    <3>1. v \in Nat /\ g \in G(v) /\ v <= word /\ g \in Nat
      BY <1>3, <2>2
    <3>2. v <= word - 1 => g <= L(word - 1)
      BY <1>3
    <3> HIDE DEF v
    <3>3. v # word
      BY <2>1, <2>2, <3>1
    <3> QED BY <1>1, <3>1, <3>2, <3>3
  <2>3. CASE word > 0
    <3> DEFINE f == L(word - 1)
    <3>1. left = pos - f /\ f \in Int /\ f < S /\ ((f \notin filled /\ f >= S - w) \/ f = S - w - 1)
      BY <1>1, <1>2, <1>4, <1>6, <2>3
    <3>2. \A g \in Free : g < pos => g <= f
      BY <2>2
    <3> HIDE DEF f
    <3>3. /\ left \in Nat \ {0} /\ pos - left = f
          /\ f = S - w - 1 => left >= w
          /\ f >= S - w => f \in Nat
      BY <1>1, <2>3, <3>1
    <3> QED BY <2>1, <3>1, <3>2, <3>3 DEF G, word
  <2>4. CASE ~ (word > 0)
    <3>1. left = w
      BY <1>2, <1>6, <2>4
    <3>2. left \in Nat \ {0} /\ left >= w
      BY <3>1
    <3> QED BY <2>1, <2>2, <2>4, <3>2 DEF G, word
  <2> QED BY <2>3, <2>4
<1> QED BY <1>5, <1>6

LEMMA RightReached ==
  ASSUME NEW cap \in Nat \ {0}, NEW filled, NEW pos \in 0..cap-1,
         NEW right \in Nat, NEW left \in Nat, right < left,
         pos + right < cap, pos + right \notin filled,
         \A g \in (0..cap-1) \ filled : g >= pos => pos + right <= g,
         \A g \in (0..cap-1) \ filled : g < pos => g <= pos - left
  PROVE  IsClosestGap(pos + right, filled, cap, pos)
BY DEF IsClosestGap, Abs

LEMMA LeftReached ==
  ASSUME NEW cap \in Nat \ {0}, NEW filled, NEW pos \in 0..cap-1,
         NEW right \in Nat, NEW left \in Nat, ~ (right < left /\ pos + right < cap),
         pos - left \in Nat, pos - left \notin filled,
         \A g \in (0..cap-1) \ filled : g >= pos => pos + right <= g,
         \A g \in (0..cap-1) \ filled : g < pos => g <= pos - left
  PROVE  IsClosestGap(pos - left, filled, cap, pos)
<1>1. \A g \in (0..cap-1) \ filled : g >= pos => g >= pos + left
  OBVIOUS
<1> QED BY <1>1 DEF IsClosestGap, Abs

(* The gap closest_gap() takes when there is one in the word itself.       *)
LEMMA OwnWordExact ==
  ASSUME NEW cap \in Nat \ {0}, NEW filled, filled \subseteq 0..cap-1,
         NEW w \in Nat \ {0}, NEW pos \in 0..cap-1,
         \E g \in GapsOf(filled, w, pos \div w) : g < cap
  PROVE  LET right == RightOf(filled, cap, w, pos)
             left == LeftOf(filled, cap, w, pos)
         IN IsClosestGap(IF right < left /\ pos + right < cap THEN pos + right ELSE pos - left,
                         filled, cap, pos)
<1> DEFINE right == RightOf(filled, cap, w, pos)
           left == LeftOf(filled, cap, w, pos)
           Own == GapsOf(filled, w, pos \div w)
           chosen == IF right < left /\ pos + right < cap THEN pos + right ELSE pos - left
<1> SUFFICES IsClosestGap(chosen, filled, cap, pos)
  OBVIOUS
<1>1. /\ right \in Nat
      /\ \A g \in (0..cap-1) \ filled : g >= pos => pos + right <= g
      /\ pos + right \notin filled \/ right >= w
      /\ (\E g \in Own : g >= pos) => right < w /\ pos + right \notin filled
  BY RightOfFacts
<1>2. /\ left \in Nat \ {0}
      /\ \A g \in (0..cap-1) \ filled : g < pos => g <= pos - left
      /\ (pos - left \in Nat /\ pos - left \notin filled) \/ left >= w
      /\ (\E g \in Own : g < pos) => left < w /\ pos - left \in Nat /\ pos - left \notin filled
  BY LeftOfFacts
<1>3. PICK e \in Own : e < cap
  OBVIOUS
<1>4. e \in (0..cap-1) \ filled
  <2>1. pos \div w \in Nat
    <3>1. pos \in Nat
      OBVIOUS
    <3> QED BY <3>1, WordOf
  <2> DEFINE i == pos \div w
  <2>2. i \in Nat /\ i * w \in Int /\ e \in Int /\ i * w <= e /\ e \notin filled
    BY <1>3, <2>1, GapFacts
  <2> HIDE DEF i
  <2>3. i * w >= 0
    BY <2>2
  <2> QED BY <1>3, <2>2, <2>3
<1> HIDE DEF right, left, Own
<1>5. CASE e >= pos
  <2>1. right < w /\ pos + right \notin filled /\ pos + right <= e
    BY <1>1, <1>3, <1>4, <1>5
  <2>2. pos + right < cap /\ e \in Int
    BY <1>1, <1>3, <1>4, <2>1
  <2>3. CASE right < left
    <3>1. chosen = pos + right
      BY <2>2, <2>3
    <3> QED BY <1>1, <1>2, <2>1, <2>2, <2>3, <3>1, RightReached
  <2>4. CASE ~ (right < left)
    <3>1. chosen = pos - left /\ pos - left \in Nat /\ pos - left \notin filled
      BY <1>1, <1>2, <2>1, <2>4
    <3> QED BY <1>1, <1>2, <2>4, <3>1, LeftReached
  <2> QED BY <2>3, <2>4
<1>6. CASE e < pos
  <2>1. left < w /\ pos - left \in Nat /\ pos - left \notin filled
    BY <1>2, <1>3, <1>6
  <2>2. CASE right < left /\ pos + right < cap
    <3>1. chosen = pos + right /\ pos + right \notin filled
      BY <1>1, <1>2, <2>1, <2>2
    <3> QED BY <1>1, <1>2, <2>2, <3>1, RightReached
  <2>3. CASE ~ (right < left /\ pos + right < cap)
    <3>1. chosen = pos - left
      BY <2>3
    <3> QED BY <1>1, <1>2, <2>1, <2>3, <3>1, LeftReached
  <2> QED BY <2>2, <2>3
<1> QED
  <2>1. e \in Int
    BY <1>4
  <2> QED BY <1>5, <1>6, <2>1

(* As long as the words on both sides have no gap, the loop goes on.       *)
LEMMA NoneWithin ==
  ASSUME NEW cap \in Nat \ {0}, NEW filled, filled \subseteq 0..cap-1,
         NEW w \in Nat \ {0}, NEW pos \in 0..cap-1, NEW m \in Nat,
         m <= pos \div w, pos \div w + m <= (cap - 1) \div w,
         \A g \in (0..cap-1) \ filled : g \div w # pos \div w,
         \A d \in 1..m : Around(filled, cap, w, pos, d) = -1
  PROVE  \A g \in (0..cap-1) \ filled : g \div w < pos \div w - m \/ pos \div w + m < g \div w
<1> DEFINE Free == (0..cap-1) \ filled
           word == pos \div w
           lastWord == (cap - 1) \div w
           None(d) == \A g \in Free : g \div w < word - d \/ word + d < g \div w
           T == {d \in 0..m : None(d)}
<1>1. word \in Int /\ lastWord \in Int /\ \A g \in Free : g \div w \in Int
  <2>1. pos \in Nat /\ cap - 1 \in Nat /\ \A g \in Free : g \in Nat
    OBVIOUS
  <2> QED BY <2>1, WordOf
<1>2. m <= word /\ word + m <= lastWord /\ \A g \in Free : g \div w # word
  OBVIOUS
<1>3. 0 \in T
  <2> HIDE DEF word, lastWord, Free
  <2> QED BY <1>1, <1>2
<1>4. ASSUME NEW d \in 0+1..m, d - 1 \in T PROVE d \in T
  <2>1. \A g \in Free : g \div w < word - (d - 1) \/ word + (d - 1) < g \div w
    BY <1>4
  <2>2. \A g \in Free : g \div w <= word - d \/ word + d <= g \div w
    <3> TAKE g \in Free
    <3> DEFINE v == g \div w
    <3>1. v \in Int /\ (v < word - (d - 1) \/ word + (d - 1) < v) /\ d \in Int
      BY <1>1, <2>1
    <3> HIDE DEF word, lastWord, Free, v
    <3>2. v <= word - d \/ word + d <= v
      BY <1>1, <3>1
    <3> QED BY <3>2 DEF v
  <2>3. d \in Nat \ {0} /\ d <= word /\ word + d <= lastWord
    <3> HIDE DEF word, lastWord, Free
    <3> QED BY <1>1, <1>2
  <2>4. Around(filled, cap, w, pos, d) = -1
    OBVIOUS
  <2>5. None(d)
    <3> HIDE DEF Around
    <3> QED BY <2>2, <2>3, <2>4, AroundExact
  <2> QED BY <2>5
<1>5. m \in T
  <2>1. 0 \in Int /\ m \in Int /\ m \in 0..m
    OBVIOUS
  <2>2. 0..m \subseteq T
    <3> HIDE DEF T
    <3> QED BY ONLY <1>3, <1>4, <2>1, IntervalInduction
  <2> QED BY <2>1, <2>2
<1> QED BY <1>5

(* closest_gap() finds the closest gap, for all bitmaps and word sizes.    *)
LEMMA ClosestGapExact ==
  ASSUME NEW cap \in Nat \ {0}, NEW filled, filled \subseteq 0..cap-1,
         NEW w \in Nat \ {0}, NEW pos0 \in Nat, ~ (0..cap-1 \subseteq filled)
  PROVE  IsClosestGap(ClosestGap(filled, cap, w, pos0), filled, cap, Min({pos0, cap - 1}))
<1> DEFINE pos == Min({pos0, cap - 1})
           Free == (0..cap-1) \ filled
           word == pos \div w
           lastWord == (cap - 1) \div w
           G(i) == GapsOf(filled, w, i)
           F(i) == FirstGap(filled, w, i)
           L(i) == LastGap(filled, w, i)
           A(d) == Around(filled, cap, w, pos, d)
           right == RightOf(filled, cap, w, pos)
           left == LeftOf(filled, cap, w, pos)
           both == Min({word, lastWord - word})
           found == {d \in 1..both : A(d) # -1}
           rest == {i \in IF word > lastWord - word THEN 0..word - both - 1
                          ELSE word + both + 1..lastWord : G(i) # {}}
           gap == ClosestGap(filled, cap, w, pos0)
<1>1. gap = IF {g \in G(word) : g < cap} # {}
            THEN IF right < left /\ pos + right < cap THEN pos + right ELSE pos - left
            ELSE IF found # {} THEN A(Min(found))
            ELSE IF rest = {} THEN -1
            ELSE IF word > lastWord - word THEN L(Max(rest))
            ELSE IF F(Min(rest)) >= cap THEN -1 ELSE F(Min(rest))
  BY DEF ClosestGap
<1>2. /\ pos \in 0..cap-1 /\ pos \in Nat /\ cap - 1 \in Nat
      /\ word \in Nat /\ lastWord \in Nat /\ word <= lastWord
  <2>1. pos0 \in Int /\ cap - 1 \in Int /\ cap - 1 \in Nat
    OBVIOUS
  <2>2. pos = IF pos0 <= cap - 1 THEN pos0 ELSE cap - 1
    BY <2>1, MinOfTwo
  <2>3. pos \in 0..cap-1 /\ pos \in Nat /\ pos <= cap - 1
    BY <2>1, <2>2
  <2> HIDE DEF pos
  <2>4. word \in Nat /\ lastWord \in Nat
    BY <2>1, <2>3, WordOf
  <2>5. word <= lastWord
    BY ONLY <2>1, <2>3, w \in Nat \ {0}, WordsMonotone
  <2> QED BY <2>1, <2>3, <2>4, <2>5
<1> HIDE DEF pos
<1>3. \A g \in Free : /\ g \in Nat /\ g < cap /\ g \div w \in 0..lastWord /\ g \in G(g \div w)
                      /\ \A i \in Int : g \div w <= i => g <= L(i)
                      /\ \A i \in Int : i <= g \div w => F(i) <= g
  <2> TAKE g \in Free
  <2>1. g \in Nat /\ g \notin filled /\ g <= cap - 1 /\ g < cap
    OBVIOUS
  <2>2. g \div w <= lastWord
    BY ONLY <1>2, <2>1, w \in Nat \ {0}, WordsMonotone
  <2>3. /\ g \div w \in Nat /\ g \in G(g \div w)
        /\ \A i \in Int : g \div w <= i => g <= L(i)
        /\ \A i \in Int : i <= g \div w => F(i) <= g
    BY <2>1, GapsByWord
  <2> QED BY <1>2, <2>1, <2>2, <2>3
<1>4. PICK free \in Free : TRUE
  OBVIOUS
<1>5. both = (IF word <= lastWord - word THEN word ELSE lastWord - word) /\ both \in Nat
  <2> HIDE DEF word, lastWord
  <2>1. word \in Int /\ lastWord - word \in Int
    BY <1>2
  <2>2. both = IF word <= lastWord - word THEN word ELSE lastWord - word
    BY <2>1, MinOfTwo
  <2> QED BY <1>2, <2>2
<1> HIDE DEF gap
<1>6. CASE {g \in G(word) : g < cap} # {}
  <2>1. \E g \in GapsOf(filled, w, pos \div w) : g < cap
    BY <1>6
  <2>2. gap = IF right < left /\ pos + right < cap THEN pos + right ELSE pos - left
    BY <1>1, <1>6
  <2> HIDE DEF right, left
  <2>3. IsClosestGap(gap, filled, cap, pos)
    BY <1>2, <2>1, <2>2, OwnWordExact DEF right, left
  <2> QED BY <2>3 DEF gap, pos
<1>7. CASE {g \in G(word) : g < cap} = {}
  <2>1. \A g \in Free : g \div w # word
    <3> SUFFICES ASSUME NEW g \in Free, g \div w = word PROVE FALSE
      OBVIOUS
    <3>1. g \in G(word) /\ g < cap
      BY <1>3
    <3> HIDE DEF G, word
    <3> QED BY <1>7, <3>1
  <2> HIDE DEF A
  <2>2. \A m \in 0..both : (\A d \in 1..m : A(d) = -1) =>
          \A g \in Free : g \div w < word - m \/ word + m < g \div w
    <3> SUFFICES ASSUME NEW m \in 0..both, \A d \in 1..m : A(d) = -1
                 PROVE  \A g \in Free : g \div w < word - m \/ word + m < g \div w
      OBVIOUS
    <3>1. m \in Nat /\ m <= word /\ word + m <= lastWord
      <4> HIDE DEF both, word, lastWord
      <4> QED BY <1>2, <1>5
    <3>2. \A d \in 1..m : Around(filled, cap, w, pos, d) = -1
      BY DEF A
    <3> QED BY ONLY <1>2, <2>1, <3>1, <3>2, NoneWithin, cap \in Nat \ {0}, w \in Nat \ {0},
                    filled \subseteq 0..cap-1
  <2>3. CASE found # {}
    <3> DEFINE d == Min(found)
    <3>1. d \in found /\ \A e \in found : d <= e
      <4>1. found \subseteq 1..both /\ 1 \in Int /\ both \in Int
        BY <1>5
      <4> HIDE DEF found, both
      <4> QED BY <2>3, <4>1, MinOfInterval
    <3> HIDE DEF d
    <3>2. d \in 1..both /\ A(d) # -1 /\ \A e \in 1..d-1 : A(e) = -1
      <4>1. d \in 1..both /\ A(d) # -1
        BY <3>1
      <4>2. ASSUME NEW e \in 1..d-1 PROVE A(e) = -1
        <5>1. e \in 1..both /\ ~ (d <= e)
          <6> HIDE DEF both
          <6> QED BY <1>5, <4>1
        <5> QED BY <3>1, <5>1
      <4> QED BY <4>1, <4>2
    <3>3. \A g \in Free : g \div w < word - (d - 1) \/ word + (d - 1) < g \div w
      <4>1. d - 1 \in 0..both
        <5> HIDE DEF both
        <5> QED BY <1>5, <3>2
      <4> HIDE DEF both
      <4> QED BY <2>2, <3>2, <4>1
    <3>4. \A g \in Free : g \div w <= word - d \/ word + d <= g \div w
      <4> TAKE g \in Free
      <4> DEFINE v == g \div w
      <4>1. v \in Int /\ (v < word - (d - 1) \/ word + (d - 1) < v)
        BY <1>3, <3>3
      <4>2. d \in Int
        <5> HIDE DEF both
        <5> QED BY <1>5, <3>2
      <4> HIDE DEF v, word
      <4>3. v <= word - d \/ word + d <= v
        BY <1>2, <4>1, <4>2
      <4> QED BY <4>3 DEF v
    <3>5. d \in Nat \ {0} /\ d <= word /\ word + d <= lastWord
      <4> HIDE DEF both, word, lastWord
      <4> QED BY <1>2, <1>5, <3>2
    <3>6. Around(filled, cap, w, pos, d) # -1
      BY <3>2 DEF A
    <3>7. IsClosestGap(Around(filled, cap, w, pos, d), filled, cap, pos)
      BY ONLY <1>2, <3>4, <3>5, <3>6, AroundExact, cap \in Nat \ {0}, w \in Nat \ {0},
              filled \subseteq 0..cap-1
    <3>8. gap = A(d)
      <4> HIDE DEF found, right, left, rest
      <4> QED BY <1>1, <1>7, <2>3 DEF d
    <3>9. IsClosestGap(gap, filled, cap, pos)
      BY <3>7, <3>8 DEF A
    <3> QED BY <3>9 DEF gap, pos
  <2>4. CASE found = {}
    <3>1. \A g \in Free : g \div w < word - both \/ word + both < g \div w
      <4>1. \A d \in 1..both : A(d) = -1
        BY <2>4
      <4>2. both \in 0..both
        <5> HIDE DEF both
        <5> QED BY <1>5
      <4> HIDE DEF both
      <4> QED BY <2>2, <4>1, <4>2
    <3> HIDE DEF G, F, L
    <3>2. rest \subseteq 0..lastWord
      <4> HIDE DEF both, word, lastWord
      <4> QED BY <1>2, <1>5
    <3>3. \A g \in Free : g \div w \in rest
      <4> TAKE g \in Free
      <4> DEFINE v == g \div w
      <4>1. v \in 0..lastWord /\ g \in G(v) /\ (v < word - both \/ word + both < v)
        BY <1>3, <3>1
      <4> HIDE DEF v, both, word, lastWord
      <4>2. v \in rest
        BY <1>2, <1>5, <4>1
      <4> QED BY <4>2 DEF v
    <3>4. rest # {}
      BY <1>4, <3>3
    <3>5. gap = IF word > lastWord - word THEN L(Max(rest))
                ELSE IF F(Min(rest)) >= cap THEN -1 ELSE F(Min(rest))
      <4> HIDE DEF found, rest, right, left
      <4> QED BY <1>1, <1>7, <2>4, <3>4
    <3> DEFINE hi == Max(rest)
               lo == Min(rest)
    <3>6. /\ hi \in rest /\ \A i \in rest : i <= hi
          /\ lo \in rest /\ \A i \in rest : lo <= i
      <4>1. 0 \in Int /\ lastWord \in Int
        BY <1>2
      <4> HIDE DEF rest, lastWord
      <4> QED BY <3>2, <3>4, <4>1, MaxOfInterval, MinOfInterval
    <3>7. hi \in Int /\ lo \in Int /\ G(hi) # {} /\ G(lo) # {} /\ hi >= 0 /\ lo >= 0
      <4>1. hi \in 0..lastWord /\ lo \in 0..lastWord
        BY <3>2, <3>6
      <4>2. G(hi) # {} /\ G(lo) # {}
        <5> HIDE DEF hi, lo
        <5> QED BY <3>6
      <4> HIDE DEF hi, lo, lastWord
      <4> QED BY <1>2, <4>1, <4>2
    <3> HIDE DEF hi, lo
    <3>8. \A g \in Free : g <= L(hi) /\ F(lo) <= g
      <4> TAKE g \in Free
      <4>1. g \div w <= hi /\ lo <= g \div w
        BY <3>3, <3>6
      <4> QED BY <1>3, <3>7, <4>1
    <3>9. \A i \in Int : /\ i * w \in Int
                         /\ \A g : g \in G(i) <=> g \in Int /\ i * w <= g /\ g < i * w + w /\ g \notin filled
                         /\ G(i) # {} => F(i) \in G(i) /\ L(i) \in G(i)
      BY GapFacts DEF G, F, L
    <3>10. word * w <= pos /\ pos < word * w + w
      <4>1. pos % w \in 0..w-1 /\ pos = word * w + (pos % w) /\ word \in Int
        BY <1>2, WordOf
      <4> HIDE DEF word
      <4>2. word * w \in Int
        BY <4>1
      <4> QED BY <4>1, <4>2
    <3>11. CASE word > lastWord - word
      <4>1. gap = L(hi)
        BY <3>5, <3>11 DEF hi
      <4>2. hi <= word - 1
        <5>1. hi \in 0..word - both - 1
          BY <3>6, <3>11
        <5> HIDE DEF word, both
        <5> QED BY <1>2, <1>5, <5>1
      <4>3. L(hi) < pos
        <5>1. hi * w + w <= word * w /\ hi * w \in Int /\ word * w \in Int
          <6>1. hi < word /\ word \in Int
            <7> HIDE DEF word
            <7> QED BY <1>2, <3>7, <4>2
          <6> HIDE DEF word
          <6> QED BY <3>7, <6>1, WordsOrdered
        <5>2. L(hi) \in Int /\ L(hi) < hi * w + w
          BY <3>7, <3>9
        <5>3. word * w <= pos
          BY <3>10
        <5> DEFINE x == hi * w
                   y == word * w
        <5>4. x \in Int /\ y \in Int /\ x + w <= y /\ L(hi) \in Int /\ L(hi) < x + w /\ y <= pos
          BY <5>1, <5>2, <5>3
        <5> HIDE DEF x, y
        <5> QED BY <1>2, <5>4
      <4>4. L(hi) \in Nat /\ L(hi) \notin filled
        <5>1. hi * w >= 0 /\ hi * w \in Int /\ L(hi) \in Int /\ hi * w <= L(hi) /\ L(hi) \notin filled
          BY <3>7, <3>9
        <5> QED BY <5>1
      <4>5. IsClosestGap(L(hi), filled, cap, pos)
        <5> DEFINE l == L(hi)
                   far == 2 * pos - l
        <5>1. /\ l \in Nat /\ l \notin filled /\ l < pos /\ far \in Int /\ pos - l <= far - pos
              /\ \A g \in Free : g <= l
          BY <1>2, <3>8, <4>3, <4>4
        <5>2. \A g \in Free : g <= l \/ far <= g
          BY <5>1
        <5> HIDE DEF l, far
        <5>3. IsClosestGap(l, filled, cap, pos)
          BY <1>2, <5>1, <5>2, LeftClosest
        <5> QED BY <5>3 DEF l
      <4>6. IsClosestGap(gap, filled, cap, pos)
        BY <4>1, <4>5
      <4> QED BY <4>6 DEF gap, pos
    <3>12. CASE ~ (word > lastWord - word)
      <4>1. F(lo) <= free /\ free \in Nat /\ free < cap
        BY <1>3, <1>4, <3>8
      <4>2. F(lo) \in Int /\ lo * w <= F(lo) /\ F(lo) \notin filled
        BY <3>7, <3>9
      <4>3. pos < F(lo)
        <5>1. lo \in word + both + 1..lastWord
          BY <3>6, <3>12
        <5>2. word < lo /\ word \in Int
          <6> HIDE DEF word, both
          <6> QED BY <1>2, <1>5, <5>1
        <5>3. word * w + w <= lo * w /\ lo * w \in Int /\ word * w \in Int
          <6> HIDE DEF word
          <6> QED BY <3>7, <5>2, WordsOrdered
        <5> DEFINE x == lo * w
                   y == word * w
        <5>4. x \in Int /\ y \in Int /\ y + w <= x /\ x <= F(lo) /\ pos < y + w
          BY <3>10, <4>2, <5>3
        <5> HIDE DEF x, y
        <5> QED BY <1>2, <4>2, <5>4
      <4>4. gap = F(lo)
        <5>1. ~ (F(lo) >= cap)
          BY <4>1, <4>2
        <5> QED BY <3>5, <3>12, <5>1 DEF lo
      <4>5. IsClosestGap(F(lo), filled, cap, pos)
        <5> DEFINE r == F(lo)
                   far == 2 * pos - r
        <5>1. /\ r \in 0..cap-1 /\ r \notin filled /\ pos < r /\ far \in Int /\ r - pos <= pos - far
              /\ \A g \in Free : r <= g
          BY <1>2, <3>8, <4>1, <4>2, <4>3
        <5>2. \A g \in Free : g <= far \/ r <= g
          BY <5>1
        <5> HIDE DEF r, far
        <5>3. IsClosestGap(r, filled, cap, pos)
          BY <1>2, <5>1, <5>2, RightClosest
        <5> QED BY <5>3 DEF r
      <4>6. IsClosestGap(gap, filled, cap, pos)
        BY <4>4, <4>5
      <4> QED BY <4>6 DEF gap, pos
    <3> QED BY <3>11, <3>12
  <2> QED BY <2>3, <2>4
<1> QED BY <1>6, <1>7

-----------------------------------------------------------------------------
(* Layouts.  What increases from each to the next increases.               *)
LEMMA StepwiseIncreasing ==
  ASSUME NEW n \in Nat, NEW g \in [1..n -> Int], \A i \in 2..n : g[i-1] < g[i]
  PROVE  Increasing(g, n)
<1> SUFFICES ASSUME NEW i \in 1..n PROVE \A j \in i+1..n : g[i] < g[j]
  BY DEF Increasing
<1> DEFINE T == {j \in i..n : j = i \/ g[i] < g[j]}
<1>1. i \in T
  OBVIOUS
<1>2. ASSUME NEW j \in i+1..n, j - 1 \in T PROVE j \in T
  <2>1. j \in 2..n /\ j - 1 \in 1..n /\ g[j-1] \in Int /\ g[j] \in Int /\ g[i] \in Int
    OBVIOUS
  <2>2. g[j-1] < g[j]
    BY <2>1
  <2> QED BY <1>2, <2>1, <2>2
<1>3. i..n \subseteq T
  <2>1. i \in Int /\ n \in Int
    OBVIOUS
  <2> HIDE DEF T
  <2> QED BY ONLY <1>1, <1>2, <2>1, IntervalInduction
<1> QED BY <1>3

(* Every entry gets a slot of the node, to the right of those before it.   *)
LEMMA PlacesFit ==
  ASSUME NEW n \in Nat, NEW entries \in [1..n -> Keys \X Payloads], NEW cap \in Nat, n <= cap,
         NEW model \in [Keys -> 0..cap], NEW at, at = Places(entries, cap, model)
  PROVE  at \in [1..n -> 0..cap-1] /\ Increasing(at, n)
<1> DEFINE Turn(v, i) == Min({cap - (n - i + 1), Max({model[entries[i][1]], v + 1})})
           F == [q \in Int \X (1..n) |-> Turn(q[1], q[2])]
           Equation(g) == g = [i \in 0..n |-> IF i = 0 THEN -1 ELSE Turn(g[i - 1], i)]
           pos == CHOOSE g : Equation(g)
<1>1. at = [i \in 1..n |-> pos[i]]
  <2>1. Len(entries) = n
    OBVIOUS
  <2> QED BY <2>1 DEF Places
<1>2. ASSUME NEW v \in Int, NEW i \in 1..n
      PROVE  /\ Turn(v, i) \in Int /\ Turn(v, i) <= cap - (n - i + 1)
             /\ v + 1 <= cap - (n - i + 1) => v + 1 <= Turn(v, i)
  <2> DEFINE m == model[entries[i][1]]
             c == cap - (n - i + 1)
             x == Max({m, v + 1})
  <2>1. m \in Int /\ v + 1 \in Int /\ c \in Int
    OBVIOUS
  <2> HIDE DEF m, c
  <2>2. x = IF m >= v + 1 THEN m ELSE v + 1
    BY <2>1, MaxOfTwo
  <2>3. x \in Int /\ x >= v + 1
    BY <2>1, <2>2
  <2> HIDE DEF x
  <2>4. Min({c, x}) = IF c <= x THEN c ELSE x
    BY <2>1, <2>3, MinOfTwo
  <2>5. Turn(v, i) = Min({c, x})
    BY DEF c, x, m
  <2> HIDE DEF Turn
  <2>6. /\ Turn(v, i) \in Int /\ Turn(v, i) <= c
        /\ v + 1 <= c => v + 1 <= Turn(v, i)
    BY <2>1, <2>3, <2>4, <2>5
  <2> QED BY <2>6 DEF c
<1> HIDE DEF Turn
<1>3. PICK f \in [0..n -> Int] : Follows(f, F, -1, 0, n)
  <2>1. F \in [Int \X (1..n) -> Int]
    BY <1>2
  <2>2. n \in Int /\ 0 \in Int /\ 0 <= n /\ 1..n = 0+1..n /\ -1 \in Int
    OBVIOUS
  <2> HIDE DEF F
  <2> QED BY ONLY <2>1, <2>2, Iteration
<1>4. Equation(f)
  <2>1. f[0] = -1 /\ \A i \in 1..n : f[i] = F[<<f[i-1], i>>]
    <3> HIDE DEF F
    <3> QED BY <1>3 DEF Follows
  <2>2. \A i \in 1..n : i - 1 \in 0..n
    OBVIOUS
  <2>3. \A i \in 1..n : F[<<f[i-1], i>>] = Turn(f[i-1], i)
    BY <1>3, <2>2
  <2> HIDE DEF F
  <2>4. \A i \in 0..n : i = 0 \/ i \in 1..n
    OBVIOUS
  <2>5. \A i \in 0..n : f[i] = IF i = 0 THEN -1 ELSE Turn(f[i - 1], i)
    BY <2>1, <2>3, <2>4
  <2> QED BY <2>5
<1>5. Equation(pos)
  BY <1>4
<1> HIDE DEF pos
<1>6. pos[0] = -1 /\ \A i \in 1..n : pos[i] = Turn(pos[i-1], i)
  BY <1>5
<1> DEFINE Good(i) == /\ pos[i] \in Int /\ pos[i] >= i - 1
                      /\ i >= 1 => pos[i] <= cap - (n - i + 1) /\ pos[i-1] \in Int /\ pos[i-1] < pos[i]
           T == {i \in 0..n : Good(i)}
<1>7. 0 \in T
  BY <1>6
<1>8. ASSUME NEW i \in 0+1..n, i - 1 \in T PROVE i \in T
  <2>1. i \in 1..n /\ pos[i-1] \in Int /\ pos[i-1] >= (i - 1) - 1
    BY <1>8
  <2>2. pos[i-1] + 1 <= cap - (n - i + 1)
    <3>1. CASE i = 1
      BY <1>6, <3>1
    <3>2. CASE i # 1
      <4>1. pos[i-1] <= cap - (n - (i - 1) + 1)
        BY <1>8, <2>1, <3>2
      <4> QED BY <2>1, <4>1
    <3> QED BY <3>1, <3>2
  <2>3. /\ pos[i] \in Int /\ pos[i] <= cap - (n - i + 1) /\ pos[i-1] + 1 <= pos[i]
    BY <1>2, <1>6, <2>1, <2>2
  <2> QED BY <2>1, <2>3
<1>9. 0..n \subseteq T
  <2>1. 0 \in Int /\ n \in Int
    OBVIOUS
  <2> HIDE DEF T
  <2> QED BY ONLY <1>7, <1>8, <2>1, IntervalInduction
<1>10. \A i \in 1..n : at[i] = pos[i] /\ pos[i] \in 0..cap-1 /\ Good(i)
  <2> TAKE i \in 1..n
  <2>1. Good(i) /\ i >= 1 /\ i <= n
    BY <1>9
  <2>2. pos[i] \in Int /\ pos[i] >= i - 1 /\ pos[i] <= cap - (n - i + 1)
    BY <2>1
  <2>3. pos[i] \in 0..cap-1
    BY <2>1, <2>2
  <2> QED BY <1>1, <2>1, <2>3
<1>11. at \in [1..n -> 0..cap-1]
  BY <1>1, <1>10
<1>12. Increasing(at, n)
  <2>1. \A i \in 2..n : i - 1 \in 1..n /\ i \in 1..n
    OBVIOUS
  <2>2. \A i \in 2..n : at[i-1] < at[i]
    BY <1>10, <2>1
  <2>3. at \in [1..n -> Int]
    BY <1>11
  <2> QED BY <2>2, <2>3, StepwiseIncreasing
<1> QED BY <1>11, <1>12

(* Entries in the order of their keys.                                     *)
Ascending(entries, n) == \A i, j \in 1..n : i < j => entries[i][1] <= entries[j][1]

(* A node laid out from sorted entries.                                    *)
LaidOut(nd, n, entries, cap, at) ==
  /\ NodeOK(nd) /\ nd.cap = cap /\ nd.num = n
  /\ Enumerates(at, n, Filled(nd))
  /\ \A i \in 1..n : nd.key[at[i]] = entries[i][1] /\ nd.pay[at[i]] = entries[i][2]

LEMMA LayoutOK ==
  ASSUME NEW n \in Nat, NEW entries \in [1..n -> Keys \X Payloads], NEW cap \in Nat, n < cap,
         Ascending(entries, n), NEW at \in [1..n -> 0..cap-1], Increasing(at, n),
         NEW nd, nd = Layout(entries, cap, at)
  PROVE  LaidOut(nd, n, entries, cap, at)
<1> DEFINE D == Range(at)
           Next_(s) == {i \in 1..n : at[i] >= s}
           key == [s \in 0..cap-1 |-> IF Next_(s) = {} THEN Sentinel ELSE entries[Min(Next_(s))][1]]
           pay == [s \in D |-> entries[Min(Next_(s))][2]]
           expand == Min({Max({8 * cap, 10 * (n + 1)}), 10 * cap})
<1>1. nd = [cap |-> cap, key |-> key, pay |-> pay, num |-> n,
            expandAt |-> expand, contractAt |-> 6 * cap]
  <2>1. Len(entries) = n
    OBVIOUS
  <2> QED BY <2>1 DEF Layout
<1>2. \A i \in 1..n : at[i] \in 0..cap-1 /\ at[i] \in Int /\ entries[i][1] \in Keys /\ entries[i][2] \in Payloads
  OBVIOUS
<1>3. \A i, j \in 1..n : i < j => at[i] < at[j]
  BY DEF Increasing
<1>4. /\ \A s : s \in D <=> \E i \in 1..n : at[i] = s
      /\ D \subseteq 0..cap-1
  BY <1>2 DEF Range
<1>5. ASSUME NEW s \in 0..cap-1, NEW i \in 1..n, at[i] >= s, \A j \in 1..n : at[j] < s \/ i <= j
      PROVE  Next_(s) # {} /\ Min(Next_(s)) = i
  <2> DEFINE T == Next_(s)
  <2>1. i \in T /\ T \subseteq 1..n /\ 1 \in Int /\ n \in Int
    BY <1>5
  <2>2. \A j \in T : i <= j
    BY <1>2, <1>5
  <2> HIDE DEF T
  <2>3. Min(T) \in T /\ \A j \in T : Min(T) <= j
    <3>1. T # {}
      BY <2>1
    <3> QED BY ONLY <2>1, <3>1, MinOfInterval
  <2> DEFINE m == Min(T)
  <2>4. m \in T /\ \A j \in T : m <= j
    BY <2>3
  <2> HIDE DEF m
  <2>5. m = i
    <3>1. m \in 1..n /\ m <= i /\ i <= m
      BY <2>1, <2>2, <2>4
    <3> QED BY <3>1
  <2> QED BY <2>1, <2>5 DEF T, m
<1> HIDE DEF Next_, D
<1>6. \A i \in 1..n : key[at[i]] = entries[i][1] /\ pay[at[i]] = entries[i][2] /\ at[i] \in D
  <2> TAKE i \in 1..n
  <2>1. \A j \in 1..n : at[j] < at[i] \/ i <= j
    BY <1>3
  <2>2. at[i] \in 0..cap-1 /\ at[i] >= at[i]
    BY <1>2
  <2>3. Next_(at[i]) # {} /\ Min(Next_(at[i])) = i
    BY <1>5, <2>1, <2>2
  <2> QED BY <1>4, <2>2, <2>3
<1>7. key \in [0..cap-1 -> Keys \cup {Sentinel}]
  <2>1. \A s \in 0..cap-1 : Next_(s) = {} \/ entries[Min(Next_(s))][1] \in Keys
    <3> TAKE s \in 0..cap-1
    <3>1. CASE Next_(s) # {}
      <4>1. Next_(s) \subseteq 1..n /\ 1 \in Int /\ n \in Int
        BY DEF Next_
      <4>2. Min(Next_(s)) \in Next_(s)
        BY ONLY <3>1, <4>1, MinOfInterval
      <4> QED BY <1>2, <4>1, <4>2
    <3> QED BY <3>1
  <2> QED BY <2>1
<1>8. pay \in [D -> Payloads]
  <2>1. ASSUME NEW s \in D PROVE pay[s] \in Payloads
    <3>1. PICK i \in 1..n : at[i] = s
      BY <1>4
    <3>2. pay[at[i]] = entries[i][2] /\ entries[i][2] \in Payloads
      BY <1>2, <1>6
    <3> HIDE DEF pay
    <3> QED BY <3>1, <3>2
  <2>2. pay = [s \in D |-> pay[s]]
    OBVIOUS
  <2> HIDE DEF pay
  <2> QED BY <2>1, <2>2
<1>9. \A s \in 0..cap-1 : (\A i \in 1..n : at[i] < s) => key[s] = Sentinel
  <2>1. \A s \in 0..cap-1 : (\A i \in 1..n : at[i] < s) => Next_(s) = {}
    BY <1>2 DEF Next_
  <2> QED BY <2>1
<1>10. \A s \in 0..cap-1 : \A i \in 1..n :
         at[i] >= s /\ (\A j \in 1..n : at[j] < s \/ i <= j) => key[s] = entries[i][1]
  BY <1>5
<1> HIDE DEF key, pay
<1>11. Gapped(cap, key, D)
  <2>1. \A f \in D : key[f] \in Keys
    BY <1>2, <1>4, <1>6
  <2>2. \A f, g \in D : f < g => key[f] <= key[g]
    <3> SUFFICES ASSUME NEW i \in 1..n, NEW j \in 1..n, at[i] < at[j]
                 PROVE  entries[i][1] <= entries[j][1]
      BY <1>4, <1>6
    <3>1. i < j
      <4>1. i < j \/ i = j \/ j < i
        OBVIOUS
      <4>2. ~ (at[i] < at[i]) /\ ~ (at[j] < at[i])
        BY <1>2
      <4> QED BY <1>3, <4>1, <4>2
    <3> QED BY <3>1 DEF Ascending
  <2>3. ASSUME NEW s \in 0..cap-1, NEW f \in D, s <= f, \A g \in D : g < s \/ f <= g
        PROVE  key[s] = key[f]
    <3>1. PICK i \in 1..n : at[i] = f
      BY <1>4
    <3>2. \A j \in 1..n : at[j] < s \/ i <= j
      <4> TAKE j \in 1..n
      <4>1. at[j] < s \/ at[i] <= at[j]
        BY <1>4, <2>3, <3>1
      <4>2. j < i => at[j] < at[i]
        BY <1>3
      <4> QED BY <1>2, <4>1, <4>2
    <3>3. at[i] >= s
      BY <1>2, <2>3, <3>1
    <3> QED BY <1>6, <1>10, <3>1, <3>2, <3>3
  <2>4. ASSUME NEW s \in 0..cap-1, \A g \in D : g < s PROVE key[s] = Sentinel
    BY <1>4, <1>9, <2>4
  <2> QED BY <2>1, <2>2, <2>3, <2>4 DEF Gapped
<1>12. Enumerates(at, n, D)
  <2>1. at \in [1..n -> D]
    BY <1>4
  <2> QED BY <1>4, <2>1 DEF Enumerates
<1>13. n = Cardinality(D)
  <2>1. D \subseteq Int
    BY <1>4
  <2> QED BY <1>12, <2>1, InOrderUnique
<1>14. expand \in 10..10 * cap
  <2> DEFINE x == Max({8 * cap, 10 * (n + 1)})
  <2>1. 8 * cap \in Int /\ 10 * (n + 1) \in Int /\ 10 * cap \in Int
    OBVIOUS
  <2>2. x = IF 8 * cap >= 10 * (n + 1) THEN 8 * cap ELSE 10 * (n + 1)
    BY <2>1, MaxOfTwo
  <2>3. x \in Int /\ x >= 10
    BY <2>1, <2>2
  <2> HIDE DEF x
  <2>4. Min({x, 10 * cap}) = IF x <= 10 * cap THEN x ELSE 10 * cap
    BY <2>1, <2>3, MinOfTwo
  <2>5. expand = Min({x, 10 * cap})
    BY DEF x
  <2> HIDE DEF expand
  <2> QED BY <2>3, <2>4, <2>5
<1> HIDE DEF expand
<1>15. /\ nd.cap = cap /\ nd.key = key /\ nd.pay = pay /\ nd.num = n /\ nd.expandAt = expand
       /\ nd \in [cap : Nat \ {0}, key : {key}, pay : {pay}, num : Nat, expandAt : Nat, contractAt : Nat]
  <2>1. cap \in Nat \ {0} /\ expand \in Nat /\ 6 * cap \in Nat
    BY <1>14
  <2> QED BY <1>1, <2>1
<1>16. Filled(nd) = D
  BY <1>8, <1>15 DEF Filled
<1>17. nd \in Node
  <2>1. key \in UNION {[0..c-1 -> Keys \cup {Sentinel}] : c \in Nat}
    BY <1>7
  <2>2. pay \in UNION {[S -> Payloads] : S \in SUBSET Nat}
    <3>1. D \in SUBSET Nat
      BY <1>4
    <3> QED BY <1>8, <3>1
  <2> QED BY <1>15, <2>1, <2>2 DEF Node
<1>18. NodeOK(nd)
  BY <1>4, <1>7, <1>8, <1>11, <1>13, <1>14, <1>15, <1>16, <1>17 DEF NodeOK, SlotsOf
<1> QED BY <1>6, <1>12, <1>15, <1>16, <1>18 DEF LaidOut

(* h takes the entries of the slots S of a node to the slots T of another. *)
Carries(h, nd, S, new, T) ==
  /\ S \subseteq Filled(nd) /\ T \subseteq Filled(new)
  /\ h \in [S -> T]
  /\ \A x, y \in S : x < y => h[x] < h[y]
  /\ \A y \in T : \E x \in S : h[x] = y
  /\ \A x \in S : new.key[h[x]] = nd.key[x] /\ new.pay[h[x]] = nd.pay[x]

(* The node new has the entries of the slots S of nd, and no others.       *)
Keeps(nd, S, new) ==
  /\ NodeOK(new) /\ new.num = Cardinality(S) /\ new.num <= nd.num
  /\ \E h : Carries(h, nd, S, new, Filled(new))

(* From one order to the other of the same length.                         *)
Transfers(h, n, S, g, T, at) ==
  /\ h \in [S -> T]
  /\ \A i \in 1..n : h[g[i]] = at[i]
  /\ \A x, y \in S : x < y => h[x] < h[y]
  /\ \A y \in T : \E x \in S : h[x] = y

LEMMA OrderTransfer ==
  ASSUME NEW n \in Nat, NEW S, S \subseteq Int, NEW T, T \subseteq Int,
         NEW g, Enumerates(g, n, S), NEW at, Enumerates(at, n, T)
  PROVE  \E h : Transfers(h, n, S, g, T, at)
<1> DEFINE rank == [x \in S |-> CHOOSE i \in 1..n : g[i] = x]
           h == [x \in S |-> at[rank[x]]]
<1>1. /\ g \in [1..n -> S] /\ \A x \in S : \E i \in 1..n : g[i] = x
      /\ \A i, j \in 1..n : i < j => g[i] < g[j]
      /\ at \in [1..n -> T] /\ \A x \in T : \E i \in 1..n : at[i] = x
      /\ \A i, j \in 1..n : i < j => at[i] < at[j]
  BY DEF Enumerates, Increasing
<1>2. \A i \in 1..n : g[i] \in S /\ g[i] \in Int /\ at[i] \in T /\ at[i] \in Int
  BY <1>1
<1>3. \A x \in S : rank[x] \in 1..n /\ g[rank[x]] = x
  BY <1>1
<1> HIDE DEF rank
<1>4. \A i \in 1..n : rank[g[i]] = i
  <2> TAKE i \in 1..n
  <2>1. rank[g[i]] \in 1..n /\ g[rank[g[i]]] = g[i]
    BY <1>2, <1>3
  <2> DEFINE j == rank[g[i]]
  <2>2. j \in 1..n /\ g[j] = g[i]
    BY <2>1
  <2> HIDE DEF j
  <2>3. ~ (j < i) /\ ~ (i < j)
    BY <1>1, <1>2, <2>2
  <2>4. j = i
    BY <2>2, <2>3
  <2> QED BY <2>4 DEF j
<1>5. h \in [S -> T]
  BY <1>2, <1>3
<1>6. \A i \in 1..n : h[g[i]] = at[i]
  BY <1>2, <1>4
<1> HIDE DEF h
<1>7. ASSUME NEW x \in S, NEW y \in S, x < y PROVE h[x] < h[y]
  <2>1. PICK i \in 1..n : g[i] = x
    BY <1>1
  <2>2. PICK j \in 1..n : g[j] = y
    BY <1>1
  <2>3. i < j
    <3>1. j < i => g[j] < g[i]
      BY <1>1
    <3> QED BY <1>2, <1>7, <2>1, <2>2, <3>1
  <2> QED BY <1>1, <1>6, <2>1, <2>2, <2>3
<1>8. \A y \in T : \E x \in S : h[x] = y
  BY <1>1, <1>2, <1>6
<1> QED BY <1>5, <1>6, <1>7, <1>8 DEF Transfers

(* The entries of a stretch of a node are sorted.                          *)
LEMMA StretchEntries ==
  ASSUME NEW nd, NodeOK(nd), NEW from \in Int, NEW to \in Int,
         NEW S, S = Filled(nd) \cap (from..to - 1), NEW e, e = EntriesIn(nd, from, to)
  PROVE  /\ Cardinality(S) \in Nat /\ Cardinality(S) <= nd.num
         /\ IsFiniteSet(S) /\ S \subseteq Int
         /\ Enumerates(InOrder(S), Cardinality(S), S)
         /\ e \in [1..Cardinality(S) -> Keys \X Payloads] /\ Len(e) = Cardinality(S)
         /\ \A i \in 1..Cardinality(S) : /\ e[i][1] = nd.key[InOrder(S)[i]]
                                         /\ e[i][2] = nd.pay[InOrder(S)[i]]
         /\ Ascending(e, Cardinality(S))
<1> DEFINE n == Cardinality(S)
           g == InOrder(S)
<1>1. /\ Filled(nd) \subseteq Int /\ IsFiniteSet(Filled(nd)) /\ nd.num = Cardinality(Filled(nd))
  BY NodeFacts
<1>2. S \subseteq Filled(nd) /\ S \subseteq Int
  BY <1>1
<1>3. IsFiniteSet(S) /\ n <= nd.num
  BY <1>1, <1>2, FS_Subset
<1>4. n \in Nat /\ Enumerates(g, n, S)
  BY <1>2, <1>3, InOrderEnumerates
<1>5. g \in [1..n -> S] /\ DOMAIN g = 1..n
  BY <1>4 DEF Enumerates
<1>6. e = [i \in 1..n |-> <<nd.key[g[i]], nd.pay[g[i]]>>]
  BY <1>5 DEF EntriesIn
<1>7. \A f \in Filled(nd) : nd.key[f] \in Keys /\ nd.pay[f] \in Payloads
  BY DEF NodeOK, Gapped
<1> HIDE DEF g, n
<1>8. \A i \in 1..n : g[i] \in S /\ g[i] \in Filled(nd)
  BY <1>2, <1>5
<1>9. e \in [1..n -> Keys \X Payloads]
  BY <1>6, <1>7, <1>8
<1>10. \A i \in 1..n : e[i][1] = nd.key[g[i]] /\ e[i][2] = nd.pay[g[i]]
  BY <1>6
<1>11. Len(e) = n
  BY <1>4, <1>9
<1>12. ASSUME NEW i \in 1..n, NEW j \in 1..n, i < j PROVE e[i][1] <= e[j][1]
  <2>1. g[i] < g[j]
    BY <1>4, <1>12 DEF Enumerates, Increasing
  <2>2. \A x, y \in Filled(nd) : x < y => nd.key[x] <= nd.key[y]
    BY DEF NodeOK, Gapped
  <2> QED BY <1>8, <1>10, <2>1, <2>2
<1>13. Ascending(e, n)
  BY <1>12 DEF Ascending
<1> QED BY <1>2, <1>3, <1>4, <1>9, <1>10, <1>11, <1>13 DEF g, n

(* A layout of a stretch carries its entries.                              *)
LEMMA RelaidOK ==
  ASSUME NEW nd, NodeOK(nd), NEW from \in Int, NEW to \in Int,
         NEW S, S = Filled(nd) \cap (from..to - 1),
         NEW cap \in Nat, Cardinality(S) < cap,
         NEW new \in Layouts(EntriesIn(nd, from, to), cap)
  PROVE  Keeps(nd, S, new) /\ new.cap = cap
<1> DEFINE n == Cardinality(S)
           g == InOrder(S)
           e == EntriesIn(nd, from, to)
<1>1. /\ n \in Nat /\ n <= nd.num /\ S \subseteq Int
      /\ Enumerates(g, n, S) /\ e \in [1..n -> Keys \X Payloads]
      /\ \A i \in 1..n : e[i][1] = nd.key[g[i]] /\ e[i][2] = nd.pay[g[i]]
      /\ Ascending(e, n)
  BY StretchEntries
<1>2. n < cap
  OBVIOUS
<1> HIDE DEF n, g, e
<1>3. PICK model \in [Keys -> 0..cap] : new = Layout(e, cap, Places(e, cap, model))
  BY DEF Layouts, e
<1> DEFINE at == Places(e, cap, model)
<1>4. at \in [1..n -> 0..cap-1] /\ Increasing(at, n)
  <2>1. n <= cap
    BY <1>1, <1>2
  <2> QED BY <1>1, <2>1, PlacesFit
<1>5. new = Layout(e, cap, at)
  BY <1>3
<1> HIDE DEF at
<1>6. /\ NodeOK(new) /\ new.cap = cap /\ new.num = n
      /\ Enumerates(at, n, Filled(new))
      /\ \A i \in 1..n : new.key[at[i]] = e[i][1] /\ new.pay[at[i]] = e[i][2]
  <2>1. LaidOut(new, n, e, cap, at)
    BY ONLY <1>1, <1>2, <1>4, <1>5, LayoutOK, cap \in Nat
  <2> QED BY <2>1 DEF LaidOut
<1>7. Filled(new) \subseteq Int
  BY <1>6, NodeFacts
<1>8. PICK h : Transfers(h, n, S, g, Filled(new), at)
  BY ONLY <1>1, <1>6, <1>7, OrderTransfer
<1>9. ASSUME NEW x \in S PROVE new.key[h[x]] = nd.key[x] /\ new.pay[h[x]] = nd.pay[x]
  <2>1. PICK i \in 1..n : g[i] = x
    BY <1>1 DEF Enumerates
  <2>2. h[g[i]] = at[i]
    BY <1>8 DEF Transfers
  <2> QED BY <1>1, <1>6, <2>1, <2>2
<1>10. Carries(h, nd, S, new, Filled(new))
  BY <1>8, <1>9 DEF Carries, Transfers
<1> QED BY <1>1, <1>6, <1>10 DEF n, Keeps

LEMMA CapacityFits ==
  ASSUME NEW n \in Nat, NEW tenths \in Nat \ {0}
  PROVE  Capacity(n, tenths) \in Nat /\ n < Capacity(n, tenths)
<1> DEFINE q == (10 * n) \div tenths
<1>1. q \in Int /\ n + 1 \in Int
  OBVIOUS
<1> HIDE DEF q
<1>2. Max({q, n + 1}) = IF q >= n + 1 THEN q ELSE n + 1
  BY <1>1, MaxOfTwo
<1>3. Capacity(n, tenths) = Max({q, n + 1})
  BY DEF Capacity, q
<1> QED BY <1>1, <1>2, <1>3

LEMMA EmptyNodeOK ==
  /\ NodeOK(EmptyNode) /\ EmptyNode.num = 0 /\ EmptyNode.cap = 1 /\ Filled(EmptyNode) = {}
<1>1. Capacity(0, 7) = 1
  <2>1. (10 * 0) \div 7 = 0 /\ 0 + 1 = 1 /\ 0 \in Int /\ 1 \in Int
    OBVIOUS
  <2>2. Max({0, 1}) = 1
    BY <2>1, MaxOfTwo
  <2> QED BY <2>1, <2>2 DEF Capacity
<1>2. EmptyNode = [cap |-> 1, key |-> [s \in 0..0 |-> Sentinel], pay |-> <<>>, num |-> 0,
                   expandAt |-> 10, contractAt |-> 0]
  BY <1>1 DEF EmptyNode
<1>3. DOMAIN <<>> = {} /\ <<>> \in [{} -> Payloads]
  OBVIOUS
<1>4. /\ EmptyNode.cap = 1 /\ EmptyNode.key = [s \in 0..0 |-> Sentinel] /\ EmptyNode.num = 0
      /\ EmptyNode.pay = <<>> /\ EmptyNode.expandAt = 10 /\ Filled(EmptyNode) = {}
  BY <1>2, <1>3 DEF Filled
<1>5. EmptyNode \in Node
  <2>1. [s \in 0..0 |-> Sentinel] \in UNION {[0..c-1 -> Keys \cup {Sentinel}] : c \in Nat}
    <3>1. [s \in 0..0 |-> Sentinel] \in [0..1-1 -> Keys \cup {Sentinel}] /\ 1 \in Nat
      OBVIOUS
    <3> QED BY <3>1
  <2>2. <<>> \in UNION {[S -> Payloads] : S \in SUBSET Nat}
    BY <1>3
  <2> QED BY <1>2, <2>1, <2>2 DEF Node
<1>6. Gapped(1, [s \in 0..0 |-> Sentinel], {})
  BY DEF Gapped
<1>7. Cardinality({}) = 0
  BY FS_EmptySet
<1> QED BY <1>3, <1>4, <1>5, <1>6, <1>7 DEF NodeOK, SlotsOf

LEMMA KeepsItself ==
  ASSUME NEW nd, NodeOK(nd)
  PROVE  Keeps(nd, Filled(nd), nd)
<1> DEFINE F == Filled(nd)
           h == [s \in F |-> s]
<1>1. h \in [F -> F] /\ \A s \in F : h[s] = s
  OBVIOUS
<1> HIDE DEF h, F
<1>2. Carries(h, nd, F, nd, F)
  BY <1>1 DEF Carries, F
<1> QED
  <2>1. nd.num = Cardinality(Filled(nd)) /\ nd.num <= nd.num
    BY NodeFacts
  <2> QED BY <1>2, <2>1 DEF Keeps, F

(* All slots of a node are those from its first to its last.               *)
LEMMA WholeStretch ==
  ASSUME NEW nd, NodeOK(nd)
  PROVE  Filled(nd) = Filled(nd) \cap (0..nd.cap - 1)
BY NodeFacts

LEMMA ResizedOK ==
  ASSUME NEW nd, NodeOK(nd), NEW tenths \in Nat \ {0}, NEW new \in Resized(nd, tenths)
  PROVE  Keeps(nd, Filled(nd), new) /\ new.num = nd.num /\ new.num < new.cap
<1>1. nd.cap \in Nat \ {0} /\ nd.num \in Nat /\ nd.num = Cardinality(Filled(nd))
  BY NodeFacts
<1>2. CASE nd.num = 0
  <2>1. new = nd
    BY <1>2 DEF Resized
  <2> QED BY <1>1, <1>2, <2>1, KeepsItself
<1>3. CASE nd.num # 0
  <2> DEFINE cap == Capacity(nd.num, tenths)
             S == Filled(nd)
             to == nd.cap
  <2>1. new \in Layouts(EntriesIn(nd, 0, to), cap)
    BY <1>3 DEF Resized, Entries
  <2>2. cap \in Nat /\ Cardinality(S) < cap
    BY <1>1, CapacityFits
  <2>3. S = Filled(nd) \cap (0..to - 1) /\ 0 \in Int /\ to \in Int
    BY <1>1, WholeStretch
  <2> HIDE DEF cap, S, to
  <2>4. Keeps(nd, S, new) /\ new.cap = cap
    BY ONLY <2>1, <2>2, <2>3, RelaidOK, NodeOK(nd)
  <2> QED BY <1>1, <2>2, <2>4 DEF S, Keeps
<1> QED BY <1>2, <1>3

LEMMA ContractionsOK ==
  ASSUME NEW nd, NodeOK(nd), NEW new \in Contractions(nd)
  PROVE  Keeps(nd, Filled(nd), new)
<1>1. new = nd \/ new \in Resized(nd, 8)
  BY DEF Contractions
<1> QED BY <1>1, KeepsItself, ResizedOK

LEMMA LoadsOK ==
  ASSUME NEW nd, NodeOK(nd), NEW from \in Int, NEW to \in Int,
         NEW S, S = Filled(nd) \cap (from..to - 1),
         NEW tenths \in Nat \ {0}, NEW new \in Loads(EntriesIn(nd, from, to), tenths)
  PROVE  Keeps(nd, S, new)
<1> DEFINE e == EntriesIn(nd, from, to)
           n == Cardinality(S)
<1>1. /\ n \in Nat /\ n <= nd.num /\ IsFiniteSet(S)
      /\ e \in [1..n -> Keys \X Payloads] /\ Len(e) = n
  BY StretchEntries
<1>2. CASE e = <<>>
  <2>1. n = 0
    BY <1>1, <1>2
  <2>2. S = {}
    BY <1>1, <2>1, FS_EmptySet
  <2>3. new = EmptyNode
    BY <1>2 DEF Loads
  <2>4. NodeOK(new) /\ new.num = 0 /\ Filled(new) = {}
    BY <2>3, EmptyNodeOK
  <2>5. Carries(<<>>, nd, S, new, Filled(new))
    <3>1. <<>> \in [{} -> {}]
      OBVIOUS
    <3> QED BY <2>2, <2>4, <3>1 DEF Carries
  <2> QED BY <1>1, <2>1, <2>4, <2>5 DEF Keeps
<1>3. CASE e # <<>>
  <2> DEFINE cap == Capacity(n, tenths)
  <2>1. new \in Layouts(e, cap)
    <3> HIDE DEF e, n
    <3> QED BY <1>1, <1>3 DEF Loads, e
  <2>2. cap \in Nat /\ n < cap
    BY <1>1, CapacityFits
  <2> HIDE DEF cap
  <2>3. S = Filled(nd) \cap (from..to - 1)
    OBVIOUS
  <2>4. Keeps(nd, S, new) /\ new.cap = cap
    BY ONLY <2>1, <2>2, <2>3, RelaidOK, NodeOK(nd), from \in Int, to \in Int
  <2> QED BY <2>4
<1> QED BY <1>2, <1>3

-----------------------------------------------------------------------------
(* Erasures.  The run that goes ends in front of pos, and no gap is left   *)
(* whose next entry is in it.                                              *)
Run(nd, pos, run) ==
  /\ pos \in 0..nd.cap /\ run \subseteq 0..pos - 1
  /\ \A s \in run : \A t \in 0..nd.cap-1 : s <= t /\ t < pos => t \in run
  /\ \A s \in 0..nd.cap-1 :
       s < pos /\ s \notin run => \E t \in Filled(nd) : s <= t /\ t < pos /\ t \notin run

LEMMA EraseRunOK ==
  ASSUME NEW nd, NodeOK(nd), NEW pos, NEW run, Run(nd, pos, run),
         NEW new, new = EraseRun(nd, pos, run)
  PROVE  /\ Keeps(nd, Filled(nd) \ run, new)
         /\ Cardinality(run \cap Filled(nd)) \in 0..nd.num
         /\ new.num = nd.num - Cardinality(run \cap Filled(nd))
<1> DEFINE cap == nd.cap
           F == Filled(nd)
           rest == F \ run
           gone == run \cap F
           nextKey == IF pos = cap THEN Sentinel ELSE nd.key[pos]
           key == [s \in 0..cap-1 |-> IF s \in run THEN nextKey ELSE nd.key[s]]
           pay == [s \in rest |-> nd.pay[s]]
           num == nd.num - Cardinality(gone)
<1>1. /\ cap \in Nat \ {0} /\ SlotsOf(nd) = 0..cap-1 /\ nd.key \in [0..cap-1 -> Keys \cup {Sentinel}]
      /\ F \subseteq 0..cap-1 /\ F \subseteq Int /\ IsFiniteSet(F) /\ nd.num = Cardinality(F)
      /\ nd.num \in Nat
  BY NodeFacts
<1>2. /\ pos \in 0..cap /\ run \subseteq 0..pos-1 /\ run \subseteq 0..cap-1
      /\ \A s \in run : s < pos /\ s \in Int
      /\ \A s \in run : \A t \in 0..cap-1 : s <= t /\ t < pos => t \in run
      /\ \A s \in 0..cap-1 : s < pos /\ s \notin run => \E t \in F : s <= t /\ t < pos /\ t \notin run
  BY <1>1 DEF Run
<1>3. /\ nd \in Node /\ nd.pay \in [F -> Payloads] /\ nd.expandAt \in 10..10 * cap
      /\ Gapped(cap, nd.key, F)
  BY DEF NodeOK
<1>4. /\ new.cap = cap /\ new.key = key /\ new.pay = pay /\ new.num = num
      /\ new.expandAt = nd.expandAt /\ new.contractAt = nd.contractAt
      /\ new = [cap |-> cap, key |-> key, pay |-> pay, num |-> num,
                expandAt |-> nd.expandAt, contractAt |-> nd.contractAt]
  BY <1>1, <1>3 DEF EraseRun, Node, Restrict
<1>5. Filled(new) = rest
  BY <1>4 DEF Filled
<1> HIDE DEF F, nextKey
<1>6. Cardinality(gone) \in 0..nd.num /\ Cardinality(rest) = num /\ IsFiniteSet(rest)
  <2>1. IsFiniteSet(gone) /\ gone \subseteq F /\ Cardinality(gone) <= Cardinality(F)
    BY <1>1, FS_Subset
  <2>2. rest = F \ gone
    OBVIOUS
  <2>3. IsFiniteSet(rest) /\ Cardinality(rest) = Cardinality(F) - Cardinality(F \cap gone)
    BY <1>1, <2>1, <2>2, FS_Difference
  <2>4. F \cap gone = gone
    OBVIOUS
  <2>5. Cardinality(gone) \in Nat
    BY <2>1, FS_CardinalityType
  <2> HIDE DEF gone, rest
  <2>6. Cardinality(rest) = Cardinality(F) - Cardinality(gone)
    BY <2>3, <2>4
  <2> QED BY <1>1, <2>1, <2>3, <2>5, <2>6
<1>7. nextKey \in Keys \cup {Sentinel}
  BY <1>1, <1>2 DEF nextKey
<1>8. key \in [0..cap-1 -> Keys \cup {Sentinel}]
  BY <1>1, <1>7
<1>9. pay \in [rest -> Payloads]
  BY <1>3
<1>10. \A s \in 0..cap-1 : key[s] = IF s \in run THEN nextKey ELSE nd.key[s]
  OBVIOUS
<1>11. \A s \in rest : key[s] = nd.key[s] /\ pay[s] = nd.pay[s] /\ s \in F /\ s \in 0..cap-1
  BY <1>1
<1> HIDE DEF key, pay, num, rest, gone
<1>12. rest \subseteq F /\ \A s \in F : s \in rest \/ s \in run
  BY DEF rest
<1>13. /\ \A f \in F : nd.key[f] \in Keys
       /\ \A f, g \in F : f < g => nd.key[f] <= nd.key[g]
       /\ \A s \in 0..cap-1 :
            /\ \A f \in F : s <= f /\ (\A g \in F : g < s \/ f <= g) => nd.key[s] = nd.key[f]
            /\ (\A g \in F : g < s) => nd.key[s] = Sentinel
  BY <1>3 DEF Gapped
<1>14. Gapped(cap, key, rest)
  <2>1. \A f \in rest : key[f] \in Keys
    BY <1>11, <1>13
  <2>2. \A f, g \in rest : f < g => key[f] <= key[g]
    BY <1>11, <1>13
  <2>3. ASSUME NEW s \in 0..cap-1, NEW f \in rest, s <= f, \A g \in rest : g < s \/ f <= g
        PROVE  key[s] = key[f]
    <3>1. f \in F /\ key[f] = nd.key[f] /\ f \in Int /\ f \in 0..cap-1 /\ f \notin run
      BY <1>1, <1>11 DEF rest
    <3>2. CASE s \in run
      <4>1. f >= pos /\ pos \in 0..cap-1
        <5>1. ~ (f < pos)
          BY <1>2, <2>3, <3>1, <3>2
        <5> QED BY <1>1, <1>2, <3>1, <5>1
      <4>2. \A g \in F : g < pos \/ f <= g
        <5> TAKE g \in F
        <5>1. CASE g \in run
          BY <1>2, <5>1
        <5>2. CASE g \in rest
          <6>1. g < s \/ f <= g
            BY <2>3, <5>2
          <6> QED BY <1>1, <1>2, <3>2, <6>1
        <5> QED BY <1>12, <5>1, <5>2
      <4>3. nd.key[pos] = nd.key[f]
        BY <1>2, <1>13, <3>1, <4>1, <4>2
      <4>4. nextKey = nd.key[pos]
        BY <1>1, <4>1 DEF nextKey
      <4> QED BY <1>10, <3>1, <3>2, <4>3, <4>4
    <3>3. CASE s \notin run
      <4>1. \A g \in F : g < s \/ f <= g
        <5> SUFFICES ASSUME NEW g \in F, s <= g PROVE f <= g
          BY <1>1
        <5>1. CASE g \in rest
          BY <1>1, <2>3, <5>1
        <5>2. CASE g \in run
          <6>1. s < pos
            BY <1>1, <1>2, <5>2
          <6>2. PICK t \in F : s <= t /\ t < pos /\ t \notin run
            BY <1>2, <3>3, <6>1
          <6>3. t \in rest /\ f <= t /\ t \in Int /\ t \in 0..cap-1
            BY <1>1, <1>12, <2>3, <6>2
          <6>4. ~ (g <= t)
            BY <1>2, <5>2, <6>2, <6>3
          <6> QED BY <1>1, <3>1, <6>3, <6>4
        <5> QED BY <1>12, <5>1, <5>2
      <4> QED BY <1>10, <1>13, <2>3, <3>1, <3>3, <4>1
    <3> QED BY <3>2, <3>3
  <2>4. ASSUME NEW s \in 0..cap-1, \A g \in rest : g < s PROVE key[s] = Sentinel
    <3>1. CASE s \in run
      <4>1. \A g \in F : g < pos
        <5> TAKE g \in F
        <5>1. CASE g \in run
          BY <1>2, <5>1
        <5>2. CASE g \in rest
          BY <1>1, <1>2, <2>4, <3>1, <5>2
        <5> QED BY <1>12, <5>1, <5>2
      <4>2. pos = cap \/ nd.key[pos] = Sentinel
        <5>1. pos = cap \/ pos \in 0..cap-1
          BY <1>1, <1>2
        <5> QED BY <1>13, <4>1, <5>1
      <4> QED BY <1>10, <3>1, <4>2 DEF nextKey
    <3>2. CASE s \notin run
      <4>1. ASSUME NEW g \in F PROVE g < s
        <5>1. CASE g \in rest
          BY <2>4, <5>1
        <5>2. CASE g \in run
          <6>1. SUFFICES ASSUME s <= g PROVE FALSE
            BY <1>1
          <6>2. s < pos
            BY <1>1, <1>2, <5>2, <6>1
          <6>3. PICK t \in F : s <= t /\ t < pos /\ t \notin run
            BY <1>2, <3>2, <6>2
          <6>4. t \in rest /\ t < s /\ t \in Int
            BY <1>1, <1>12, <2>4, <6>3
          <6> QED BY <6>3, <6>4
        <5> QED BY <1>12, <5>1, <5>2
      <4> QED BY <1>10, <1>13, <3>2, <4>1
    <3> QED BY <3>1, <3>2
  <2> QED BY <2>1, <2>2, <2>3, <2>4 DEF Gapped
<1>15. NodeOK(new)
  <2>1. num \in Nat
    BY <1>1, <1>6 DEF num
  <2>2. key \in UNION {[0..c-1 -> Keys \cup {Sentinel}] : c \in Nat}
    BY <1>1, <1>8
  <2>3. pay \in UNION {[S -> Payloads] : S \in SUBSET Nat}
    <3>1. rest \in SUBSET Nat
      BY <1>11
    <3> QED BY <1>9, <3>1
  <2>4. new \in Node
    BY <1>1, <1>3, <1>4, <2>1, <2>2, <2>3 DEF Node
  <2>5. rest \subseteq 0..cap-1
    BY <1>11
  <2> QED BY <1>3, <1>4, <1>5, <1>6, <1>8, <1>9, <1>14, <2>4, <2>5 DEF NodeOK, SlotsOf
<1>16. \E h : Carries(h, nd, rest, new, Filled(new))
  <2> DEFINE h == [s \in rest |-> s]
  <2>1. h \in [rest -> rest] /\ \A s \in rest : h[s] = s
    OBVIOUS
  <2> HIDE DEF h
  <2>2. Carries(h, nd, rest, new, Filled(new))
    BY <1>4, <1>5, <1>11, <1>12, <2>1 DEF Carries, F
  <2> QED BY <2>2
<1> QED
  <2>1. new.num = Cardinality(rest) /\ new.num <= nd.num
    BY <1>1, <1>4, <1>6 DEF num
  <2>2. Keeps(nd, rest, new)
    BY <1>15, <1>16, <2>1 DEF Keeps
  <2> QED BY <1>4, <1>6, <2>2 DEF rest, gone, num, F

(* One entry and the gaps in front of it.                                  *)
LEMMA EraseOneAtOK ==
  ASSUME NEW nd, NodeOK(nd), NEW pos \in Filled(nd), NEW new, new = EraseOneAt(nd, pos)
  PROVE  Keeps(nd, Filled(nd) \ {pos}, new)
<1> DEFINE cap == nd.cap
           F == Filled(nd)
           run == {pos} \cup GapsBefore(nd, pos)
<1>1. cap \in Nat \ {0} /\ F \subseteq 0..cap-1 /\ pos \in 0..cap-1 /\ pos + 1 \in 0..cap
  <2>1. cap \in Nat \ {0} /\ F \subseteq 0..cap-1 /\ pos \in F
    BY NodeFacts
  <2> HIDE DEF F
  <2> QED BY <2>1
<1>2. \A s : s \in run <=> s = pos \/ (s \in 0..pos-1 /\ \A f \in F : f < s \/ pos <= f)
  <2>1. \A s \in 0..pos-1 : (s..pos-1) \cap F = {} <=> \A f \in F : f < s \/ pos <= f
    <3> TAKE s \in 0..pos-1
    <3>1. \A f \in F : f \in s..pos-1 <=> ~ (f < s \/ pos <= f)
      BY <1>1
    <3> QED BY <3>1
  <2> QED BY <2>1 DEF GapsBefore
<1>3. \A f \in F : f \in run <=> f = pos
  BY <1>1, <1>2
<1> HIDE DEF run, F, cap
<1>4. Run(nd, pos + 1, run)
  <2>1. run \subseteq 0..(pos + 1) - 1
    BY <1>1, <1>2
  <2>2. ASSUME NEW s \in run, NEW t \in 0..cap-1, s <= t, t < pos + 1 PROVE t \in run
    <3>1. t = pos \/ t \in 0..pos-1
      BY <1>1, <2>2
    <3>2. CASE t \in 0..pos-1
      <4>1. s \in 0..pos-1 /\ \A f \in F : f < s \/ pos <= f
        BY <1>1, <1>2, <2>2, <3>2
      <4>2. \A f \in F : f < t \/ pos <= f
        BY <1>1, <2>2, <4>1
      <4> QED BY <1>2, <3>2, <4>2
    <3> QED BY <1>2, <3>1, <3>2
  <2>3. ASSUME NEW s \in 0..cap-1, s < pos + 1, s \notin run
        PROVE  \E t \in F : s <= t /\ t < pos + 1 /\ t \notin run
    <3>1. s \in 0..pos-1
      BY <1>1, <1>2, <2>3
    <3>2. PICK t \in F : ~ (t < s \/ pos <= t)
      BY <1>2, <2>3, <3>1
    <3>3. t \notin run /\ s <= t /\ t < pos + 1
      BY <1>1, <1>3, <3>2
    <3> QED BY <3>3
  <2>4. pos + 1 \in 0..cap
    BY <1>1
  <2> QED BY <2>1, <2>2, <2>3, <2>4 DEF Run, cap, F
<1>5. new = EraseRun(nd, pos + 1, run)
  BY DEF EraseOneAt, run
<1>6. Filled(nd) \ run = Filled(nd) \ {pos}
  BY <1>3 DEF F
<1>7. Keeps(nd, Filled(nd) \ run, new)
  BY <1>4, <1>5, EraseRunOK
<1> QED BY <1>6, <1>7

(* The slots in front of a position with a key from low on, when the       *)
(* position is not inside of the slots of one key.                         *)
LEMMA EraseFromOK ==
  ASSUME NEW nd, NodeOK(nd), NEW low \in Keys, NEW pos \in 0..nd.cap,
         \A s, t \in 0..nd.cap-1 : nd.key[s] = nd.key[t] /\ s < pos => t < pos,
         NEW gone, gone = {s \in Filled(nd) : s < pos /\ nd.key[s] >= low},
         NEW new, new = EraseFrom(nd, pos, low)
  PROVE  /\ Keeps(nd, Filled(nd) \ gone, new)
         /\ Cardinality(gone) \in 0..nd.num
         /\ new.num = nd.num - Cardinality(gone)
<1> DEFINE cap == nd.cap
           F == Filled(nd)
           key == nd.key
           run == {s \in 0..pos-1 : key[s] >= low}
<1>1. /\ cap \in Nat \ {0} /\ F \subseteq 0..cap-1 /\ key \in [0..cap-1 -> Nat]
      /\ low \in Nat /\ low < Sentinel /\ Sentinel \in Nat
  BY NodeFacts
<1>2. Gapped(cap, key, F)
  BY DEF NodeOK
<1>3. \A s \in 0..pos-1 : s \in 0..cap-1 /\ s < pos
  <2> HIDE DEF F, key
  <2> QED BY <1>1
<1> HIDE DEF cap, F, key
<1>4. Run(nd, pos, run)
  <2>1. ASSUME NEW s \in run, NEW t \in 0..cap-1, s <= t, t < pos PROVE t \in run
    <3>1. s \in 0..cap-1 /\ key[s] >= low /\ key[s] \in Nat /\ key[t] \in Nat
      BY <1>1, <1>3
    <3>2. key[s] <= key[t]
      BY <1>1, <1>2, <2>1, <3>1, KeysAscend
    <3>3. t \in 0..pos-1
      BY <2>1
    <3>4. key[t] >= low
      BY <1>1, <3>1, <3>2
    <3> QED BY <3>3, <3>4
  <2>2. ASSUME NEW s \in 0..cap-1, s < pos, s \notin run
        PROVE  \E t \in F : s <= t /\ t < pos /\ t \notin run
    <3>1. s \in 0..pos-1 /\ key[s] < low /\ key[s] \in Nat
      BY <1>1, <2>2
    <3>2. \E f \in F : s <= f
      <4>1. SUFFICES ASSUME \A f \in F : f < s PROVE FALSE
        BY <1>1
      <4>2. key[s] = Sentinel
        BY <1>2, <4>1 DEF Gapped
      <4> QED BY <1>1, <3>1, <4>2
    <3>3. PICK f \in F : s <= f /\ \A g \in F : g < s \/ f <= g
      <4>1. cap \in Nat /\ F \subseteq 0..cap-1 /\ s \in Int
        BY <1>1
      <4> QED BY ONLY <3>2, <4>1, NextEntry
    <3>4. key[s] = key[f]
      BY <1>2, <3>3 DEF Gapped
    <3>5. f < pos
      BY <1>1, <2>2, <3>4 DEF cap, key
    <3>6. f \notin run
      BY <1>1, <3>1, <3>4
    <3> QED BY <3>3, <3>5, <3>6
  <2>3. run \subseteq 0..pos-1 /\ pos \in 0..cap
    BY DEF cap
  <2> QED BY <2>1, <2>2, <2>3 DEF Run, cap, F
<1>5. new = EraseRun(nd, pos, run)
  BY DEF EraseFrom, key
<1>6. run \cap F = gone
  <2>1. \A f \in F : f \in 0..pos-1 <=> f < pos
    BY <1>1
  <2> QED BY <2>1 DEF F, key
<1>7. Filled(nd) \ run = Filled(nd) \ gone
  BY <1>6 DEF F
<1> HIDE DEF run
<1>8. /\ Keeps(nd, Filled(nd) \ run, new)
      /\ Cardinality(run \cap Filled(nd)) \in 0..nd.num
      /\ new.num = nd.num - Cardinality(run \cap Filled(nd))
  BY <1>4, <1>5, EraseRunOK
<1> QED BY <1>6, <1>7, <1>8 DEF F

-----------------------------------------------------------------------------
(* Insertions.  A slot is open for a key: the entries on its left go with  *)
(* keys up to it, those on its right with keys from it on, and apart from  *)
(* the slot and the gaps in front of it all slots have the key they need.  *)
OpenAt(cap, key, filled, slot, k) ==
  /\ filled \subseteq 0..cap-1 /\ slot \in 0..cap-1 /\ slot \notin filled
  /\ \A f \in filled : key[f] \in Keys
  /\ \A f, g \in filled : f < g => key[f] <= key[g]
  /\ \A f \in filled : (f < slot => key[f] <= k) /\ (slot < f => k <= key[f])
  /\ \A s \in 0..cap-1 :
       slot < s \/ (\E f \in filled : s <= f /\ f < slot) =>
         /\ \A f \in filled : s <= f /\ (\A g \in filled : g < s \/ f <= g) => key[s] = key[f]
         /\ (\A g \in filled : g < s) => key[s] = Sentinel

(* The slot and the gaps in front of it take the key.                      *)
FilledUp(cap, key, filled, slot, k, new) ==
  \A s \in 0..cap-1 :
    new[s] = IF s <= slot /\ (\A f \in filled : f < s \/ slot <= f) THEN k ELSE key[s]

LEMMA FillOK ==
  ASSUME NEW cap \in Nat, NEW key, NEW filled, NEW slot, NEW k \in Keys,
         OpenAt(cap, key, filled, slot, k),
         NEW new, FilledUp(cap, key, filled, slot, k, new)
  PROVE  Gapped(cap, new, filled \cup {slot})
<1> DEFINE F == filled \cup {slot}
<1>1. filled \subseteq 0..cap-1 /\ slot \in 0..cap-1 /\ slot \notin filled /\ slot \in Int
  BY DEF OpenAt
<1>2. \A f \in filled : /\ key[f] \in Keys /\ (f < slot => key[f] <= k) /\ (slot < f => k <= key[f])
                        /\ f \in Int /\ f # slot /\ f \in 0..cap-1
  BY <1>1 DEF OpenAt
<1>3. \A f, g \in filled : f < g => key[f] <= key[g]
  BY DEF OpenAt
<1>4. \A s \in 0..cap-1 :
        slot < s \/ (\E f \in filled : s <= f /\ f < slot) =>
          /\ \A f \in filled : s <= f /\ (\A g \in filled : g < s \/ f <= g) => key[s] = key[f]
          /\ (\A g \in filled : g < s) => key[s] = Sentinel
  BY DEF OpenAt
<1>5. \A s \in 0..cap-1 :
        new[s] = IF s <= slot /\ (\A f \in filled : f < s \/ slot <= f) THEN k ELSE key[s]
  BY DEF FilledUp
<1>6. new[slot] = k
  BY <1>1, <1>2, <1>5
<1>7. \A f \in filled : new[f] = key[f]
  BY <1>1, <1>2, <1>5
<1>8. \A f \in F : f \in filled \/ f = slot
  OBVIOUS
<1>9. \A f \in F : new[f] \in Keys
  BY <1>2, <1>6, <1>7, <1>8
<1>10. \A f, g \in F : f < g => new[f] <= new[g]
  <2>1. ~ (slot < slot)
    BY <1>1
  <2> QED BY <1>2, <1>3, <1>6, <1>7, <1>8, <2>1
<1>11. ASSUME NEW s \in 0..cap-1, NEW f \in F, s <= f, \A g \in F : g < s \/ f <= g
       PROVE  new[s] = new[f]
  <2>1. s \in Int /\ f \in Int /\ (slot < s \/ f <= slot)
    BY <1>1, <1>2, <1>8, <1>11
  <2>2. CASE f = slot
    <3>1. \A g \in filled : g < s \/ slot <= g
      BY <1>11, <2>2
    <3>2. s <= slot
      BY <1>11, <2>2
    <3> QED BY <1>5, <1>6, <2>2, <3>1, <3>2
  <2>3. CASE f \in filled
    <3>1. slot < s \/ (s <= f /\ f < slot)
      BY <1>1, <1>2, <1>11, <2>1, <2>3
    <3>2. \A g \in filled : g < s \/ f <= g
      BY <1>11
    <3>3. key[s] = key[f]
      BY <1>4, <1>11, <2>3, <3>1, <3>2
    <3>4. new[s] = key[s]
      <4>1. CASE slot < s
        BY <1>1, <1>5, <2>1, <4>1
      <4>2. CASE s <= f /\ f < slot
        <5>1. ~ (f < s \/ slot <= f)
          BY <1>1, <2>1, <4>2
        <5> QED BY <1>5, <2>3, <5>1
      <4> QED BY <3>1, <4>1, <4>2
    <3> QED BY <1>7, <2>3, <3>3, <3>4
  <2> QED BY <1>8, <2>2, <2>3
<1>12. ASSUME NEW s \in 0..cap-1, \A g \in F : g < s PROVE new[s] = Sentinel
  <2>1. slot < s /\ \A g \in filled : g < s
    BY <1>12
  <2>2. ~ (s <= slot)
    BY <1>1, <2>1
  <2> QED BY <1>4, <1>5, <2>1, <2>2
<1> QED BY <1>9, <1>10, <1>11, <1>12 DEF Gapped

(* The node new has the entries of nd and behind those of its key one more.*)
Receives(nd, k, p, new) ==
  /\ NodeOK(new) /\ new.num = nd.num + 1
  /\ \E h, slot : /\ slot \in Filled(new) /\ new.key[slot] = k /\ new.pay[slot] = p
                  /\ Carries(h, nd, Filled(nd), new, Filled(new) \ {slot})
                  /\ \A x \in Filled(nd) : nd.key[x] = k => h[x] < slot

(* The entries have moved out of the way of the slot.                      *)
MovedTo(h, nd, key, pay, filled, k, slot) ==
  /\ h \in [Filled(nd) -> filled]
  /\ \A x, y \in Filled(nd) : x < y => h[x] < h[y]
  /\ \A y \in filled : \E x \in Filled(nd) : h[x] = y
  /\ \A x \in Filled(nd) : key[h[x]] = nd.key[x] /\ pay[h[x]] = nd.pay[x]
  /\ \A x \in Filled(nd) : nd.key[x] = k => h[x] < slot

PlacedIn(new, nd, cap, key3, pay, filled, slot, p) ==
  new = [cap |-> cap, key |-> key3,
         pay |-> [s \in filled \cup {slot} |-> IF s = slot THEN p ELSE pay[s]],
         num |-> nd.num + 1,
         expandAt |-> nd.expandAt, contractAt |-> nd.contractAt]

LEMMA PlacedOK ==
  ASSUME NEW nd, NodeOK(nd), NEW k \in Keys, NEW p \in Payloads,
         NEW cap, cap = nd.cap,
         NEW key \in [0..cap-1 -> Keys \cup {Sentinel}], NEW pay, NEW filled, NEW slot,
         OpenAt(cap, key, filled, slot, k),
         NEW h, MovedTo(h, nd, key, pay, filled, k, slot),
         NEW key3 \in [0..cap-1 -> Keys \cup {Sentinel}],
         FilledUp(cap, key, filled, slot, k, key3),
         NEW new, PlacedIn(new, nd, cap, key3, pay, filled, slot, p)
  PROVE  Receives(nd, k, p, new)
<1> DEFINE F == Filled(nd)
           G == filled \cup {slot}
           pay3 == [s \in G |-> IF s = slot THEN p ELSE pay[s]]
<1>1. /\ cap \in Nat \ {0} /\ F \subseteq Int /\ IsFiniteSet(F)
      /\ nd.num = Cardinality(F) /\ nd.num \in Nat
      /\ nd \in Node /\ nd.pay \in [F -> Payloads] /\ nd.expandAt \in 10..10 * cap
  BY NodeFacts DEF NodeOK
<1>2. filled \subseteq 0..cap-1 /\ slot \in 0..cap-1 /\ slot \notin filled
  BY DEF OpenAt
<1>3. /\ h \in [F -> filled]
      /\ \A x, y \in F : x < y => h[x] < h[y]
      /\ \A y \in filled : \E x \in F : h[x] = y
      /\ \A x \in F : key[h[x]] = nd.key[x] /\ pay[h[x]] = nd.pay[x]
      /\ \A x \in F : nd.key[x] = k => h[x] < slot
  BY DEF MovedTo
<1> HIDE DEF F
<1>4. /\ new.cap = cap /\ new.key = key3 /\ new.pay = pay3 /\ new.num = nd.num + 1
      /\ new.expandAt = nd.expandAt /\ new.contractAt = nd.contractAt
  BY DEF PlacedIn
<1>5. Filled(new) = G
  BY <1>4 DEF Filled
<1>6. Gapped(cap, key3, G)
  BY <1>1, FillOK
<1>7. Cardinality(G) = nd.num + 1
  <2>1. filled \subseteq Int
    BY <1>2
  <2>2. IsFiniteSet(filled) /\ Cardinality(filled) = Cardinality(F)
    <3>1. Onto(h, F, filled)
      BY <1>3 DEF Onto
    <3>2. F \subseteq Int /\ IsFiniteSet(F)
      BY <1>1
    <3>3. ImageOf(h, F, filled)
      BY ONLY <2>1, <3>1, <3>2, InOrderImage
    <3> QED BY <3>3 DEF ImageOf
  <2> QED BY <1>1, <1>2, <2>2, FS_AddElement
<1>8. \A y \in filled : pay[y] \in Payloads
  <2> TAKE y \in filled
  <2>1. PICK x \in F : h[x] = y
    BY <1>3
  <2>2. pay[y] = nd.pay[x]
    BY <1>3, <2>1
  <2> QED BY <1>1, <2>2
<1>9. pay3 \in [G -> Payloads]
  BY <1>8
<1>10. \A s \in filled : pay3[s] = pay[s] /\ key3[s] = key[s]
  <2>1. \A s \in filled : s \in 0..cap-1 /\ s # slot /\ ~ (s < s)
                          /\ (slot <= s => ~ (s <= slot))
    BY <1>2
  <2>2. \A s \in filled : ~ (s <= slot /\ (\A f \in filled : f < s \/ slot <= f))
    BY <2>1
  <2> QED BY <2>1, <2>2 DEF FilledUp
<1>11. pay3[slot] = p /\ key3[slot] = k
  <2>1. \A f \in filled : f < slot \/ slot <= f
    BY <1>2
  <2>2. slot <= slot
    BY <1>2
  <2> QED BY <1>2, <2>1, <2>2 DEF FilledUp
<1> HIDE DEF pay3, G
<1>12. NodeOK(new)
  <2>1. key3 \in UNION {[0..c-1 -> Keys \cup {Sentinel}] : c \in Nat}
    BY <1>1
  <2>2. pay3 \in UNION {[S -> Payloads] : S \in SUBSET Nat}
    <3>1. G \in SUBSET Nat
      BY <1>2 DEF G
    <3> QED BY <1>9, <3>1
  <2>3. new = [cap |-> cap, key |-> key3, pay |-> pay3, num |-> nd.num + 1,
               expandAt |-> nd.expandAt, contractAt |-> nd.contractAt]
    BY DEF pay3, G, PlacedIn
  <2>6. nd.num + 1 \in Nat /\ nd.expandAt \in Nat /\ nd.contractAt \in Nat /\ cap \in Nat \ {0}
    BY <1>1 DEF Node
  <2> HIDE DEF pay3
  <2>4. new \in Node
    BY ONLY <2>1, <2>2, <2>3, <2>6 DEF Node
  <2>5. G \subseteq 0..cap-1
    BY <1>2 DEF G
  <2> QED BY <1>1, <1>4, <1>5, <1>6, <1>7, <1>9, <2>4, <2>5 DEF NodeOK, SlotsOf
<1>13. Carries(h, nd, Filled(nd), new, Filled(new) \ {slot})
  <2>1. Filled(new) \ {slot} = filled
    BY <1>2, <1>5 DEF G
  <2>2. \A x \in F : h[x] \in filled
    BY <1>3
  <2>3. \A x \in F : new.key[h[x]] = nd.key[x] /\ new.pay[h[x]] = nd.pay[x]
    BY <1>3, <1>4, <1>10, <2>2
  <2>4. filled \subseteq Filled(new)
    BY <1>5 DEF G
  <2> QED BY <1>3, <2>1, <2>3, <2>4 DEF Carries, F
<1>14. slot \in Filled(new) /\ new.key[slot] = k /\ new.pay[slot] = p
  BY <1>4, <1>5, <1>11 DEF G
<1> QED BY <1>3, <1>4, <1>12, <1>13, <1>14 DEF Receives, F

(* The element goes into an open slot.                                     *)
Moved(nd, key, pay) == [cap |-> nd.cap, key |-> key, pay |-> pay, num |-> nd.num,
                        expandAt |-> nd.expandAt, contractAt |-> nd.contractAt]

PlacedFrom(new, nd, key, pay, filled, slot, k, p) ==
  /\ DOMAIN pay \cup {slot} = filled \cup {slot}
  /\ new = [InsertElementAt(Moved(nd, key, pay), k, p, slot) EXCEPT !.num = nd.num + 1]

LEMMA ElementPlaced ==
  ASSUME NEW nd, NodeOK(nd), NEW k \in Keys, NEW p \in Payloads,
         NEW key \in [0..nd.cap-1 -> Keys \cup {Sentinel}], NEW pay, NEW filled, NEW slot,
         OpenAt(nd.cap, key, filled, slot, k),
         NEW h, MovedTo(h, nd, key, pay, filled, k, slot),
         NEW new, PlacedFrom(new, nd, key, pay, filled, slot, k, p)
  PROVE  Receives(nd, k, p, new) /\ new.cap = nd.cap
<1> DEFINE cap == nd.cap
           mid == Moved(nd, key, pay)
           before == GapsBefore(mid, slot)
           key3 == [s \in 0..cap-1 |-> IF s \in before \cup {slot} THEN k ELSE key[s]]
           pay3 == [s \in filled \cup {slot} |-> IF s = slot THEN p ELSE pay[s]]
<1>1. filled \subseteq 0..cap-1 /\ slot \in 0..cap-1 /\ slot \notin filled /\ slot \in Int
  BY DEF OpenAt
<1>9. mid = [cap |-> cap, key |-> key, pay |-> pay, num |-> nd.num,
             expandAt |-> nd.expandAt, contractAt |-> nd.contractAt]
  BY DEF Moved
<1>10. /\ DOMAIN pay \cup {slot} = filled \cup {slot}
       /\ new = [InsertElementAt(mid, k, p, slot) EXCEPT !.num = nd.num + 1]
  BY DEF PlacedFrom
<1> HIDE DEF mid
<1>2. /\ mid.cap = cap /\ mid.key = key /\ mid.pay = pay
      /\ Filled(mid) = DOMAIN pay /\ SlotsOf(mid) = 0..cap-1
  BY <1>9 DEF Filled, SlotsOf
<1>3. new = [cap |-> cap, key |-> key3, pay |-> pay3, num |-> nd.num + 1,
             expandAt |-> nd.expandAt, contractAt |-> nd.contractAt]
  <2>1. key3 = [s \in SlotsOf(mid) |->
                  IF s \in GapsBefore(mid, slot) \cup {slot} THEN k ELSE mid.key[s]]
    BY <1>2
  <2>2. pay3 = [s \in Filled(mid) \cup {slot} |-> IF s = slot THEN p ELSE mid.pay[s]]
    BY <1>2, <1>10
  <2> HIDE DEF key3, pay3
  <2>3. InsertElementAt(mid, k, p, slot) = [mid EXCEPT !.key = key3, !.pay = pay3]
    BY <2>1, <2>2 DEF InsertElementAt
  <2>4. InsertElementAt(mid, k, p, slot) =
          [cap |-> cap, key |-> key3, pay |-> pay3, num |-> nd.num,
           expandAt |-> nd.expandAt, contractAt |-> nd.contractAt]
    BY <1>9, <2>3
  <2> QED BY <1>10, <2>4
<1>4. \A s \in 0..cap-1 : s \in before \cup {slot} <=>
                            (s <= slot /\ \A f \in filled : f < s \/ slot <= f)
  <2> TAKE s \in 0..cap-1
  <2>1. \A f : f \in Filled(mid) => f \in filled \/ f = slot
    BY <1>2, <1>10
  <2>2. \A f : f \in filled => f \in Filled(mid) \/ f = slot
    BY <1>2, <1>10
  <2>3. s \in Int /\ (\A f \in filled : f \in Int /\ f # slot)
    BY <1>1
  <2>4. (s..slot-1) \cap Filled(mid) = {} <=> \A f \in filled : f < s \/ slot <= f
    <3>1. \A f \in filled : f \in s..slot-1 <=> ~ (f < s \/ slot <= f)
      BY <1>1, <2>3
    <3>2. slot \notin s..slot-1
      BY <1>1, <2>3
    <3> QED BY <2>1, <2>2, <2>3, <3>1, <3>2
  <2>5. s \in before <=> s \in 0..slot-1 /\ (s..slot-1) \cap Filled(mid) = {}
    BY DEF GapsBefore
  <2>6. s = slot => \A f \in filled : f < s \/ slot <= f
    BY <1>1, <2>3
  <2>7. s <= slot <=> s \in 0..slot-1 \/ s = slot
    BY <1>1
  <2> QED BY <2>4, <2>5, <2>6, <2>7
<1> HIDE DEF before
<1>5. key3 \in [0..cap-1 -> Keys \cup {Sentinel}]
  OBVIOUS
<1>6. FilledUp(cap, key, filled, slot, k, key3)
  BY <1>4 DEF FilledUp
<1> HIDE DEF key3
<1>7. Receives(nd, k, p, new)
  <2>1. /\ NodeOK(nd) /\ k \in Keys /\ p \in Payloads
        /\ key \in [0..cap-1 -> Keys \cup {Sentinel}]
        /\ OpenAt(cap, key, filled, slot, k) /\ MovedTo(h, nd, key, pay, filled, k, slot)
    OBVIOUS
  <2>2. PlacedIn(new, nd, cap, key3, pay, filled, slot, p)
    BY <1>3 DEF PlacedIn
  <2> QED BY ONLY <1>5, <1>6, <2>1, <2>2, PlacedOK
<1>8. new.cap = cap
  BY ONLY <1>3
<1> QED BY ONLY <1>7, <1>8

(* The slots between lo and hi are entries but for the gap; the shift      *)
(* moves them by one, from the position to the gap, and frees the slot.    *)
ShiftsTo(cap, F, pos, slot, lo, hi, filled, from, h) ==
  /\ filled \subseteq 0..cap-1 /\ slot \in 0..cap-1 /\ slot \notin filled
  /\ lo \in 0..cap-1 /\ hi \in 0..cap-1 /\ lo <= slot /\ slot <= hi
  /\ from \in [0..cap-1 -> 0..cap-1]
  /\ \A s \in 0..cap-1 : s < lo \/ hi < s => from[s] = s /\ (s \in F <=> s \in filled)
  /\ \A s \in 0..cap-1 : lo <= s /\ s <= hi => lo <= from[s] /\ from[s] <= hi
  /\ \A s \in 0..cap-1 : lo <= s /\ s <= hi /\ s # slot => s \in filled
  /\ \A f \in filled : from[f] \in F
  /\ \A f, g \in filled : f < g => from[f] < from[g]
  /\ \A f \in filled : (f < slot => from[f] < pos) /\ (slot < f => pos <= from[f])
  /\ h \in [F -> filled]
  /\ \A x, y \in F : x < y => h[x] < h[y]
  /\ \A y \in filled : \E x \in F : h[x] = y
  /\ \A x \in F : from[h[x]] = x /\ (x < pos => h[x] < slot)

TakesFrom(nd, key, pay, filled, from) ==
  /\ key = [s \in 0..nd.cap-1 |-> nd.key[from[s]]]
  /\ \A f \in filled : pay[f] = nd.pay[from[f]]

LEMMA ShiftOpens ==
  ASSUME NEW nd, NodeOK(nd), NEW k \in Keys, NEW pos, Between(nd, k, pos),
         NEW slot, NEW lo, NEW hi, NEW filled, NEW from, NEW h,
         ShiftsTo(nd.cap, Filled(nd), pos, slot, lo, hi, filled, from, h),
         NEW key, NEW pay, TakesFrom(nd, key, pay, filled, from)
  PROVE  /\ OpenAt(nd.cap, key, filled, slot, k)
         /\ MovedTo(h, nd, key, pay, filled, k, slot)
<1> DEFINE cap == nd.cap
           F == Filled(nd)
<1>1. /\ cap \in Nat \ {0} /\ F \subseteq 0..cap-1 /\ Gapped(cap, nd.key, F)
      /\ nd.key \in [0..cap-1 -> Nat] /\ k \in Nat
  BY NodeFacts DEF NodeOK
<1>2. /\ pos \in 0..cap
      /\ \A f \in F : (nd.key[f] <= k => f < pos) /\ (nd.key[f] > k => pos <= f)
  BY DEF Between
<1>3. /\ filled \subseteq 0..cap-1 /\ slot \in 0..cap-1 /\ slot \notin filled
      /\ lo \in 0..cap-1 /\ hi \in 0..cap-1 /\ lo <= slot /\ slot <= hi
      /\ from \in [0..cap-1 -> 0..cap-1]
      /\ \A s \in 0..cap-1 : s < lo \/ hi < s => from[s] = s /\ (s \in F <=> s \in filled)
      /\ \A s \in 0..cap-1 : lo <= s /\ s <= hi => lo <= from[s] /\ from[s] <= hi
      /\ \A s \in 0..cap-1 : lo <= s /\ s <= hi /\ s # slot => s \in filled
      /\ \A f \in filled : from[f] \in F
      /\ \A f, g \in filled : f < g => from[f] < from[g]
      /\ \A f \in filled : (f < slot => from[f] < pos) /\ (slot < f => pos <= from[f])
  BY DEF ShiftsTo
<1>4. /\ h \in [F -> filled]
      /\ \A x, y \in F : x < y => h[x] < h[y]
      /\ \A y \in filled : \E x \in F : h[x] = y
      /\ \A x \in F : from[h[x]] = x /\ (x < pos => h[x] < slot)
  BY DEF ShiftsTo
<1> HIDE DEF F, cap
<1>5. /\ \A s \in 0..cap-1 : key[s] = nd.key[from[s]]
      /\ \A f \in filled : pay[f] = nd.pay[from[f]]
  BY DEF cap, TakesFrom
<1>6. MovedTo(h, nd, key, pay, filled, k, slot)
  <2>1. \A x \in F : h[x] \in filled /\ h[x] \in 0..cap-1
    BY <1>3, <1>4
  <2>2. \A x \in F : key[h[x]] = nd.key[x] /\ pay[h[x]] = nd.pay[x]
    BY <1>4, <1>5, <2>1
  <2>3. \A x \in F : nd.key[x] = k => x < pos
    BY <1>1, <1>2
  <2> QED BY <1>4, <2>2, <2>3 DEF MovedTo, F
<1>7. \A f \in filled : key[f] \in Keys /\ f \in 0..cap-1 /\ f \in Int /\ from[f] \in 0..cap-1
  <2>1. \A f \in filled : f \in 0..cap-1 /\ f \in Int /\ from[f] \in 0..cap-1
    BY <1>3
  <2>2. \A x \in F : nd.key[x] \in Keys
    BY <1>1 DEF Gapped
  <2> QED BY <1>3, <1>5, <2>1, <2>2
<1>8. \A f, g \in filled : f < g => key[f] <= key[g]
  <2> TAKE f, g \in filled
  <2>1. f < g => from[f] \in F /\ from[g] \in F /\ from[f] < from[g]
    BY <1>3
  <2>2. key[f] = nd.key[from[f]] /\ key[g] = nd.key[from[g]]
    BY <1>5, <1>7
  <2>3. \A x, y \in F : x < y => nd.key[x] <= nd.key[y]
    BY <1>1 DEF Gapped
  <2> QED BY <2>1, <2>2, <2>3
<1>9. \A f \in filled : (f < slot => key[f] <= k) /\ (slot < f => k <= key[f])
  <2> TAKE f \in filled
  <2>1. from[f] \in F /\ key[f] = nd.key[from[f]] /\ key[f] \in Nat /\ from[f] \in Int
    <3>1. f \in 0..cap-1 /\ from[f] \in 0..cap-1 /\ from[f] \in F
      BY <1>3, <1>7
    <3> QED BY <1>1, <1>5, <3>1
  <2>2. f < slot => ~ (nd.key[from[f]] > k)
    BY <1>2, <1>3, <2>1
  <2>3. slot < f => ~ (nd.key[from[f]] <= k)
    BY <1>2, <1>3, <2>1
  <2> QED BY <1>1, <2>1, <2>2, <2>3
<1>10. ASSUME NEW s \in 0..cap-1, slot < s \/ (\E f \in filled : s <= f /\ f < slot),
              s \notin filled
       PROVE  key[s] = nd.key[s] /\ s \in Int /\ (s < lo \/ hi < s)
  <2>1. s # slot /\ s \in Int
    BY <1>3, <1>7, <1>10
  <2>2. s < lo \/ hi < s
    BY <1>3, <1>10, <2>1
  <2> QED BY <1>3, <1>5, <2>1, <2>2
<1>13. \A s \in 0..cap-1 : s < lo \/ hi < s =>
         \A f \in filled : s <= f => s <= from[f]
  <2> SUFFICES ASSUME NEW s \in 0..cap-1, s < lo \/ hi < s, NEW f \in filled, s <= f
               PROVE  s <= from[f]
    OBVIOUS
  <2>1. f \in 0..cap-1 /\ f \in Int /\ s \in Int /\ lo \in Int /\ hi \in Int /\ from[f] \in Int
    BY <1>3, <1>7
  <2>2. CASE f < lo \/ hi < f
    BY <1>3, <2>1, <2>2
  <2>3. CASE lo <= f /\ f <= hi
    <3>1. lo <= from[f]
      BY <1>3, <2>1, <2>3
    <3> QED BY <2>1, <2>3, <3>1
  <2> QED BY <2>1, <2>2, <2>3
<1>14. \A s \in 0..cap-1 : s < lo \/ hi < s => \A x \in F : h[x] < s => x < s
  <2> SUFFICES ASSUME NEW s \in 0..cap-1, s < lo \/ hi < s, NEW x \in F, h[x] < s
               PROVE  x < s
    OBVIOUS
  <2> DEFINE f == h[x]
  <2>1. f \in filled /\ from[f] = x /\ f < s
    BY <1>4
  <2> HIDE DEF f
  <2>2. f \in 0..cap-1 /\ f \in Int /\ s \in Int /\ lo \in Int /\ hi \in Int /\ x \in Int /\ from[f] = x /\ f < s
    BY <1>1, <1>3, <1>7, <2>1
  <2>3. CASE f < lo \/ hi < f
    BY <1>3, <2>2, <2>3
  <2>4. CASE lo <= f /\ f <= hi
    <3>1. x <= hi
      BY <1>3, <2>2, <2>4
    <3> QED BY <2>2, <2>4, <3>1
  <2> QED BY <2>2, <2>3, <2>4
<1>11. ASSUME NEW s \in 0..cap-1, slot < s \/ (\E f \in filled : s <= f /\ f < slot),
              NEW f \in filled, s <= f, \A g \in filled : g < s \/ f <= g
       PROVE  key[s] = key[f]
  <2>1. CASE s \in filled
    <3>1. ~ (s < s)
      BY <1>11
    <3>2. s = f
      BY <1>7, <1>11, <2>1, <3>1
    <3> QED BY <3>2
  <2>2. CASE s \notin filled
    <3>1. key[s] = nd.key[s] /\ s \in Int /\ (s < lo \/ hi < s)
      BY <1>10, <1>11, <2>2
    <3>2. from[f] \in F /\ s <= from[f] /\ key[f] = nd.key[from[f]]
      BY <1>3, <1>5, <1>7, <1>11, <1>13, <3>1
    <3>3. ASSUME NEW x \in F PROVE x < s \/ from[f] <= x
      <4> DEFINE y == h[x]
      <4>5. y \in filled /\ from[y] = x /\ (y < s => x < s)
        BY <1>4, <1>14, <3>1, <3>3
      <4> HIDE DEF y
      <4>6. \A g \in filled : g \in Int
        BY ONLY <1>7
      <4>7. x \in Int
        BY ONLY <1>1, x \in F
      <4>1. y \in filled /\ from[y] = x /\ x \in Int /\ y \in Int /\ f \in Int
        BY ONLY <4>5, <4>6, <4>7, f \in filled
      <4>2. CASE y < s
        BY <4>2, <4>5
      <4>3. CASE f <= y
        <5>1. f = y \/ f < y
          BY <4>1, <4>3
        <5>2. CASE f = y
          BY <4>1, <5>2
        <5>3. CASE f < y
          <6>1. from[f] < x
            BY <1>3, <4>1, <5>3
          <6> QED BY <1>7, <4>1, <6>1
        <5> QED BY <5>1, <5>2, <5>3
      <4> QED BY <1>11, <4>1, <4>2, <4>3
    <3>4. nd.key[s] = nd.key[from[f]]
      BY <1>1, <3>2, <3>3 DEF Gapped
    <3> QED BY <3>1, <3>2, <3>4
  <2> QED BY <2>1, <2>2
<1>12. ASSUME NEW s \in 0..cap-1, slot < s \/ (\E f \in filled : s <= f /\ f < slot),
              \A g \in filled : g < s
       PROVE  key[s] = Sentinel
  <2>1. s \notin filled
    BY <1>7, <1>12
  <2>2. key[s] = nd.key[s] /\ s \in Int /\ (s < lo \/ hi < s)
    BY <1>10, <1>12, <2>1
  <2>3. \A x \in F : x < s
    BY <1>4, <1>12, <1>14, <2>2
  <2> QED BY <1>1, <2>2, <2>3 DEF Gapped
<1>15. OpenAt(cap, key, filled, slot, k)
  BY <1>3, <1>7, <1>8, <1>9, <1>11, <1>12 DEF OpenAt
<1> QED BY <1>6, <1>15 DEF cap

(* The shift of insert_using_shifts(), from the position to the gap.       *)
ShiftFrom(cap, pos, gap) ==
  [s \in 0..cap-1 |-> IF gap >= pos /\ s \in pos+1..gap THEN s - 1
                      ELSE IF gap < pos /\ s \in gap..pos-2 THEN s + 1 ELSE s]
ShiftSlot(pos, gap) == IF gap >= pos THEN pos ELSE pos - 1

LEMMA ShiftExists ==
  ASSUME NEW cap \in Nat \ {0}, NEW F, F \subseteq 0..cap-1,
         NEW pos \in 0..cap, pos = cap \/ pos \in F,
         NEW gap, IsClosestGap(gap, F, cap, IF pos = cap THEN cap - 1 ELSE pos),
         NEW filled, filled = (F \cup {gap}) \ {ShiftSlot(pos, gap)}
  PROVE  \E h, lo, hi :
           ShiftsTo(cap, F, pos, ShiftSlot(pos, gap), lo, hi, filled, ShiftFrom(cap, pos, gap), h)
<1>1. /\ gap \in 0..cap-1 /\ gap \notin F /\ gap \in Int /\ gap # pos
      /\ \A g \in 0..cap-1 : g \in F \/ Abs(gap - (IF pos = cap THEN cap - 1 ELSE pos))
                                          <= Abs(g - (IF pos = cap THEN cap - 1 ELSE pos))
  BY DEF IsClosestGap
<1>2. CASE gap > pos
  <2> DEFINE from == ShiftFrom(cap, pos, gap)
             h == [x \in F |-> IF pos <= x /\ x < gap THEN x + 1 ELSE x]
  <2>1. pos \in 0..cap-1 /\ pos \in F /\ pos \in Int
    BY <1>1, <1>2
  <2>2. \A s \in 0..cap-1 : pos <= s /\ s < gap => s \in F
    <3> SUFFICES ASSUME NEW s \in 0..cap-1, pos <= s, s < gap, s \notin F PROVE FALSE
      OBVIOUS
    <3>1. pos # cap
      BY <2>1
    <3>2. Abs(gap - pos) <= Abs(s - pos)
      BY <1>1, <3>1
    <3> QED BY <1>1, <1>2, <2>1, <3>2 DEF Abs
  <2>3. ShiftSlot(pos, gap) = pos
    BY <1>1, <1>2, <2>1 DEF ShiftSlot
  <2>4. \A s : s \in filled <=> (s \in F \/ s = gap) /\ s # pos
    BY <2>3
  <2>5. /\ from \in [0..cap-1 -> 0..cap-1]
        /\ \A s \in 0..cap-1 : from[s] = IF pos < s /\ s <= gap THEN s - 1 ELSE s
    BY <1>1, <1>2, <2>1 DEF ShiftFrom
  <2>6. \A x \in F : x \in 0..cap-1 /\ x \in Int /\ x # gap
    BY <1>1
  <2>7. \A s \in filled : s \in 0..cap-1 /\ s \in Int /\ s # pos
    BY <1>1, <2>4, <2>6
  <2>8. \A x \in F : /\ h[x] = (IF pos <= x /\ x < gap THEN x + 1 ELSE x) /\ h[x] \in filled
                     /\ from[h[x]] = x /\ (x < pos => h[x] < pos)
    <3> TAKE x \in F
    <3>1. h[x] = (IF pos <= x /\ x < gap THEN x + 1 ELSE x)
      OBVIOUS
    <3>2. CASE pos <= x /\ x < gap
      <4>1. x + 1 \in 0..cap-1 /\ x + 1 # pos /\ pos < x + 1 /\ x + 1 <= gap /\ x + 1 - 1 = x
        BY <1>1, <2>1, <2>6, <3>2
      <4>2. x + 1 = gap \/ x + 1 \in F
        BY <1>1, <2>2, <4>1
      <4>3. from[x + 1] = x
        BY <2>5, <4>1
      <4>4. ~ (x < pos)
        BY <2>1, <2>6, <3>2
      <4> QED BY <2>4, <3>1, <3>2, <4>1, <4>2, <4>3, <4>4
    <3>3. CASE ~ (pos <= x /\ x < gap)
      <4>1. x # pos /\ ~ (pos < x /\ x <= gap)
        BY <1>1, <1>2, <2>1, <2>6, <3>3
      <4> QED BY <2>4, <2>5, <2>6, <3>1, <3>3, <4>1
    <3> QED BY <3>2, <3>3
  <2>9. \A f \in filled : from[f] \in F /\ h[from[f]] = f
    <3> TAKE f \in filled
    <3>1. CASE pos < f /\ f <= gap
      <4>1. from[f] = f - 1 /\ f - 1 \in 0..cap-1 /\ pos <= f - 1 /\ f - 1 < gap /\ f - 1 + 1 = f
        BY <2>1, <2>5, <2>7, <3>1, <1>1
      <4>2. f - 1 \in F
        BY <2>2, <4>1
      <4> QED BY <2>8, <4>1, <4>2
    <3>2. CASE ~ (pos < f /\ f <= gap)
      <4>1. from[f] = f
        BY <2>5, <2>7, <3>2
      <4>2. f # gap
        BY <1>1, <1>2, <3>2
      <4>3. f \in F
        BY <2>4, <4>2
      <4>4. ~ (pos <= f /\ f < gap)
        BY <1>1, <2>1, <2>7, <3>2
      <4> QED BY <2>8, <4>1, <4>3, <4>4
    <3> QED BY <3>1, <3>2
  <2> HIDE DEF from, h
  <2>18. pos \in Int /\ gap \in Int
    BY <1>1, <2>1
  <2>19. /\ \A x \in F : x \in Int /\ h[x] = (IF pos <= x /\ x < gap THEN x + 1 ELSE x)
         /\ \A s \in 0..cap-1 : s \in Int /\ from[s] = (IF pos < s /\ s <= gap THEN s - 1 ELSE s)
         /\ \A s \in filled : s \in 0..cap-1 /\ s # pos
    BY <2>5, <2>6, <2>7, <2>8
  <2>10. \A x, y \in F : x < y => h[x] < h[y]
    <3> TAKE x, y \in F
    <3>1. /\ x \in Int /\ y \in Int /\ x # gap /\ y # gap
          /\ h[x] = (IF pos <= x /\ x < gap THEN x + 1 ELSE x)
          /\ h[y] = (IF pos <= y /\ y < gap THEN y + 1 ELSE y)
      BY <2>6, <2>19
    <3> QED BY ONLY <2>18, <3>1
  <2>11. \A f, g \in filled : f < g => from[f] < from[g]
    <3> TAKE f, g \in filled
    <3>1. /\ f \in Int /\ g \in Int /\ f # pos /\ g # pos
          /\ from[f] = (IF pos < f /\ f <= gap THEN f - 1 ELSE f)
          /\ from[g] = (IF pos < g /\ g <= gap THEN g - 1 ELSE g)
      BY <2>19
    <3> QED BY ONLY <2>18, <3>1
  <2>12. \A f \in filled : (f < pos => from[f] < pos) /\ (pos < f => pos <= from[f])
    <3> TAKE f \in filled
    <3>1. /\ f \in Int /\ f # pos
          /\ from[f] = (IF pos < f /\ f <= gap THEN f - 1 ELSE f)
      BY <2>19
    <3> QED BY ONLY <2>18, <3>1
  <2>13. \A s \in 0..cap-1 : s < pos \/ gap < s => from[s] = s /\ (s \in F <=> s \in filled)
    <3> TAKE s \in 0..cap-1
    <3>1. s \in Int /\ from[s] = (IF pos < s /\ s <= gap THEN s - 1 ELSE s) /\ pos <= gap /\ gap <= gap /\ pos <= pos /\ pos <= gap
      BY <1>1, <1>2, <2>1, <2>18, <2>19
    <3>2. s < pos \/ gap < s => from[s] = s /\ s # gap /\ s # pos
      BY ONLY <2>18, <3>1
    <3> QED BY <2>4, <3>2
  <2>14. \A s \in 0..cap-1 : pos <= s /\ s <= gap => pos <= from[s] /\ from[s] <= gap
    BY ONLY <2>18, <2>19
  <2>15. \A s \in 0..cap-1 : pos <= s /\ s <= gap /\ s # pos => s \in filled
    BY <1>1, <2>1, <2>2, <2>4
  <2>16. h \in [F -> filled]
    BY <2>8 DEF h
  <2>17. ShiftsTo(cap, F, pos, pos, pos, gap, filled, from, h)
    <3>1. filled \subseteq 0..cap-1 /\ pos \notin filled
      BY <2>7
    <3>2. \A y \in filled : \E x \in F : h[x] = y
      BY <2>9
    <3>3. pos <= pos /\ pos <= gap
      BY <1>1, <1>2, <2>1
    <3> QED BY <1>1, <2>1, <2>5, <2>8, <2>9, <2>10, <2>11, <2>12, <2>13, <2>14, <2>15, <2>16,
              <3>1, <3>2, <3>3 DEF ShiftsTo
  <2> QED BY <2>3, <2>17 DEF from
<1>3. CASE gap < pos
  <2> DEFINE from == ShiftFrom(cap, pos, gap)
             slot == pos - 1
             h == [x \in F |-> IF gap < x /\ x < pos THEN x - 1 ELSE x]
  <2>1. slot \in 0..cap-1 /\ slot \in Int /\ gap <= slot /\ pos \in Int /\ pos = slot + 1
    BY <1>1, <1>3
  <2>2. \A s \in 0..cap-1 : gap < s /\ s <= slot => s \in F
    <3> SUFFICES ASSUME NEW s \in 0..cap-1, gap < s, s <= slot, s \notin F PROVE FALSE
      OBVIOUS
    <3>1. CASE pos = cap
      <4>1. Abs(gap - (cap - 1)) <= Abs(s - (cap - 1))
        BY <1>1, <3>1
      <4> QED BY <1>1, <2>1, <4>1 DEF Abs
    <3>2. CASE pos # cap
      <4>1. Abs(gap - pos) <= Abs(s - pos)
        BY <1>1, <3>2
      <4> QED BY <1>1, <2>1, <4>1 DEF Abs
    <3> QED BY <3>1, <3>2
  <2>3. ShiftSlot(pos, gap) = slot
    BY <1>1, <1>3, <2>1 DEF ShiftSlot
  <2>4. \A s : s \in filled <=> (s \in F \/ s = gap) /\ s # slot
    BY <2>3
  <2>5. /\ from \in [0..cap-1 -> 0..cap-1]
        /\ \A s \in 0..cap-1 : from[s] = IF gap <= s /\ s < slot THEN s + 1 ELSE s
    BY <1>1, <1>3, <2>1 DEF ShiftFrom
  <2> HIDE DEF slot
  <2>6. \A x \in F : x \in 0..cap-1 /\ x \in Int /\ x # gap
    BY <1>1
  <2>7. \A s \in filled : s \in 0..cap-1 /\ s \in Int /\ s # slot
    BY <1>1, <2>4, <2>6
  <2>8. \A x \in F : /\ h[x] = (IF gap < x /\ x <= slot THEN x - 1 ELSE x) /\ h[x] \in filled
                     /\ from[h[x]] = x /\ (x < pos => h[x] < slot)
    <3> TAKE x \in F
    <3>1. h[x] = (IF gap < x /\ x <= slot THEN x - 1 ELSE x)
      BY <1>1, <2>1, <2>6
    <3>2. CASE gap < x /\ x <= slot
      <4>1. x - 1 \in 0..cap-1 /\ x - 1 # slot /\ gap <= x - 1 /\ x - 1 < slot /\ x - 1 + 1 = x
        BY <1>1, <2>1, <2>6, <3>2
      <4>2. x - 1 = gap \/ x - 1 \in F
        BY <1>1, <2>1, <2>2, <4>1
      <4>3. from[x - 1] = x
        BY <2>5, <4>1
      <4> QED BY <2>4, <3>1, <3>2, <4>1, <4>2, <4>3
    <3>3. CASE ~ (gap < x /\ x <= slot)
      <4>1. x # slot /\ ~ (gap <= x /\ x < slot) /\ (x < pos => x < slot)
        BY <1>1, <2>1, <2>6, <3>3
      <4> QED BY <2>4, <2>5, <2>6, <3>1, <3>3, <4>1
    <3> QED BY <3>2, <3>3
  <2>9. \A f \in filled : from[f] \in F /\ h[from[f]] = f
    <3> TAKE f \in filled
    <3>1. CASE gap <= f /\ f < slot
      <4>1. from[f] = f + 1 /\ f + 1 \in 0..cap-1 /\ gap < f + 1 /\ f + 1 <= slot /\ f + 1 - 1 = f
        BY <2>1, <2>5, <2>7, <3>1, <1>1
      <4>2. f + 1 \in F
        BY <2>2, <4>1
      <4> QED BY <2>8, <4>1, <4>2
    <3>2. CASE ~ (gap <= f /\ f < slot)
      <4>1. from[f] = f
        BY <2>5, <2>7, <3>2
      <4>2. f # gap
        BY <1>1, <2>1, <2>7, <3>2
      <4>3. f \in F
        BY <2>4, <4>2
      <4>4. ~ (gap < f /\ f <= slot)
        BY <1>1, <2>1, <2>7, <3>2
      <4> QED BY <2>8, <4>1, <4>3, <4>4
    <3> QED BY <3>1, <3>2
  <2> HIDE DEF from, h
  <2>18. slot \in Int /\ gap \in Int /\ pos \in Int /\ pos = slot + 1
    BY <1>1, <2>1
  <2>19. /\ \A x \in F : x \in Int /\ h[x] = (IF gap < x /\ x <= slot THEN x - 1 ELSE x)
         /\ \A s \in 0..cap-1 : s \in Int /\ from[s] = (IF gap <= s /\ s < slot THEN s + 1 ELSE s)
         /\ \A s \in filled : s \in 0..cap-1 /\ s # slot
    BY <2>5, <2>6, <2>7, <2>8
  <2>10. \A x, y \in F : x < y => h[x] < h[y]
    <3> TAKE x, y \in F
    <3>1. /\ x \in Int /\ y \in Int /\ x # gap /\ y # gap
          /\ h[x] = (IF gap < x /\ x <= slot THEN x - 1 ELSE x)
          /\ h[y] = (IF gap < y /\ y <= slot THEN y - 1 ELSE y)
      BY <2>6, <2>19
    <3> QED BY ONLY <2>18, <3>1
  <2>11. \A f, g \in filled : f < g => from[f] < from[g]
    <3> TAKE f, g \in filled
    <3>1. /\ f \in Int /\ g \in Int /\ f # slot /\ g # slot
          /\ from[f] = (IF gap <= f /\ f < slot THEN f + 1 ELSE f)
          /\ from[g] = (IF gap <= g /\ g < slot THEN g + 1 ELSE g)
      BY <2>19
    <3> QED BY ONLY <2>18, <3>1
  <2>12. \A f \in filled : (f < slot => from[f] < pos) /\ (slot < f => pos <= from[f])
    <3> TAKE f \in filled
    <3>1. /\ f \in Int /\ f # slot
          /\ from[f] = (IF gap <= f /\ f < slot THEN f + 1 ELSE f)
      BY <2>19
    <3> QED BY ONLY <2>18, <3>1
  <2>13. \A s \in 0..cap-1 : s < gap \/ slot < s => from[s] = s /\ (s \in F <=> s \in filled)
    <3> TAKE s \in 0..cap-1
    <3>1. s \in Int /\ from[s] = (IF gap <= s /\ s < slot THEN s + 1 ELSE s) /\ gap <= gap /\ gap <= slot /\ gap <= slot /\ slot <= slot
      BY <1>1, <2>1, <2>18, <2>19
    <3>2. s < gap \/ slot < s => from[s] = s /\ s # gap /\ s # slot
      BY ONLY <2>18, <3>1
    <3> QED BY <2>4, <3>2
  <2>14. \A s \in 0..cap-1 : gap <= s /\ s <= slot => gap <= from[s] /\ from[s] <= slot
    BY ONLY <2>18, <2>19
  <2>15. \A s \in 0..cap-1 : gap <= s /\ s <= slot /\ s # slot => s \in filled
    BY <1>1, <2>1, <2>2, <2>4
  <2>16. h \in [F -> filled]
    BY <2>8 DEF h
  <2>17. ShiftsTo(cap, F, pos, slot, gap, slot, filled, from, h)
    <3>1. filled \subseteq 0..cap-1 /\ slot \notin filled
      BY <2>7
    <3>2. \A y \in filled : \E x \in F : h[x] = y
      BY <2>9
    <3>3. slot <= slot
      BY <2>1
    <3> QED BY <1>1, <2>1, <2>5, <2>8, <2>9, <2>10, <2>11, <2>12, <2>13, <2>14, <2>15, <2>16,
              <3>1, <3>2, <3>3 DEF ShiftsTo
  <2> QED BY <2>3, <2>17 DEF from
<1> QED BY <1>1, <1>2, <1>3

LEMMA MinOfPosition ==
  ASSUME NEW cap \in Nat \ {0}, NEW pos \in 0..cap
  PROVE  Min({pos, cap - 1}) = IF pos = cap THEN cap - 1 ELSE pos
<1>1. pos \in Int /\ cap - 1 \in Int /\ (pos <= cap - 1 <=> pos # cap)
  OBVIOUS
<1>2. Min({pos, cap - 1}) = IF pos <= cap - 1 THEN pos ELSE cap - 1
  BY <1>1, MinOfTwo
<1> QED BY <1>1, <1>2

(* The position is a gap and open as it is.                                *)
LEMMA GapOpens ==
  ASSUME NEW nd, NodeOK(nd), NEW k \in Keys, NEW pos, Between(nd, k, pos),
         pos < nd.cap, pos \notin Filled(nd)
  PROVE  /\ OpenAt(nd.cap, nd.key, Filled(nd), pos, k)
         /\ \E h : MovedTo(h, nd, nd.key, nd.pay, Filled(nd), k, pos)
<1> DEFINE F == Filled(nd)
           h == [x \in F |-> x]
<1>1. /\ nd.cap \in Nat \ {0} /\ F \subseteq 0..nd.cap-1 /\ Gapped(nd.cap, nd.key, F)
      /\ nd.key \in [0..nd.cap-1 -> Nat] /\ k \in Nat
  BY NodeFacts DEF NodeOK
<1>2. /\ pos \in 0..nd.cap-1
      /\ \A f \in F : (nd.key[f] <= k => f < pos) /\ (nd.key[f] > k => pos <= f)
  BY <1>1 DEF Between
<1>3. \A x \in F : h[x] = x
  OBVIOUS
<1>4. h \in [F -> F]
  OBVIOUS
<1> HIDE DEF h, F
<1>5. OpenAt(nd.cap, nd.key, F, pos, k)
  <2>1. \A f \in F : (f < pos => nd.key[f] <= k) /\ (pos < f => k <= nd.key[f])
    <3> TAKE f \in F
    <3>1. f \in Int /\ pos \in Int /\ nd.key[f] \in Nat
      BY <1>1, <1>2
    <3> QED BY <1>1, <1>2, <3>1
  <2>2. pos \notin F
    BY DEF F
  <2> QED BY <1>1, <1>2, <2>1, <2>2 DEF OpenAt, Gapped
<1>6. MovedTo(h, nd, nd.key, nd.pay, F, k, pos)
  <2>1. \A x \in F : nd.key[x] = k => x < pos
    BY <1>1, <1>2
  <2> QED BY <1>3, <1>4, <2>1 DEF MovedTo, F
<1> QED BY <1>5, <1>6 DEF F

LEMMA MovedNode ==
  ASSUME NEW nd \in Node, NEW key, NEW pay
  PROVE  [nd EXCEPT !.key = key, !.pay = pay] = Moved(nd, key, pay)
<1> DEFINE one == [nd EXCEPT !.key = key]
<1>1. one = [cap |-> nd.cap, key |-> key, pay |-> nd.pay, num |-> nd.num,
             expandAt |-> nd.expandAt, contractAt |-> nd.contractAt]
  BY DEF Node
<1>2. [nd EXCEPT !.key = key, !.pay = pay] = [one EXCEPT !.pay = pay]
  OBVIOUS
<1> HIDE DEF one
<1> QED BY ONLY <1>1, <1>2 DEF Moved

LEMMA InsertedOK ==
  ASSUME NEW nd, NodeOK(nd), nd.num < nd.cap,
         NEW k \in Keys, NEW p \in Payloads, NEW pos, Between(nd, k, pos),
         NEW new, new = Inserted(nd, k, p, pos)
  PROVE  Receives(nd, k, p, new) /\ new.cap = nd.cap
<1> DEFINE cap == nd.cap
           F == Filled(nd)
<1>1. /\ cap \in Nat \ {0} /\ F \subseteq 0..cap-1 /\ SlotsOf(nd) = 0..cap-1
      /\ nd.key \in [0..cap-1 -> Keys \cup {Sentinel}] /\ F = DOMAIN nd.pay
      /\ nd.num = Cardinality(F) /\ nd.num \in Nat /\ W \in Nat \ {0}
  BY NodeFacts, SizesAssumption DEF Filled
<1>2. pos \in 0..cap
  BY DEF Between
<1>3. nd = [cap |-> cap, key |-> nd.key, pay |-> nd.pay, num |-> nd.num,
            expandAt |-> nd.expandAt, contractAt |-> nd.contractAt]
  BY DEF NodeOK, Node
<1>6. nd = Moved(nd, nd.key, nd.pay)
  BY <1>3 DEF Moved
<1>4. CASE pos < cap /\ pos \notin F
  <2>1. PlacedFrom(new, nd, nd.key, nd.pay, F, pos, k, p)
    <3>1. new = [InsertElementAt(nd, k, p, pos) EXCEPT !.num = nd.num + 1]
      BY <1>4 DEF Inserted
    <3> QED BY <1>1, <1>6, <3>1 DEF PlacedFrom
  <2>2. OpenAt(cap, nd.key, F, pos, k)
    BY <1>4, GapOpens
  <2>3. PICK h : MovedTo(h, nd, nd.key, nd.pay, F, k, pos)
    BY <1>4, GapOpens
  <2>5. NodeOK(nd) /\ k \in Keys /\ p \in Payloads
    OBVIOUS
  <2> HIDE DEF F
  <2>6. Receives(nd, k, p, new) /\ new.cap = cap
    BY ONLY <1>1, <2>1, <2>2, <2>3, <2>5, ElementPlaced
  <2> QED BY <2>6
<1>5. CASE pos = cap \/ pos \in F
  <2> DEFINE gap == ClosestGap(F, cap, W, pos)
             slot == ShiftSlot(pos, gap)
             from == ShiftFrom(cap, pos, gap)
             filled == (F \cup {gap}) \ {slot}
             key == [s \in 0..cap-1 |-> nd.key[from[s]]]
             pay == [s \in F \cup {gap} |-> IF s = slot THEN p ELSE nd.pay[from[s]]]
             mid == Moved(nd, key, pay)
  <2>1. IsClosestGap(gap, F, cap, IF pos = cap THEN cap - 1 ELSE pos)
    <3>1. ~ (0..cap-1 \subseteq F)
      <4> SUFFICES ASSUME 0..cap-1 \subseteq F PROVE FALSE
        OBVIOUS
      <4>1. F = 0..cap-1
        BY <1>1
      <4> HIDE DEF F
      <4>2. Cardinality(0..cap-1) = cap
        <5> HIDE DEF cap
        <5>1. 0 \in Int /\ cap - 1 \in Int /\ ~ (0 > cap - 1) /\ cap - 1 - 0 + 1 = cap
          BY <1>1
        <5> QED BY <5>1, FS_Interval
      <4> QED BY <1>1, <4>1, <4>2
    <3>2. Min({pos, cap - 1}) = IF pos = cap THEN cap - 1 ELSE pos
      BY <1>1, <1>2, MinOfPosition
    <3>3. pos \in Nat
      BY <1>1, <1>2
    <3> HIDE DEF F, cap
    <3>4. IsClosestGap(gap, F, cap, Min({pos, cap - 1}))
      BY ONLY <1>1, <3>1, <3>3, ClosestGapExact
    <3> QED BY <3>2, <3>4
  <2> HIDE DEF gap
  <2>2. gap \in 0..cap-1 /\ gap \notin F
    BY <2>1 DEF IsClosestGap
  <2>3. PICK h, lo, hi : ShiftsTo(cap, F, pos, slot, lo, hi, filled, from, h)
    <3> HIDE DEF F, cap
    <3> QED BY ONLY <1>1, <1>2, <1>5, <2>1, ShiftExists
  <2>4. new = [InsertElementAt(mid, k, p, slot) EXCEPT !.num = nd.num + 1]
    <3> DEFINE fr(s) == IF gap >= pos /\ s \in pos + 1..gap THEN s - 1
                        ELSE IF gap < pos /\ s \in gap..pos - 2 THEN s + 1 ELSE s
               sl == IF gap >= pos THEN pos ELSE pos - 1
    <3>1. \A s \in 0..cap-1 : fr(s) = from[s]
      BY DEF ShiftFrom
    <3>2. sl = slot
      BY DEF ShiftSlot
    <3> HIDE DEF sl
    <3>3. [s \in SlotsOf(nd) |-> nd.key[fr(s)]] = key
      BY <1>1, <3>1
    <3>8. \A s \in F \cup {gap} : fr(s) = from[s]
      BY <1>1, <2>2, <3>1
    <3>4. [s \in Filled(nd) \cup {gap} |-> IF s = sl THEN p ELSE nd.pay[fr(s)]] = pay
      <4> HIDE DEF fr, from
      <4> QED BY <3>2, <3>8
    <3>5. [nd EXCEPT !.key = key, !.pay = pay] = mid
      <4> HIDE DEF key, pay
      <4>1. [nd EXCEPT !.key = key, !.pay = pay] =
              [cap |-> cap, key |-> key, pay |-> pay, num |-> nd.num,
               expandAt |-> nd.expandAt, contractAt |-> nd.contractAt]
        <5>1. nd \in Node
          BY DEF NodeOK
        <5> QED BY ONLY <5>1, MovedNode DEF cap, Moved
      <4> QED BY <4>1 DEF Moved
    <3>6. InsertUsingShifts(nd, k, p, pos) =
            InsertElementAt([nd EXCEPT !.key = [s \in SlotsOf(nd) |-> nd.key[fr(s)]],
                                       !.pay = [s \in Filled(nd) \cup {gap} |->
                                                  IF s = sl THEN p ELSE nd.pay[fr(s)]]],
                            k, p, sl)
      BY DEF InsertUsingShifts, gap, sl
    <3>7. InsertUsingShifts(nd, k, p, pos) = InsertElementAt(mid, k, p, slot)
      BY <3>2, <3>3, <3>4, <3>5, <3>6
    <3>9. ~ (pos < nd.cap /\ pos \notin Filled(nd))
      BY <1>1, <1>2, <1>5
    <3> QED BY <3>7, <3>9 DEF Inserted
  <2>5. TakesFrom(nd, key, pay, filled, from)
    BY DEF TakesFrom
  <2>6. key \in [0..cap-1 -> Keys \cup {Sentinel}]
    <3>1. \A s \in 0..cap-1 : from[s] \in 0..cap-1
      BY <2>3 DEF ShiftsTo
    <3> QED BY <1>1, <3>1
  <2>7. slot \in F \cup {gap}
    <3>1. CASE gap >= pos
      BY <1>1, <1>2, <1>5, <2>2, <3>1 DEF ShiftSlot
    <3>2. CASE ~ (gap >= pos)
      <4>1. slot = pos - 1
        BY <3>2 DEF ShiftSlot
      <4>2. lo <= slot /\ slot <= hi
        BY <2>3 DEF ShiftsTo
      <4>3. CASE slot = gap
        BY <4>3
      <4>4. CASE slot # gap /\ slot \notin F
        <5>1. slot \in 0..cap-1 /\ gap < slot /\ slot < pos
          BY <1>1, <1>2, <2>2, <3>2, <4>1, <4>4
        <5>2. Abs(gap - (IF pos = cap THEN cap - 1 ELSE pos)) <= Abs(slot - (IF pos = cap THEN cap - 1 ELSE pos))
          BY <2>1, <4>4, <5>1 DEF IsClosestGap
        <5> QED BY <1>1, <1>2, <2>2, <5>1, <5>2 DEF Abs
      <4> QED BY <4>3, <4>4
    <3> QED BY <3>1, <3>2
  <2>8. DOMAIN pay \cup {slot} = filled \cup {slot}
    BY <2>7
  <2>13. PlacedFrom(new, nd, key, pay, filled, slot, k, p)
    BY <2>4, <2>8 DEF PlacedFrom
  <2> HIDE DEF key, pay, from, slot, filled
  <2>9. OpenAt(cap, key, filled, slot, k) /\ MovedTo(h, nd, key, pay, filled, k, slot)
    <3>2. NodeOK(nd) /\ k \in Keys /\ Between(nd, k, pos)
      OBVIOUS
    <3> QED BY ONLY <2>3, <2>5, <3>2, ShiftOpens
  <2>11. NodeOK(nd) /\ k \in Keys /\ p \in Payloads
    OBVIOUS
  <2>12. Receives(nd, k, p, new) /\ new.cap = cap
    BY ONLY <2>6, <2>9, <2>11, <2>13, ElementPlaced
  <2> QED BY ONLY <2>12
<1> QED BY ONLY <1>1, <1>2, <1>4, <1>5

-----------------------------------------------------------------------------
(* The inductive invariant: the node is in good order.                     *)
Results == {"insert", "erase_one", "erase_at", "erase", "layout"} \X (0..MaxKeys + 3)

Inv == /\ NodeOK(node) /\ node.num <= MaxKeys + 2
       /\ inserts \in 0..CheckPeriod - 1
       /\ ret \in Results

LEMMA InitInv == Init => Inv
<1> SUFFICES ASSUME Init PROVE Inv
  OBVIOUS
<1>1. PICK entries \in SortedEntries(2) : node \in Loads(entries, 7)
  BY DEF Init
<1>2. /\ inserts \in 0..CheckPeriod - 1 /\ ret \in Results /\ MaxKeys \in Nat
  BY SizesAssumption DEF Init, Results
<1>3. PICK n \in 0..2 : /\ entries \in [1..n -> Keys \X Payloads]
                        /\ \A i \in 1..Len(entries) - 1 : entries[i][1] <= entries[i + 1][1]
  BY DEF SortedEntries
<1>4. n \in Nat /\ Len(entries) = n
  BY <1>3
<1>5. Ascending(entries, n)
  <2> SUFFICES ASSUME NEW i \in 1..n, NEW j \in 1..n, i < j
               PROVE  entries[i][1] <= entries[j][1]
    BY DEF Ascending
  <2>1. i \in 1..Len(entries) - 1 /\ j = i + 1
    BY <1>3, <1>4
  <2> QED BY <1>3, <2>1
<1>6. NodeOK(node) /\ node.num <= 2
  <2>1. CASE entries = <<>>
    <3>1. node = EmptyNode
      BY <1>1, <2>1 DEF Loads
    <3> QED BY <3>1, EmptyNodeOK
  <2>2. CASE entries # <<>>
    <3> DEFINE cap == Capacity(n, 7)
    <3>1. node \in Layouts(entries, cap)
      BY <1>1, <1>4, <2>2 DEF Loads
    <3>7. 7 \in Nat \ {0}
      OBVIOUS
    <3>8. cap \in Nat /\ n < cap
      BY <1>4, <3>7, CapacityFits
    <3> HIDE DEF cap
    <3>2. cap \in Nat /\ n < cap /\ n <= cap
      BY <1>4, <3>8
    <3>3. PICK model \in [Keys -> 0..cap] : node = Layout(entries, cap, Places(entries, cap, model))
      BY <3>1 DEF Layouts
    <3> DEFINE at == Places(entries, cap, model)
    <3>4. node = Layout(entries, cap, at)
      BY <3>3
    <3> HIDE DEF at
    <3>5. at \in [1..n -> 0..cap-1] /\ Increasing(at, n)
      BY <1>3, <1>4, <3>2, PlacesFit DEF at
    <3>6. LaidOut(node, n, entries, cap, at)
      BY ONLY <1>3, <1>4, <1>5, <3>2, <3>4, <3>5, LayoutOK
    <3> QED BY <1>3, <3>6 DEF LaidOut
  <2> QED BY <2>1, <2>2
<1>7. node.num <= MaxKeys + 2
  BY <1>2, <1>6, NodeFacts
<1> QED BY <1>2, <1>6, <1>7 DEF Inv

LEMMA KeepsTwice ==
  ASSUME NEW nd, NodeOK(nd), NEW S, S \subseteq Filled(nd), NEW mid, Keeps(nd, S, mid),
         NEW new, Keeps(mid, Filled(mid), new)
  PROVE  Keeps(nd, S, new)
<1>1. NodeOK(mid) /\ mid.num = Cardinality(S) /\ mid.num <= nd.num /\ NodeOK(new)
      /\ new.num = Cardinality(Filled(mid))
  BY DEF Keeps
<1>2. mid.num = Cardinality(Filled(mid))
  BY <1>1, NodeFacts
<1>3. PICK h : Carries(h, nd, S, mid, Filled(mid))
  BY DEF Keeps
<1>4. PICK g : Carries(g, mid, Filled(mid), new, Filled(new))
  BY DEF Keeps
<1> DEFINE T == Filled(mid)
           U == Filled(new)
           f == [x \in S |-> g[h[x]]]
<1>5. /\ h \in [S -> T] /\ \A x, y \in S : x < y => h[x] < h[y]
      /\ \A y \in T : \E x \in S : h[x] = y
      /\ \A x \in S : mid.key[h[x]] = nd.key[x] /\ mid.pay[h[x]] = nd.pay[x]
  BY <1>3 DEF Carries
<1>6. /\ g \in [T -> U] /\ \A x, y \in T : x < y => g[x] < g[y]
      /\ \A y \in U : \E x \in T : g[x] = y
      /\ \A x \in T : new.key[g[x]] = mid.key[x] /\ new.pay[g[x]] = mid.pay[x]
  BY <1>4 DEF Carries
<1> HIDE DEF T, U
<1>7. \A x \in S : f[x] = g[h[x]] /\ h[x] \in T
  BY <1>5
<1>8. f \in [S -> U]
  BY <1>6, <1>7
<1> HIDE DEF f
<1>9. /\ \A x, y \in S : x < y => f[x] < f[y]
      /\ \A x \in S : new.key[f[x]] = nd.key[x] /\ new.pay[f[x]] = nd.pay[x]
  BY <1>5, <1>6, <1>7
<1>10. \A y \in U : \E x \in S : f[x] = y
  <2> TAKE y \in U
  <2>1. PICK z \in T : g[z] = y
    BY <1>6
  <2>2. PICK x \in S : h[x] = z
    BY <1>5
  <2> QED BY <1>7, <2>1, <2>2
<1>11. Carries(f, nd, S, new, U)
  BY <1>8, <1>9, <1>10 DEF Carries, U
<1> QED BY <1>1, <1>2, <1>11 DEF Keeps, U

-----------------------------------------------------------------------------
(* What each operation does to a node in good order.                       *)
LEMMA InsertStep ==
  ASSUME Inv, NEW k \in Keys, NEW p \in Payloads, Insert(k, p)
  PROVE  \E nd : /\ Keeps(node, Filled(node), nd) /\ nd.num = node.num
                 /\ Receives(nd, k, p, node')
<1>1. NodeOK(node)
  BY DEF Inv
<1>2. PICK nd \in IF Full THEN Resized(node, 6) ELSE {node} :
        \E pos \in {InsertPosition(nd, m, k) : m \in SlotsOf(nd)} :
          node' = Inserted(nd, k, p, pos)
  BY DEF Insert
<1>3. Keeps(node, Filled(node), nd) /\ nd.num = node.num /\ nd.num < nd.cap
  <2>1. CASE Full
    <3>1. nd \in Resized(node, 6) /\ 6 \in Nat \ {0}
      BY <1>2, <2>1
    <3> QED BY ONLY <1>1, <3>1, ResizedOK
  <2>2. CASE ~ Full
    <3>1. nd = node
      BY <1>2, <2>2
    <3>2. /\ node.num \in Nat /\ node.cap \in Nat \ {0}
          /\ node.expandAt \in 10..10 * node.cap
      BY <1>1, NodeFacts DEF NodeOK
    <3>3. ~ (10 * node.num >= node.expandAt)
      BY <2>2 DEF Full
    <3>4. node.num < node.cap
      BY <3>2, <3>3
    <3> QED BY <1>1, <3>1, <3>4, KeepsItself
  <2> QED BY <2>1, <2>2
<1>4. NodeOK(nd)
  BY <1>3 DEF Keeps
<1>5. PICK m \in SlotsOf(nd) : node' = Inserted(nd, k, p, InsertPosition(nd, m, k))
  BY <1>2
<1>6. Between(nd, k, InsertPosition(nd, m, k))
  BY <1>4, InsertPositionExact
<1>7. Receives(nd, k, p, node')
  BY <1>3, <1>4, <1>5, <1>6, InsertedOK
<1> QED BY <1>3, <1>7

LEMMA EraseOneAtStep ==
  ASSUME NEW nd, NodeOK(nd), NEW pos \in Filled(nd), NEW new \in Contractions(EraseOneAt(nd, pos))
  PROVE  Keeps(nd, Filled(nd) \ {pos}, new)
<1> DEFINE mid == EraseOneAt(nd, pos)
<1>1. Keeps(nd, Filled(nd) \ {pos}, mid)
  BY EraseOneAtOK
<1>2. NodeOK(mid)
  BY <1>1 DEF Keeps
<1>3. new \in Contractions(mid)
  OBVIOUS
<1> HIDE DEF mid
<1>4. Keeps(mid, Filled(mid), new)
  BY <1>2, <1>3, ContractionsOK
<1>5. Filled(nd) \ {pos} \subseteq Filled(nd)
  OBVIOUS
<1> QED BY <1>1, <1>4, <1>5, KeepsTwice

(* The first entry from a key on.                                          *)
LEMMA FindLowerExact ==
  ASSUME NEW nd, NodeOK(nd), SafeEnd(nd), NEW m \in SlotsOf(nd), NEW k \in Keys,
         NEW pos, pos = FindLower(nd, m, k)
  PROVE  /\ pos = Min((Filled(nd) \ {s \in Filled(nd) : nd.key[s] < k}) \cup {nd.cap})
         /\ pos = nd.cap \/ (pos \in Filled(nd) /\ nd.key[pos] >= k)
         /\ \A s \in Filled(nd) : nd.key[s] >= k => pos <= s
<1> DEFINE u == LowerBound(nd, m, k)
           F == Filled(nd)
<1>1. /\ u \in 0..nd.cap
      /\ {s \in F : nd.key[s] < k} = {s \in F : s < u}
      /\ u = nd.cap => nd.cap - 1 \in Filled(nd)
  BY LowerSplits
<1>2. /\ F \subseteq 0..nd.cap-1 /\ nd.key \in [0..nd.cap-1 -> Nat] /\ k \in Nat
      /\ nd.cap \in Nat \ {0}
  BY NodeFacts
<1>3. pos = NextFilled(nd, u)
  BY DEF FindLower
<1> HIDE DEF u, F
<1>4. LET n == NextFilled(nd, u)
      IN /\ n = Min({s \in Filled(nd) : s >= u} \cup {nd.cap})
         /\ n \in u..nd.cap
         /\ n = nd.cap \/ n \in Filled(nd)
         /\ \A s \in Filled(nd) : s < u \/ n <= s
  BY <1>1, NextFilledExact
<1>5. /\ pos = Min({s \in F : s >= u} \cup {nd.cap})
      /\ pos \in u..nd.cap
      /\ pos = nd.cap \/ pos \in F
      /\ \A s \in F : s < u \/ pos <= s
  BY <1>3, <1>4 DEF F
<1>6. \A s \in F : s \in Int /\ nd.key[s] \in Nat /\ u \in Int /\ (nd.key[s] < k <=> s < u)
  BY <1>1, <1>2
<1>7. {s \in F : s >= u} = F \ {s \in F : nd.key[s] < k}
  BY <1>6
<1>8. pos \in F => nd.key[pos] >= k
  BY <1>1, <1>2, <1>5, <1>6
<1>9. \A s \in F : nd.key[s] >= k => pos <= s
  BY <1>2, <1>5, <1>6
<1> QED BY <1>5, <1>7, <1>8, <1>9 DEF F

LEMMA EraseOneStep ==
  ASSUME Inv, EndIsSafe, NEW k \in Keys, EraseOne(k)
  PROVE  \/ ret' = <<"erase_one", 0>> /\ node' = node
            /\ \A s \in Filled(node) : node.key[s] # k
         \/ ret' = <<"erase_one", 1>>
            /\ \E pos \in Filled(node) :
                 /\ node.key[pos] = k /\ Keeps(node, Filled(node) \ {pos}, node')
                 /\ \A s \in Filled(node) : node.key[s] = k => pos <= s
<1>1. NodeOK(node) /\ SafeEnd(node)
  BY DEF Inv, EndIsSafe
<1>11. PICK pos \in {FindLower(node, m, k) : m \in SlotsOf(node)} :
        \E found \in IF pos > node.cap THEN BOOLEAN ELSE {pos < node.cap /\ node.key[pos] = k} :
        IF found
        THEN /\ ret' = <<"erase_one", 1>>
             /\ node' \in Contractions(IF pos < node.cap THEN EraseOneAt(node, pos)
                                        ELSE [node EXCEPT !.num = @ - 1])
        ELSE ret' = <<"erase_one", 0>> /\ UNCHANGED node
  BY DEF EraseOne
<1>12. PICK m \in SlotsOf(node) : pos = FindLower(node, m, k)
  OBVIOUS
<1>2. PICK found \in IF pos > node.cap THEN BOOLEAN
                    ELSE {pos < node.cap /\ node.key[pos] = k} :
        IF found
        THEN /\ ret' = <<"erase_one", 1>>
             /\ node' \in Contractions(IF pos < node.cap THEN EraseOneAt(node, pos)
                                        ELSE [node EXCEPT !.num = @ - 1])
        ELSE ret' = <<"erase_one", 0>> /\ UNCHANGED node
  BY <1>11
<1>3. /\ pos = node.cap \/ (pos \in Filled(node) /\ node.key[pos] >= k)
      /\ \A s \in Filled(node) : node.key[s] >= k => pos <= s
  BY <1>1, <1>12, FindLowerExact
<1>10. pos \in Nat /\ pos <= node.cap /\ (pos < node.cap <=> pos # node.cap)
  <2>1. Filled(node) \subseteq 0..node.cap-1 /\ node.cap \in Nat \ {0}
    BY <1>1, NodeFacts
  <2> QED BY <1>3, <2>1
<1>4. IF pos = node.cap \/ node.key[pos] # k
      THEN ret' = <<"erase_one", 0>> /\ UNCHANGED node
      ELSE ret' = <<"erase_one", 1>> /\ node' \in Contractions(EraseOneAt(node, pos))
  <2>1. ~ (pos > node.cap)
    BY <1>10, <1>1, NodeFacts
  <2>2. found = (pos < node.cap /\ node.key[pos] = k)
    BY <2>1
  <2>3. CASE pos = node.cap \/ node.key[pos] # k
    <3>1. ~ found
      BY <1>10, <2>2, <2>3
    <3> QED BY <1>2, <2>3, <3>1
  <2>4. CASE ~ (pos = node.cap \/ node.key[pos] # k)
    <3>1. found /\ pos < node.cap
      BY <1>10, <2>2, <2>4
    <3> QED BY <1>2, <2>4, <3>1
  <2> QED BY <2>3, <2>4
<1>5. /\ Filled(node) \subseteq 0..node.cap-1 /\ node.key \in [0..node.cap-1 -> Nat] /\ k \in Nat
      /\ node.cap \in Nat \ {0}
      /\ \A f, g \in Filled(node) : f < g => node.key[f] <= node.key[g]
  BY <1>1, NodeFacts DEF NodeOK, Gapped
<1>6. \A s \in Filled(node) : /\ s \in Int /\ s < node.cap /\ node.key[s] \in Nat
                              /\ node.key[s] = k => node.key[s] >= k
  BY <1>5
<1>7. CASE pos = node.cap
  <2>1. \A s \in Filled(node) : ~ (node.cap <= s)
    BY <1>5, <1>6
  <2>2. \A s \in Filled(node) : node.key[s] # k
    BY <1>3, <1>6, <1>7, <2>1
  <2> QED BY <1>4, <1>7, <2>2
<1>8. CASE pos # node.cap /\ node.key[pos] # k
  <2>1. pos \in Filled(node) /\ node.key[pos] > k
    BY <1>3, <1>5, <1>6, <1>8
  <2>2. ASSUME NEW s \in Filled(node), node.key[s] = k PROVE FALSE
    <3>1. pos <= s
      BY <1>3, <1>6, <2>2
    <3>2. pos = s \/ pos < s
      BY <1>6, <2>1, <3>1
    <3>3. node.key[pos] <= node.key[s]
      BY <1>5, <1>6, <2>1, <3>2
    <3> QED BY <1>5, <1>6, <2>1, <2>2, <3>3
  <2> QED BY <1>4, <1>8, <2>2
<1>9. CASE pos # node.cap /\ node.key[pos] = k
  <2>1. pos \in Filled(node)
    BY <1>3, <1>9
  <2>2. \A s \in Filled(node) : node.key[s] = k => pos <= s
    BY <1>3, <1>6
  <2>3. ret' = <<"erase_one", 1>> /\ node' \in Contractions(EraseOneAt(node, pos))
    BY <1>4, <1>9
  <2>4. Keeps(node, Filled(node) \ {pos}, node')
    BY <1>1, <2>1, <2>3, EraseOneAtStep
  <2> QED BY <1>9, <2>1, <2>2, <2>3, <2>4
<1> QED BY <1>7, <1>8, <1>9

(* The entries from low on and in front of pos go.                         *)
LEMMA EraseUpToStep ==
  ASSUME Inv, NEW low \in Keys, NEW pos \in 0..node.cap, EraseUpTo(low, pos),
         \A s, t \in 0..node.cap-1 : node.key[s] = node.key[t] /\ s < pos => t < pos,
         NEW gone, gone = {s \in Filled(node) : s < pos /\ node.key[s] >= low}
  PROVE  /\ Keeps(node, Filled(node) \ gone, node')
         /\ Cardinality(gone) \in 0..node.num /\ ret' = <<"erase", Cardinality(gone)>>
         /\ inserts' = inserts
<1> DEFINE mid == EraseFrom(node, pos, low)
<1>1. NodeOK(node)
  BY DEF Inv
<1>2. /\ Keeps(node, Filled(node) \ gone, mid)
      /\ Cardinality(gone) \in 0..node.num
      /\ mid.num = node.num - Cardinality(gone)
  BY <1>1, EraseFromOK
<1>3. /\ ret' = <<"erase", node.num - mid.num>>
      /\ IF pos = 0 THEN UNCHANGED node ELSE node' \in Contractions(mid)
      /\ UNCHANGED inserts
  BY DEF EraseUpTo
<1>4. NodeOK(mid)
  BY <1>2 DEF Keeps
<1> HIDE DEF mid
<1>5. node.num \in Nat /\ node.cap \in Nat /\ Filled(node) \subseteq 0..node.cap-1
  BY <1>1, NodeFacts
<1>6. ret' = <<"erase", Cardinality(gone)>>
  <2>1. node.num - mid.num = Cardinality(gone)
    BY <1>2, <1>5
  <2> QED BY <1>3, <2>1
<1>7. Keeps(node, Filled(node) \ gone, node')
  <2>1. CASE pos = 0
    <3>1. gone = {}
      BY <1>5, <2>1
    <3>2. Filled(node) \ gone = Filled(node) /\ node' = node
      BY <1>3, <2>1, <3>1
    <3> QED BY <1>1, <3>2, KeepsItself
  <2>2. CASE pos # 0
    <3>1. node' \in Contractions(mid)
      BY <1>3, <2>2
    <3>2. Keeps(mid, Filled(mid), node')
      BY <1>4, <3>1, ContractionsOK
    <3>3. Filled(node) \ gone \subseteq Filled(node)
      OBVIOUS
    <3> QED BY ONLY <1>1, <1>2, <3>2, <3>3, KeepsTwice
  <2> QED BY <2>1, <2>2
<1> QED BY <1>2, <1>3, <1>6, <1>7

(* Positions that do not part the slots of one key.                        *)
LEMMA BoundsPart ==
  ASSUME NEW nd, NodeOK(nd), NEW m \in SlotsOf(nd), NEW k \in Keys,
         NEW pos, pos = UpperBound(nd, m, k) \/ pos = LowerBound(nd, m, k)
  PROVE  /\ pos \in 0..nd.cap
         /\ \A s, t \in 0..nd.cap-1 : nd.key[s] = nd.key[t] /\ s < pos => t < pos
<1>1. k \in Int /\ k \in Nat /\ nd.cap \in Nat \ {0} /\ nd.key \in [0..nd.cap-1 -> Nat]
  BY NodeFacts
<1>2. CASE pos = UpperBound(nd, m, k)
  <2>1. pos \in 0..nd.cap /\ \A s \in 0..nd.cap-1 : nd.key[s] > k <=> pos <= s
    BY <1>1, <1>2, UpperBoundExact
  <2>2. \A s \in 0..nd.cap-1 : s < pos <=> ~ (pos <= s)
    BY <2>1
  <2> QED BY <2>1, <2>2
<1>3. CASE pos = LowerBound(nd, m, k)
  <2>1. pos \in 0..nd.cap /\ \A s \in 0..nd.cap-1 : nd.key[s] >= k <=> pos <= s
    BY <1>1, <1>3, LowerBoundExact
  <2>2. \A s \in 0..nd.cap-1 : s < pos <=> ~ (pos <= s)
    BY <2>1
  <2> QED BY <2>1, <2>2
<1> QED BY <1>2, <1>3

LEMMA EraseStep ==
  ASSUME Inv, NEW k \in Keys, Erase(k), NEW gone, gone = {s \in Filled(node) : node.key[s] = k}
  PROVE  /\ Keeps(node, Filled(node) \ gone, node')
         /\ Cardinality(gone) \in 0..node.num /\ ret' = <<"erase", Cardinality(gone)>>
         /\ inserts' = inserts
<1>1. NodeOK(node)
  BY DEF Inv
<1>2. PICK m \in SlotsOf(node) :
        LET pos == UpperBound(node, m, k)
        IN IF pos = 0 \/ node.key[pos - 1] # k
           THEN ret' = <<"erase", 0>> /\ UNCHANGED <<node, inserts>>
           ELSE EraseUpTo(k, pos)
  BY DEF Erase
<1> DEFINE pos == UpperBound(node, m, k)
<1>3. IF pos = 0 \/ node.key[pos - 1] # k
      THEN ret' = <<"erase", 0>> /\ UNCHANGED <<node, inserts>>
      ELSE EraseUpTo(k, pos)
  BY <1>2
<1>4. /\ pos \in 0..node.cap
      /\ \A s, t \in 0..node.cap-1 : node.key[s] = node.key[t] /\ s < pos => t < pos
  BY <1>1, BoundsPart
<1>5. k \in Int /\ k \in Nat /\ node.cap \in Nat \ {0} /\ node.key \in [0..node.cap-1 -> Nat]
      /\ Filled(node) \subseteq 0..node.cap-1 /\ node.num \in Nat
      /\ IsFiniteSet(Filled(node))
  BY <1>1, NodeFacts
<1>6. /\ {s \in Filled(node) : node.key[s] <= k} = {s \in Filled(node) : s < pos}
      /\ pos > 0 => pos - 1 \in Filled(node) /\ node.key[pos-1] <= k
  BY <1>1, UpperSplits
<1>12. \A s \in 0..node.cap-1 : node.key[s] > k <=> pos <= s
  BY <1>1, <1>5, UpperBoundExact
<1> HIDE DEF pos
<1>7. \A s \in Filled(node) : s \in Int /\ node.key[s] \in Nat /\ (node.key[s] <= k <=> s < pos)
  BY <1>5, <1>6
<1>8. gone = {s \in Filled(node) : s < pos /\ node.key[s] >= k}
  BY <1>5, <1>7
<1>9. CASE pos = 0 \/ node.key[pos - 1] # k
  <2>1. gone = {}
    <3>1. CASE pos = 0
      BY <1>5, <1>8, <3>1
    <3>2. CASE pos # 0 /\ node.key[pos - 1] # k
      <4>1. pos - 1 \in Filled(node) /\ node.key[pos-1] < k /\ pos \in Int
        BY <1>4, <1>5, <1>6, <1>7, <3>2
      <4>2. ASSUME NEW s \in gone PROVE FALSE
        <5>1. s \in Filled(node) /\ s \in Int /\ node.key[s] = k /\ s <= pos - 1
          BY <1>7, <1>8, <4>1, <4>2
        <5>2. s = pos - 1 \/ s < pos - 1
          BY <4>1, <5>1
        <5>3. \A f, g \in Filled(node) : f < g => node.key[f] <= node.key[g]
          BY <1>1 DEF NodeOK, Gapped
        <5>4. k <= node.key[pos - 1]
          BY <1>5, <4>1, <5>1, <5>2, <5>3
        <5> QED BY <1>5, <1>7, <4>1, <5>4
      <4> QED BY <4>2
    <3> QED BY <1>9, <3>1, <3>2
  <2>2. Filled(node) \ gone = Filled(node) /\ node' = node /\ inserts' = inserts /\ ret' = <<"erase", 0>>
    BY <1>3, <1>9, <2>1
  <2>3. Cardinality(gone) = 0
    BY <2>1, FS_EmptySet
  <2>4. Keeps(node, Filled(node), node')
    BY <1>1, <2>2, KeepsItself
  <2>5. Cardinality(gone) \in 0..node.num
    BY <1>5, <2>3
  <2> QED BY ONLY <2>2, <2>3, <2>4, <2>5
<1>10. CASE ~ (pos = 0 \/ node.key[pos - 1] # k)
  <2>1. EraseUpTo(k, pos)
    BY <1>3, <1>10
  <2> QED BY <1>4, <1>8, <2>1, EraseUpToStep
<1> QED BY <1>9, <1>10

LEMMA EraseRangeStep ==
  ASSUME Inv, NEW start \in Keys, NEW end \in Keys, NEW inclusive \in BOOLEAN,
         EraseRange(start, end, inclusive),
         NEW gone, gone = {s \in Filled(node) :
                             /\ start <= node.key[s]
                             /\ IF inclusive THEN node.key[s] <= end ELSE node.key[s] < end}
  PROVE  /\ Keeps(node, Filled(node) \ gone, node')
         /\ Cardinality(gone) \in 0..node.num /\ ret' = <<"erase", Cardinality(gone)>>
         /\ inserts' = inserts
<1>1. NodeOK(node)
  BY DEF Inv
<1>2. PICK m \in SlotsOf(node) :
        EraseUpTo(start, IF inclusive THEN UpperBound(node, m, end) ELSE LowerBound(node, m, end))
  BY DEF EraseRange
<1> DEFINE pos == IF inclusive THEN UpperBound(node, m, end) ELSE LowerBound(node, m, end)
<1>3. /\ pos \in 0..node.cap
      /\ \A s, t \in 0..node.cap-1 : node.key[s] = node.key[t] /\ s < pos => t < pos
  <2>1. pos = UpperBound(node, m, end) \/ pos = LowerBound(node, m, end)
    OBVIOUS
  <2> HIDE DEF pos
  <2> QED BY <1>1, <2>1, BoundsPart
<1>4. \A s \in Filled(node) :
        s < pos <=> IF inclusive THEN node.key[s] <= end ELSE node.key[s] < end
  <2>1. CASE inclusive
    <3>1. pos = UpperBound(node, m, end)
      BY <2>1
    <3> HIDE DEF pos
    <3>2. {s \in Filled(node) : node.key[s] <= end} = {s \in Filled(node) : s < pos}
      BY <1>1, <3>1, UpperSplits
    <3> QED BY <2>1, <3>2
  <2>2. CASE ~ inclusive
    <3>1. pos = LowerBound(node, m, end)
      BY <2>2
    <3> HIDE DEF pos
    <3>2. {s \in Filled(node) : node.key[s] < end} = {s \in Filled(node) : s < pos}
      BY <1>1, <3>1, LowerSplits
    <3> QED BY <2>2, <3>2
  <2> QED BY <2>1, <2>2
<1>5. EraseUpTo(start, pos)
  BY <1>2
<1> HIDE DEF pos
<1>6. gone = {s \in Filled(node) : s < pos /\ node.key[s] >= start}
  <2>1. \A s \in Filled(node) : start <= node.key[s] <=> node.key[s] >= start
    BY <1>1, NodeFacts
  <2> QED BY <1>4, <2>1
<1> QED BY <1>3, <1>5, <1>6, EraseUpToStep

LEMMA KeptInv ==
  ASSUME Inv, NEW S, Keeps(node, S, node'), inserts' \in 0..CheckPeriod - 1, ret' \in Results
  PROVE  Inv'
<1>1. NodeOK(node) /\ node.num <= MaxKeys + 2 /\ NodeOK(node') /\ node'.num <= node.num
  BY DEF Inv, Keeps
<1>2. node.num \in Int /\ node'.num \in Int /\ MaxKeys \in Int
  <2>1. node.num \in Nat
    BY <1>1, NodeFacts
  <2>2. node'.num \in Nat
    BY <1>1 DEF NodeOK, Node
  <2> QED BY <2>1, <2>2, SizesAssumption
<1> QED BY <1>1, <1>2 DEF Inv

LEMMA NextInv ==
  ASSUME EndIsSafe, Inv, [Next]_vars
  PROVE  Inv'
<1>1. /\ NodeOK(node) /\ node.num <= MaxKeys + 2 /\ node.num \in Nat /\ node.cap \in Nat
      /\ inserts \in 0..CheckPeriod - 1 /\ ret \in Results
  BY NodeFacts DEF Inv
<1>2. MaxKeys \in Nat /\ CheckPeriod \in Nat \ {0}
  BY SizesAssumption
<1>3. \A c \in 0..MaxKeys + 3 : /\ <<"insert", c>> \in Results /\ <<"erase_one", c>> \in Results
                                /\ <<"erase_at", c>> \in Results /\ <<"erase", c>> \in Results
                                /\ <<"layout", c>> \in Results
  BY DEF Results
<1>4. /\ 0 \in 0..MaxKeys + 3 /\ 1 \in 0..MaxKeys + 3 /\ 2 \in 0..MaxKeys + 3
      /\ 3 \in 0..MaxKeys + 3
      /\ \A c \in 0..node.num : c \in 0..MaxKeys + 3
  BY <1>1, <1>2
<1>5. CASE InsertRefused
  <2>1. node' = node /\ inserts' = inserts
    BY <1>5 DEF InsertRefused
  <2>2. ret' \in Results
    BY <1>3, <1>4, <1>5 DEF InsertRefused
  <2>3. Keeps(node, Filled(node), node')
    BY <1>1, <2>1, KeepsItself
  <2> QED BY <1>1, <2>1, <2>2, <2>3, KeptInv
<1>6. ASSUME NEW k \in Keys, NEW p \in Payloads, Insert(k, p) PROVE Inv'
  <2>1. PICK nd : /\ Keeps(node, Filled(node), nd) /\ nd.num = node.num
                  /\ Receives(nd, k, p, node')
    BY <1>6, InsertStep
  <2>2. NodeOK(node') /\ node'.num = node.num + 1
    BY <2>1 DEF Receives
  <2>3. /\ node.num < MaxKeys /\ inserts' = (inserts + 1) % CheckPeriod /\ ret' = <<"insert", 0>>
    BY <1>6 DEF Insert
  <2>4. inserts' \in 0..CheckPeriod - 1
    <3>1. inserts + 1 \in Int /\ CheckPeriod \in Nat \ {0}
      BY <1>1, <1>2
    <3>2. (inserts + 1) % CheckPeriod \in 0..CheckPeriod - 1
      BY ONLY <3>1
    <3> QED BY <2>3, <3>2
  <2>5. node'.num <= MaxKeys + 2
    BY <1>1, <1>2, <2>2, <2>3
  <2>6. ret' \in Results
    BY <1>3, <1>4, <2>3
  <2> QED BY <2>2, <2>4, <2>5, <2>6 DEF Inv
<1>7. ASSUME NEW k \in Keys, EraseOne(k) PROVE Inv'
  <2>1. inserts' = inserts
    BY <1>7 DEF EraseOne
  <2>2. ret' \in Results /\ \E S : Keeps(node, S, node')
    <3>1. CASE ret' = <<"erase_one", 0>> /\ node' = node
      <4>1. Keeps(node, Filled(node), node')
        BY <1>1, <3>1, KeepsItself
      <4> QED BY <1>3, <1>4, <3>1, <4>1
    <3>2. CASE ret' = <<"erase_one", 1>>
               /\ \E pos \in Filled(node) : Keeps(node, Filled(node) \ {pos}, node')
      BY <1>3, <1>4, <3>2
    <3> QED BY <1>7, <3>1, <3>2, EraseOneStep
  <2> QED BY <1>1, <2>1, <2>2, KeptInv
<1>8. ASSUME NEW k \in Keys, Erase(k) PROVE Inv'
  <2> DEFINE gone == {s \in Filled(node) : node.key[s] = k}
  <2>1. /\ Keeps(node, Filled(node) \ gone, node')
        /\ Cardinality(gone) \in 0..node.num /\ ret' = <<"erase", Cardinality(gone)>>
        /\ inserts' = inserts
    BY <1>8, EraseStep
  <2>2. ret' \in Results
    BY <1>3, <1>4, <2>1
  <2> QED BY <1>1, <2>1, <2>2, KeptInv
<1>9. ASSUME NEW pos \in Filled(node), EraseAt(pos) PROVE Inv'
  <2>1. /\ node' \in Contractions(EraseOneAt(node, pos))
        /\ ret' = <<"erase_at", 1>> /\ inserts' = inserts
    BY <1>9 DEF EraseAt
  <2>2. Keeps(node, Filled(node) \ {pos}, node')
    BY <1>1, <2>1, EraseOneAtStep
  <2>3. ret' \in Results
    BY <1>3, <1>4, <2>1
  <2> QED BY <1>1, <2>1, <2>2, <2>3, KeptInv
<1>10. ASSUME NEW start \in Keys, NEW end \in Keys, NEW inclusive \in BOOLEAN,
              EraseRange(start, end, inclusive)
       PROVE  Inv'
  <2> DEFINE gone == {s \in Filled(node) :
                        /\ start <= node.key[s]
                        /\ IF inclusive THEN node.key[s] <= end ELSE node.key[s] < end}
  <2>1. /\ Keeps(node, Filled(node) \ gone, node')
        /\ Cardinality(gone) \in 0..node.num /\ ret' = <<"erase", Cardinality(gone)>>
        /\ inserts' = inserts
    BY <1>10, EraseRangeStep
  <2>2. ret' \in Results
    BY <1>3, <1>4, <2>1
  <2> QED BY <1>1, <2>1, <2>2, KeptInv
<1>11. CASE Retrain
  <2>1. node' \in Resized(node, 6) /\ ret' = <<"layout", 0>> /\ inserts' = inserts /\ 6 \in Nat \ {0}
    BY <1>11 DEF Retrain
  <2>2. Keeps(node, Filled(node), node')
    BY <1>1, <2>1, ResizedOK
  <2>3. ret' \in Results
    BY <1>3, <1>4, <2>1
  <2> QED BY <1>1, <2>1, <2>2, <2>3, KeptInv
<1>12. CASE Extract
  <2>1. PICK left \in 0..node.cap, right \in 0..node.cap :
          node' \in Loads(EntriesIn(node, left, right), 6)
    BY <1>12 DEF Extract
  <2>2. left \in Int /\ right \in Int /\ 6 \in Nat \ {0} /\ inserts' = 0 /\ ret' = <<"layout", 0>>
    BY <1>12 DEF Extract
  <2> DEFINE S == Filled(node) \cap (left..right - 1)
  <2>5. S = Filled(node) \cap (left..right - 1) /\ NodeOK(node)
    BY <1>1
  <2> HIDE DEF S
  <2>3. Keeps(node, S, node')
    BY ONLY <2>1, <2>2, <2>5, LoadsOK
  <2>6. 0 \in 0..CheckPeriod - 1
    BY <1>2
  <2>4. ret' \in Results /\ inserts' \in 0..CheckPeriod - 1
    BY <1>3, <1>4, <2>2, <2>6
  <2> QED BY <1>1, <2>3, <2>4, KeptInv
<1>13. CASE UNCHANGED vars
  BY <1>13 DEF vars, Inv
<1> QED BY <1>5, <1>6, <1>7, <1>8, <1>9, <1>10, <1>11, <1>12, <1>13 DEF Next

(* What follows supposes that no node is ever in the one situation in      *)
(* which a search reads a stray bit: EndIsSafe.  It holds of itself unless *)
(* the memory behind a bitmap has a set bit before its first.              *)
LEMMA InvHolds == Spec => ([]EndIsSafe => []Inv)
<1>1. EndIsSafe /\ Inv /\ [Next]_vars => Inv'
  BY NextInv
<1> QED BY <1>1, InitInv, PTL DEF Spec

(* Types: under insertions, erasures and layouts of any length the arrays  *)
(* stay as long as the node, and the counters in their ranges.             *)
THEOREM TypeCorrect == Spec => ([]EndIsSafe => []TypeOK)
<1>1. Inv => TypeOK
  <2> SUFFICES ASSUME Inv PROVE TypeOK
    OBVIOUS
  <2>1. NodeOK(node) /\ inserts \in 0..CheckPeriod - 1 /\ ret \in Results
    BY DEF Inv
  <2>2. /\ node.cap \in Nat \ {0} /\ Filled(node) \subseteq SlotsOf(node)
        /\ node.num \in 0..node.cap /\ node.key \in [SlotsOf(node) -> Keys \cup {Sentinel}]
        /\ node.expandAt \in 10..10 * node.cap /\ node.pay \in [Filled(node) -> Payloads]
    BY <2>1, NodeFacts DEF NodeOK
  <2>3. node.contractAt \in Nat
    BY <2>1 DEF NodeOK, Node
  <2>4. Range(node.pay) \subseteq Payloads
    BY <2>2 DEF Range
  <2> QED BY <2>1, <2>2, <2>3, <2>4 DEF TypeOK, Results
<1> QED BY <1>1, InvHolds, PTL

(* What validate_structure() checks holds after every sequence of          *)
(* operations, for nodes, keys and bitmap words of any size.               *)
THEOREM StructureIsValid == Spec => ([]EndIsSafe => []StructureValid)
<1>1. Inv => StructureValid
  <2> SUFFICES ASSUME Inv PROVE StructureValid
    OBVIOUS
  <2> DEFINE cap == node.cap
             key == node.key
             F == Filled(node)
  <2>1. NodeOK(node)
    BY DEF Inv
  <2>2. /\ cap \in Nat \ {0} /\ F \subseteq 0..cap-1 /\ node.num = Cardinality(F)
        /\ key \in [0..cap-1 -> Nat] /\ Gapped(cap, key, F)
        /\ Sentinel \in Nat /\ \A k \in Keys : k \in Nat /\ k < Sentinel
    BY <2>1, NodeFacts DEF NodeOK
  <2>3. \A s, t \in 0..cap-1 : s <= t => key[s] <= key[t] /\ key[s] <= Sentinel
    <3> HIDE DEF cap, key, F
    <3> QED BY <2>2, KeysAscend
  <2>4. ASSUME NEW s \in 0..cap-2
        PROVE  key[s] <= key[s+1] /\ (key[s] < key[s+1] => s \in F)
    <3>1. s \in 0..cap-1 /\ s + 1 \in 0..cap-1 /\ s <= s + 1 /\ s \in Int
      BY <2>2
    <3>2. key[s] <= key[s+1] /\ key[s] \in Nat /\ key[s+1] \in Nat /\ key[s+1] <= Sentinel
      <4>1. s + 1 <= s + 1
        BY <3>1
      <4> QED BY <2>2, <2>3, <3>1, <4>1
    <3>3. ASSUME key[s] < key[s+1] PROVE s \in F
      <4>1. key[s] < Sentinel
        BY <2>2, <3>2, <3>3
      <4>2. ASSUME NEW t \in 0..cap-1, s < t PROVE key[s] < key[t]
        <5>1. s + 1 <= t /\ key[t] \in Nat
          BY <2>2, <3>1, <4>2
        <5>2. key[s+1] <= key[t]
          BY <2>3, <3>1, <5>1
        <5> QED BY <3>2, <3>3, <5>1, <5>2
      <4> QED BY <2>1, <3>1, <4>1, <4>2, LastOfKeyFilled
    <3> QED BY <3>2, <3>3
  <2>5. (key[cap-1] = Sentinel) <=> (cap-1 \notin F)
    <3>1. cap - 1 \in 0..cap-1 /\ ~ (Sentinel < Sentinel)
      BY <2>2
    <3>2. CASE cap - 1 \in F
      <4>1. key[cap-1] \in Keys
        BY <2>2, <3>2 DEF Gapped
      <4> QED BY <2>2, <3>1, <3>2, <4>1
    <3>3. CASE cap - 1 \notin F
      <4>1. \A g \in F : g < cap - 1
        BY <2>2, <3>3
      <4>2. key[cap-1] = Sentinel
        BY <2>2, <3>1, <4>1 DEF Gapped
      <4> QED BY <3>3, <4>2
    <3> QED BY <3>2, <3>3
  <2> QED BY <2>2, <2>4, <2>5 DEF StructureValid
<1> QED BY <1>1, InvHolds, PTL

(* Whatever slot the model predicts and whatever is in the memory behind   *)
(* the bitmap: find_key(), find_lower(), find_upper() and                  *)
(* find_insert_position() end at the exact place exactly as long as the    *)
(* node is not in the situation where find_lower() and find_upper() run    *)
(* into a stray bit; in that situation one of them is wrong.               *)
THEOREM SearchesAreExact == Spec => ([]SearchesExact <=> []EndIsSafe)
<1>1. Inv /\ EndIsSafe => SearchesExact
  <2> SUFFICES ASSUME Inv, EndIsSafe, NEW k \in Keys, NEW m \in SlotsOf(node)
               PROVE  LET upTo == {s \in Filled(node) : node.key[s] <= k}
                          below == {s \in Filled(node) : node.key[s] < k}
                          after == Filled(node) \ upTo
                          at == InsertPosition(node, m, k)
                          open == {s \in SlotsOf(node) \ Filled(node) :
                                     (\A f \in upTo : f < s) /\ (\A f \in after : s < f)}
                      IN /\ FindKey(node, m, k) = IF upTo = below THEN -1 ELSE Max(upTo)
                         /\ FindLower(node, m, k) = Min((Filled(node) \ below) \cup {node.cap})
                         /\ FindUpper(node, m, k) = Min(after \cup {node.cap})
                         /\ \A f \in upTo : f < at
                         /\ \A f \in after : at <= f
                         /\ open # {} => at \in open /\ \A s \in open : Abs(at - m) <= Abs(s - m)
    BY DEF SearchesExact
  <2>1. NodeOK(node) /\ SafeEnd(node)
    BY DEF Inv, EndIsSafe
  <2> DEFINE F == Filled(node)
             upTo == {s \in F : node.key[s] <= k}
             u == UpperBound(node, m, k)
  <2>2. FindUpper(node, m, k) = Min((F \ upTo) \cup {node.cap})
    <3>1. /\ u \in 0..node.cap /\ upTo = {s \in F : s < u}
          /\ u > 0 => u - 1 \in F
      BY <2>1, UpperSplits
    <3>2. F \subseteq 0..node.cap-1 /\ node.cap \in Nat \ {0}
      BY <2>1, NodeFacts
    <3>6. u = node.cap => node.cap - 1 \in Filled(node)
      BY <3>1, <3>2
    <3>3. FindUpper(node, m, k) = NextFilled(node, u)
      BY DEF FindUpper
    <3>4. {s \in F : s >= u} = F \ upTo
      <4>1. \A s \in F : s >= u <=> ~ (s < u)
        BY <3>1, <3>2
      <4> HIDE DEF u
      <4> QED BY <3>1, <4>1
    <3> HIDE DEF u, upTo
    <3>5. NextFilled(node, u) = Min({s \in Filled(node) : s >= u} \cup {node.cap})
      BY <2>1, <3>1, <3>6, NextFilledExact
    <3> QED BY <3>3, <3>4, <3>5
  <2>3. FindLower(node, m, k) = Min((F \ {s \in F : node.key[s] < k}) \cup {node.cap})
    BY <2>1, FindLowerExact
  <2>4. FindKey(node, m, k) = IF upTo = {s \in F : node.key[s] < k} THEN -1 ELSE Max(upTo)
    BY <2>1, FindKeyExact
  <2> DEFINE after == F \ upTo
             at == InsertPosition(node, m, k)
             open == {s \in SlotsOf(node) \ F :
                        (\A f \in upTo : f < s) /\ (\A f \in after : s < f)}
  <2>5. /\ \A f \in upTo : f < at
        /\ \A f \in after : at <= f
        /\ open # {} => at \in open /\ \A s \in open : Abs(at - m) <= Abs(s - m)
    <3>1. Placed(node, m, k, at)
      BY <2>1, InsertPositionExact
    <3> QED BY ONLY <3>1 DEF Placed
  <2> QED BY ONLY <2>2, <2>3, <2>4, <2>5
<1>2. Inv /\ SearchesExact => EndIsSafe
  <2> SUFFICES ASSUME Inv, SearchesExact, ~ EndIsSafe PROVE FALSE
    OBVIOUS
  <2> DEFINE cap == node.cap
             last == cap - 1
             k == node.key[last]
             stray == Min(StrayBits)
  <2>1. NodeOK(node) /\ last \in Filled(node) /\ cap % W = 0 /\ StrayBits # {} /\ 0 \notin StrayBits
    BY DEF Inv, EndIsSafe, SafeEnd
  <2>2. stray \in Nat /\ stray > 0
    <3>1. StrayBits \subseteq 0..W-1 /\ StrayBits # {} /\ 0 \in Int /\ W - 1 \in Int
      BY <2>1, StrayAssumption, SizesAssumption
    <3>2. stray \in StrayBits
      BY ONLY <3>1, MinOfInterval DEF stray
    <3> HIDE DEF stray
    <3> QED BY <2>1, <3>1, <3>2
  <2> HIDE DEF stray
  <2>3. /\ cap \in Nat \ {0} /\ k \in Keys /\ k \in Nat /\ Filled(node) \subseteq 0..cap-1
        /\ \A f, g \in Filled(node) : f < g => node.key[f] <= node.key[g]
    BY <2>1, NodeFacts DEF NodeOK, Gapped
  <2>4. 0 \in SlotsOf(node)
    BY <2>3 DEF SlotsOf
  <2> DEFINE u == UpperBound(node, 0, k)
             upTo == {s \in Filled(node) : node.key[s] <= k}
  <2>5. /\ u \in 0..cap /\ upTo = {s \in Filled(node) : s < u}
    BY <2>1, <2>3, <2>4, UpperSplits
  <2>6. upTo = Filled(node)
    <3>1. ASSUME NEW f \in Filled(node) PROVE node.key[f] <= k
      <4>1. f \in 0..cap-1 /\ (f < last \/ f = last)
        BY <2>3
      <4> QED BY <2>1, <2>3, <4>1
    <3> QED BY <3>1
  <2>7. u = cap
    <3> HIDE DEF u, upTo
    <3>1. last < u
      BY <2>1, <2>5, <2>6
    <3> QED BY <2>3, <2>5, <3>1
  <2>8. FindUpper(node, 0, k) = cap + stray
    BY <2>1, <2>7 DEF FindUpper, NextFilled, stray
  <2>9. FindUpper(node, 0, k) = Min((Filled(node) \ upTo) \cup {cap})
    BY <2>3, <2>4 DEF SearchesExact
  <2>10. Min((Filled(node) \ upTo) \cup {cap}) = cap
    <3>1. (Filled(node) \ upTo) \cup {cap} = {cap, cap} /\ cap \in Int
      BY <2>3, <2>6
    <3> HIDE DEF cap, upTo
    <3> QED BY <3>1, MinOfTwo
  <2> HIDE DEF cap, k, u, upTo
  <2> QED BY <2>2, <2>3, <2>8, <2>9, <2>10
<1>3. EndIsSafe /\ Inv /\ [Next]_vars => Inv'
  BY NextInv
<1>4. Spec => ([]SearchesExact => []EndIsSafe)
  BY <1>2, <1>3, InitInv, PTL DEF Spec
<1> QED BY <1>1, <1>4, InvHolds, PTL

(* closest_gap() is exact for every bitmap, word size and position: in     *)
(* every reachable node that is not full, and in the long bitmaps.         *)
THEOREM ClosestGapsAreFound == Spec => ([]EndIsSafe => []ClosestGapIsClosest)
<1>1. LongBitmapsSearched
  <2> SUFFICES ASSUME NEW cap \in {13, 18}, NEW n \in 1..3, NEW gaps \in kSubset(n, 0..cap-1),
                      NEW pos \in 0..cap-1
               PROVE  LET filled == (0..cap-1) \ gaps
                      IN IsClosestGap(ClosestGap(filled, cap, 4, pos), filled, cap, pos)
    BY DEF LongBitmapsSearched
  <2> DEFINE filled == (0..cap-1) \ gaps
  <2>1. gaps \subseteq 0..cap-1 /\ Cardinality(gaps) = n
    BY DEF kSubset
  <2>2. gaps # {}
    <3>1. Cardinality({}) = 0 /\ n # 0
      BY FS_EmptySet
    <3> QED BY <2>1, <3>1
  <2>3. ~ (0..cap-1 \subseteq filled) /\ filled \subseteq 0..cap-1
    BY <2>1, <2>2
  <2>4. cap \in Nat \ {0} /\ pos \in Nat /\ 4 \in Nat \ {0} /\ pos \in 0..cap
    OBVIOUS
  <2>5. Min({pos, cap-1}) = pos
    <3>1. Min({pos, cap-1}) = IF pos = cap THEN cap - 1 ELSE pos
      BY <2>4, MinOfPosition
    <3> QED BY <3>1
  <2> HIDE DEF filled
  <2>6. IsClosestGap(ClosestGap(filled, cap, 4, pos), filled, cap, Min({pos, cap-1}))
    BY ONLY <2>3, <2>4, ClosestGapExact
  <2> QED BY <2>5, <2>6 DEF filled
<1>2. Inv => ClosestGapIsClosest
  <2> SUFFICES ASSUME Inv, node.num < node.cap, NEW pos \in 0..node.cap, NEW w \in {W, 4, 64}
               PROVE  IsClosestGap(ClosestGap(Filled(node), node.cap, w, pos),
                                   Filled(node), node.cap, Min({pos, node.cap - 1}))
    BY <1>1 DEF ClosestGapIsClosest
  <2> DEFINE cap == node.cap
             F == Filled(node)
  <2>1. /\ cap \in Nat \ {0} /\ F \subseteq 0..cap-1 /\ node.num = Cardinality(F)
        /\ node.num < cap /\ pos \in 0..cap
    BY NodeFacts DEF Inv
  <2>2. w \in Nat \ {0}
    BY SizesAssumption
  <2> HIDE DEF cap, F
  <2>3. ~ (0..cap-1 \subseteq F)
    <3> SUFFICES ASSUME 0..cap-1 \subseteq F PROVE FALSE
      OBVIOUS
    <3>1. F = 0..cap-1
      BY <2>1
    <3>2. 0 \in Int /\ cap - 1 \in Int /\ ~ (0 > cap - 1) /\ cap - 1 - 0 + 1 = cap
      BY <2>1
    <3>3. Cardinality(0..cap-1) = cap
      BY <3>2, FS_Interval
    <3> QED BY <2>1, <3>1, <3>3
  <2>4. pos \in Nat
    BY <2>1
  <2>5. IsClosestGap(ClosestGap(F, cap, w, pos), F, cap, Min({pos, cap - 1}))
    BY ONLY <2>1, <2>2, <2>3, <2>4, ClosestGapExact
  <2> QED BY <2>5 DEF cap, F
<1> QED BY <1>2, InvHolds, PTL

-----------------------------------------------------------------------------
(* The multimap of a node: the payloads of a key along its slots.          *)
OfKey(nd, S, k) == {s \in S : nd.key[s] = k}
PaysAlong(nd, A) == [i \in DOMAIN InOrder(A) |-> nd.pay[InOrder(A)[i]]]
ItemsOf(nd) == [k \in Keys |-> PaysAlong(nd, OfKey(nd, Filled(nd), k))]

Agree(s, t, D, V) == s \in [D -> V] /\ t \in [D -> V] /\ \A i \in D : s[i] = t[i]

LEMMA SameFunction ==
  ASSUME NEW D, NEW V, NEW s, NEW t, Agree(s, t, D, V)
  PROVE  s = t
BY DEF Agree

LEMMA AppendFunction ==
  ASSUME NEW V, NEW n \in Nat, NEW q \in [1..n -> V], NEW p \in V
  PROVE  /\ q \in Seq(V) /\ Len(q) = n
         /\ Append(q, p) \in [1..n+1 -> V]
         /\ \A i \in 1..n+1 : Append(q, p)[i] = IF i <= n THEN q[i] ELSE p
<1>1. q \in Seq(V) /\ Len(q) = n
  OBVIOUS
<1>2. Append(q, p) \in Seq(V) /\ Len(Append(q, p)) = n + 1
  BY <1>1
<1>3. \A i \in 1..n+1 : Append(q, p)[i] = IF i <= n THEN q[i] ELSE p
  BY <1>1
<1>4. Append(q, p) \in [1..n+1 -> V]
  <2>1. \A s \in Seq(V) : s \in [1..Len(s) -> V]
    OBVIOUS
  <2> QED BY <1>2, <2>1
<1> QED BY <1>1, <1>3, <1>4

LEMMA PaysFacts ==
  ASSUME NEW nd, NodeOK(nd), NEW A, A \subseteq Filled(nd)
  PROVE  /\ A \subseteq Int /\ IsFiniteSet(A) /\ Cardinality(A) \in Nat
         /\ Enumerates(InOrder(A), Cardinality(A), A)
         /\ PaysAlong(nd, A) \in [1..Cardinality(A) -> Payloads]
         /\ PaysAlong(nd, A) \in Seq(Payloads) /\ Len(PaysAlong(nd, A)) = Cardinality(A)
         /\ \A i \in 1..Cardinality(A) :
              InOrder(A)[i] \in A /\ PaysAlong(nd, A)[i] = nd.pay[InOrder(A)[i]]
<1> DEFINE n == Cardinality(A)
           g == InOrder(A)
           s == PaysAlong(nd, A)
<1>1. Filled(nd) \subseteq Int /\ IsFiniteSet(Filled(nd)) /\ nd.pay \in [Filled(nd) -> Payloads]
  BY NodeFacts DEF NodeOK
<1>2. A \subseteq Int /\ IsFiniteSet(A)
  BY <1>1, FS_Subset
<1>3. n \in Nat /\ Enumerates(g, n, A)
  BY <1>2, InOrderEnumerates
<1> HIDE DEF n, g
<1>4. g \in [1..n -> A]
  BY <1>3 DEF Enumerates
<1>5. s = [i \in 1..n |-> nd.pay[g[i]]]
  BY <1>4 DEF PaysAlong, g
<1>6. \A i \in 1..n : g[i] \in A /\ nd.pay[g[i]] \in Payloads
  BY <1>1, <1>4
<1>7. s \in [1..n -> Payloads] /\ \A i \in 1..n : s[i] = nd.pay[g[i]]
  BY <1>5, <1>6
<1> HIDE DEF s
<1>8. s \in Seq(Payloads) /\ Len(s) = n
  BY <1>3, <1>7
<1> QED BY <1>2, <1>3, <1>6, <1>7, <1>8 DEF n, g, s

(* Entries that are carried over keep their order.                         *)
LEMMA CarriedPays ==
  ASSUME NEW nd, NodeOK(nd), NEW new, NodeOK(new), NEW S, NEW T, NEW h,
         Carries(h, nd, S, new, T), NEW k
  PROVE  PaysAlong(new, OfKey(new, T, k)) = PaysAlong(nd, OfKey(nd, S, k))
<1> DEFINE A == OfKey(nd, S, k)
           B == OfKey(new, T, k)
           f == [x \in A |-> h[x]]
           n == Cardinality(A)
<1>1. /\ S \subseteq Filled(nd) /\ T \subseteq Filled(new)
      /\ h \in [S -> T]
      /\ \A x, y \in S : x < y => h[x] < h[y]
      /\ \A y \in T : \E x \in S : h[x] = y
      /\ \A x \in S : new.key[h[x]] = nd.key[x] /\ new.pay[h[x]] = nd.pay[x]
  BY DEF Carries
<1>2. /\ A \subseteq S /\ A \subseteq Filled(nd) /\ B \subseteq T /\ B \subseteq Filled(new)
      /\ \A x \in S : x \in A <=> nd.key[x] = k
      /\ \A y \in T : y \in B <=> new.key[y] = k
  BY <1>1 DEF OfKey
<1> HIDE DEF A, B
<1>3. A \subseteq Int /\ IsFiniteSet(A) /\ B \subseteq Int
  BY <1>2, PaysFacts
<1>4. f \in [A -> B] /\ \A x \in A : f[x] = h[x]
  BY <1>1, <1>2
<1> HIDE DEF f
<1>5. \A x, y \in A : x < y => f[x] < f[y]
  BY <1>1, <1>2, <1>4
<1>6. \A y \in B : \E x \in A : f[x] = y
  <2> TAKE y \in B
  <2>1. PICK x \in S : h[x] = y
    BY <1>1, <1>2
  <2>2. x \in A
    BY <1>1, <1>2, <2>1
  <2> QED BY <1>4, <2>1, <2>2
<1>7. Cardinality(B) = n /\ InOrder(B) = [i \in 1..n |-> f[InOrder(A)[i]]]
  <2>1. Onto(f, A, B)
    BY ONLY <1>4, <1>5, <1>6 DEF Onto
  <2>2. A \subseteq Int /\ IsFiniteSet(A) /\ B \subseteq Int
    BY <1>3
  <2>3. ImageOf(f, A, B)
    BY ONLY <2>1, <2>2, InOrderImage
  <2> QED BY <2>3 DEF ImageOf
<1>8. /\ PaysAlong(nd, A) \in [1..n -> Payloads]
      /\ \A i \in 1..n : InOrder(A)[i] \in A /\ PaysAlong(nd, A)[i] = nd.pay[InOrder(A)[i]]
  BY <1>2, PaysFacts
<1>9. /\ PaysAlong(new, B) \in [1..n -> Payloads]
      /\ \A i \in 1..n : PaysAlong(new, B)[i] = new.pay[InOrder(B)[i]]
  BY <1>2, <1>7, PaysFacts
<1>10. ASSUME NEW i \in 1..n PROVE PaysAlong(new, B)[i] = PaysAlong(nd, A)[i]
  <2> DEFINE x == InOrder(A)[i]
  <2>1. x \in A /\ PaysAlong(nd, A)[i] = nd.pay[x] /\ InOrder(B)[i] = f[x]
    BY <1>7, <1>8
  <2> HIDE DEF x
  <2>2. f[x] = h[x] /\ new.pay[h[x]] = nd.pay[x]
    BY <1>1, <1>2, <1>4, <2>1
  <2> QED BY <1>9, <2>1, <2>2
<1> HIDE DEF n
<1>11. PaysAlong(new, B) = PaysAlong(nd, A)
  <2> DEFINE s == PaysAlong(new, B)
             t == PaysAlong(nd, A)
  <2>1. Agree(s, t, 1..n, Payloads)
    BY <1>8, <1>9, <1>10 DEF Agree
  <2> HIDE DEF s, t
  <2>2. s = t
    BY ONLY <2>1, SameFunction
  <2> QED BY <2>2 DEF s, t
<1> QED BY <1>11 DEF A, B

LEMMA KeptItems ==
  ASSUME NEW nd, NodeOK(nd), NEW S, NEW new, Keeps(nd, S, new)
  PROVE  ItemsOf(new) = [k \in Keys |-> PaysAlong(nd, OfKey(nd, S, k))]
<1>1. NodeOK(new)
  BY DEF Keeps
<1>2. PICK h : Carries(h, nd, S, new, Filled(new))
  BY DEF Keeps
<1>3. \A k \in Keys : PaysAlong(new, OfKey(new, Filled(new), k)) = PaysAlong(nd, OfKey(nd, S, k))
  BY <1>1, <1>2, CarriedPays
<1> QED BY <1>3 DEF ItemsOf

LEMMA WholeKept ==
  ASSUME NEW nd, NodeOK(nd), NEW new, Keeps(nd, Filled(nd), new)
  PROVE  ItemsOf(new) = ItemsOf(nd)
BY KeptItems DEF ItemsOf

LEMMA ItemsType ==
  ASSUME NEW nd, NodeOK(nd)
  PROVE  ItemsOf(nd) \in [Keys -> Seq(Payloads)]
<1>1. \A k \in Keys : PaysAlong(nd, OfKey(nd, Filled(nd), k)) \in Seq(Payloads)
  <2> TAKE k \in Keys
  <2>1. OfKey(nd, Filled(nd), k) \subseteq Filled(nd)
    BY DEF OfKey
  <2> QED BY <2>1, PaysFacts
<1> QED BY <1>1 DEF ItemsOf

(* A new entry is the last one of its key.                                 *)
LEMMA ReceivedItems ==
  ASSUME NEW nd, NodeOK(nd), NEW k \in Keys, NEW p \in Payloads, NEW new, Receives(nd, k, p, new)
  PROVE  ItemsOf(new) = [ItemsOf(nd) EXCEPT ![k] = Append(@, p)]
<1>1. NodeOK(new)
  BY DEF Receives
<1>2. PICK h, slot : /\ slot \in Filled(new) /\ new.key[slot] = k /\ new.pay[slot] = p
                     /\ Carries(h, nd, Filled(nd), new, Filled(new) \ {slot})
                     /\ \A x \in Filled(nd) : nd.key[x] = k => h[x] < slot
  BY DEF Receives
<1> DEFINE F == Filled(nd)
           T == Filled(new) \ {slot}
           was == PaysAlong(nd, OfKey(nd, F, k))
           is == PaysAlong(new, OfKey(new, Filled(new), k))
<1>3. \A j \in Keys : PaysAlong(new, OfKey(new, T, j)) = PaysAlong(nd, OfKey(nd, F, j))
  BY <1>1, <1>2, CarriedPays
<1>4. \A j \in Keys : j # k => OfKey(new, Filled(new), j) = OfKey(new, T, j)
  BY <1>2 DEF OfKey
<1>5. \A j \in Keys : j # k =>
        PaysAlong(new, OfKey(new, Filled(new), j)) = PaysAlong(nd, OfKey(nd, F, j))
  BY <1>3, <1>4
<1>6. is = Append(was, p)
  <2> DEFINE A == OfKey(new, T, k)
             B == OfKey(new, Filled(new), k)
             n == Cardinality(A)
  <2>1. A \subseteq Filled(new) /\ B \subseteq Filled(new) /\ B = A \cup {slot} /\ slot \notin A
    BY <1>2 DEF OfKey
  <2>2. \A y \in A : y < slot
    <3> TAKE y \in A
    <3>1. y \in T /\ new.key[y] = k
      BY DEF OfKey
    <3>2. PICK x \in F : h[x] = y
      BY <1>2, <3>1 DEF Carries
    <3>3. nd.key[x] = k
      BY <1>2, <3>1, <3>2 DEF Carries
    <3> QED BY <1>2, <3>2, <3>3
  <2> HIDE DEF A, B, T
  <2>3. /\ A \subseteq Int /\ IsFiniteSet(A) /\ n \in Nat
        /\ PaysAlong(new, A) \in [1..n -> Payloads]
        /\ PaysAlong(new, A) \in Seq(Payloads) /\ Len(PaysAlong(new, A)) = n
        /\ \A i \in 1..n : PaysAlong(new, A)[i] = new.pay[InOrder(A)[i]]
    BY <1>1, <2>1, PaysFacts
  <2>4. slot \in Int
    BY <1>1, <1>2, NodeFacts
  <2>5. InOrder(A \cup {slot}) = [i \in 1..n+1 |-> IF i <= n THEN InOrder(A)[i] ELSE slot]
    BY ONLY <2>2, <2>3, <2>4, InOrderAdd
  <2> HIDE DEF n
  <2>6. PaysAlong(new, B) = [i \in 1..n+1 |-> IF i <= n THEN PaysAlong(new, A)[i] ELSE p]
    <3>1. PaysAlong(new, B) = [i \in 1..n+1 |-> new.pay[InOrder(B)[i]]]
      BY <2>1, <2>5 DEF PaysAlong
    <3>2. \A i \in 1..n+1 : new.pay[InOrder(B)[i]] =
                              IF i <= n THEN PaysAlong(new, A)[i] ELSE p
      <4> TAKE i \in 1..n+1
      <4>1. InOrder(B)[i] = IF i <= n THEN InOrder(A)[i] ELSE slot
        BY <2>1, <2>5
      <4>2. i <= n => i \in 1..n
        BY <2>3
      <4> QED BY <1>2, <2>3, <4>1, <4>2
    <3> QED BY <3>1, <3>2
  <2>7. PaysAlong(new, A) = was
    BY <1>3 DEF A, T
  <2>8. PaysAlong(new, B) = Append(PaysAlong(new, A), p)
    <3> DEFINE q == PaysAlong(new, A)
    <3>1. q \in Seq(Payloads) /\ Len(q) = n
      BY <2>3
    <3>2. PaysAlong(new, B) = [i \in 1..n+1 |-> IF i <= n THEN q[i] ELSE p]
      BY <2>6
    <3> HIDE DEF q
    <3> DEFINE r == [i \in 1..n+1 |-> IF i <= n THEN q[i] ELSE p]
    <3>3. q \in [1..n -> Payloads] /\ n \in Nat /\ q \in Seq(Payloads) /\ p \in Payloads
      BY <2>3, <3>1 DEF q
    <3>4. r \in [1..n+1 -> Payloads] /\ \A i \in 1..n+1 : r[i] = IF i <= n THEN q[i] ELSE p
      BY <3>3
    <3> HIDE DEF r
    <3>5. Append(q, p) \in [1..n+1 -> Payloads]
          /\ \A i \in 1..n+1 : Append(q, p)[i] = IF i <= n THEN q[i] ELSE p
      BY ONLY <3>3, AppendFunction
    <3>6. Append(q, p) = r
      <4>1. Agree(Append(q, p), r, 1..n+1, Payloads)
        BY ONLY <3>4, <3>5 DEF Agree
      <4> QED BY ONLY <4>1, SameFunction
    <3> QED BY <3>2, <3>6 DEF q, r
  <2> QED BY <2>7, <2>8 DEF B
<1> HIDE DEF was, is
<1>7. /\ ItemsOf(nd)[k] = was /\ ItemsOf(new)[k] = is
      /\ \A j \in Keys : j # k => ItemsOf(new)[j] = ItemsOf(nd)[j]
      /\ DOMAIN ItemsOf(new) = Keys /\ DOMAIN ItemsOf(nd) = Keys
  BY <1>5 DEF ItemsOf, was, is
<1>8. ItemsOf(nd) \in [Keys -> Seq(Payloads)] /\ ItemsOf(new) \in [Keys -> Seq(Payloads)]
  BY <1>1, ItemsType
<1> QED BY ONLY <1>6, <1>7, <1>8

-----------------------------------------------------------------------------
(* A sequence without its i-th element.                                    *)
Without(s, i) == [j \in 1..Len(s)-1 |-> IF j < i THEN s[j] ELSE s[j + 1]]

DropsOne(s, i) == RemoveAt(s, i) = Without(s, i) /\ (i = 1 => Tail(s) = Without(s, i))

LEMMA RemoveAtIsWithout ==
  ASSUME NEW s, s \in Seq(Payloads), NEW i, i \in 1..Len(s)
  PROVE  DropsOne(s, i)
<1> DEFINE V == Payloads
           n == Len(s)
           a == SubSeq(s, 1, i - 1)
           b == SubSeq(s, i + 1, n)
           w == Without(s, i)
<1>1. n \in Nat /\ i \in 1..n /\ i \in Nat /\ n - 1 \in Nat /\ i - 1 \in Nat /\ n - i \in Nat
  OBVIOUS
<1>2. s \in [1..n -> V] /\ \A j \in 1..n : s[j] \in V
  OBVIOUS
<1>3. w \in [1..n-1 -> V] /\ \A j \in 1..n-1 : w[j] = IF j < i THEN s[j] ELSE s[j + 1]
  <2>1. \A j \in 1..n-1 : j \in 1..n /\ j + 1 \in 1..n
    BY <1>1
  <2> QED BY <1>2, <2>1 DEF Without
<1>4. a \in Seq(V) /\ Len(a) = i - 1 /\ \A j \in 1..i-1 : a[j] = s[j]
  BY <1>1, <1>2
<1>5. b \in Seq(V) /\ Len(b) = n - i /\ \A j \in 1..n-i : b[j] = s[j + i]
  <2> DEFINE lo == i + 1
             c == SubSeq(s, lo, n)
  <2>1. lo \in Int /\ n \in Int /\ \A j \in lo..n : s[j] \in V
    BY <1>1, <1>2
  <2> HIDE DEF lo
  <2>2. /\ c \in Seq(V) /\ Len(c) = IF lo <= n THEN n - lo + 1 ELSE 0
        /\ \A j \in 1..n - lo + 1 : c[j] = s[lo + j - 1]
    BY <2>1, SubSeqProperties
  <2> HIDE DEF c
  <2>3. /\ n - lo + 1 = n - i /\ (~ (lo <= n) => n - i = 0)
        /\ \A j \in 1..n-i : lo + j - 1 = j + i
    BY <1>1 DEF lo
  <2> QED BY <2>2, <2>3 DEF c, lo
<1>6. RemoveAt(s, i) = a \o b
  BY DEF RemoveAt
<1> HIDE DEF a, b, w
<1>7. a \o b = w
  <2>1. a \o b \in Seq(V) /\ Len(a \o b) = n - 1
    <3>1. a \o b \in Seq(V) /\ Len(a \o b) = Len(a) + Len(b)
      BY <1>4, <1>5, ConcatProperties
    <3> QED BY <1>1, <1>4, <1>5, <3>1
  <2>2. a \o b \in [1..n-1 -> V]
    <3>1. \A t \in Seq(V) : t \in [1..Len(t) -> V]
      OBVIOUS
    <3> QED BY <2>1, <3>1
  <2>3. ASSUME NEW j \in 1..n-1 PROVE (a \o b)[j] = w[j]
    <3>1. CASE j < i
      <4>1. j \in 1..i-1
        BY <1>1, <3>1
      <4>2. (a \o b)[j] = a[j]
        BY <1>1, <1>4, <1>5, <4>1
      <4> QED BY <1>3, <1>4, <3>1, <4>1, <4>2
    <3>2. CASE ~ (j < i)
      <4>1. j - (i - 1) \in 1..n-i /\ (j - (i - 1)) + i = j + 1
        BY <1>1, <3>2
      <4>2. (a \o b)[j] = b[j - (i - 1)]
        BY <1>1, <1>4, <1>5, <3>2
      <4> QED BY <1>3, <1>5, <3>2, <4>1, <4>2
    <3> QED BY <3>1, <3>2
  <2>4. Agree(a \o b, w, 1..n-1, V)
    BY <1>3, <2>2, <2>3 DEF Agree
  <2> QED BY ONLY <2>4, SameFunction
<1>8. ASSUME i = 1 PROVE Tail(s) = w
  <2>1. Tail(s) \in Seq(V) /\ Len(Tail(s)) = n - 1
    BY <1>1
  <2>2. Tail(s) \in [1..n-1 -> V]
    <3>1. \A t \in Seq(V) : t \in [1..Len(t) -> V]
      OBVIOUS
    <3> QED BY <2>1, <3>1
  <2>3. \A j \in 1..n-1 : Tail(s)[j] = s[j + 1] /\ ~ (j < i)
    BY <1>1, <1>8
  <2>4. Agree(Tail(s), w, 1..n-1, V)
    BY <1>3, <2>2, <2>3 DEF Agree
  <2> QED BY ONLY <2>4, SameFunction
<1> QED BY <1>6, <1>7, <1>8 DEF w, DropsOne

(* The slots of a key without one of them.                                 *)
LEMMA RemovedPays ==
  ASSUME NEW nd, NodeOK(nd), NEW A, A \subseteq Filled(nd), NEW pos \in A
  PROVE  \E i \in 1..Cardinality(A) :
           /\ InOrder(A)[i] = pos /\ ((\A s \in A : pos <= s) => i = 1)
           /\ PaysAlong(nd, A \ {pos}) = Without(PaysAlong(nd, A), i)
<1> DEFINE n == Cardinality(A)
           g == InOrder(A)
           s == PaysAlong(nd, A)
           B == A \ {pos}
<1>1. /\ A \subseteq Int /\ IsFiniteSet(A) /\ n \in Nat /\ Enumerates(g, n, A)
      /\ s \in [1..n -> Payloads] /\ Len(s) = n
      /\ \A i \in 1..n : g[i] \in A /\ s[i] = nd.pay[g[i]]
  BY PaysFacts
<1> HIDE DEF s
<1>2. PICK i \in 1..n : g[i] = pos
  <2> HIDE DEF n, g
  <2> QED BY <1>1 DEF Enumerates
<1>3. /\ n \in Nat
      /\ InOrder(A \ {g[i]}) = [j \in 1..n-1 |-> IF j < i THEN g[j] ELSE g[j + 1]]
  BY ONLY <1>1, <1>2, InOrderRemove
<1> DEFINE f == [j \in 1..n-1 |-> IF j < i THEN g[j] ELSE g[j + 1]]
<1> HIDE DEF n, g
<1>4. InOrder(B) = f
  BY <1>2, <1>3
<1>5. \A j \in 1..n-1 : /\ f[j] = (IF j < i THEN g[j] ELSE g[j + 1])
                        /\ j \in 1..n /\ j + 1 \in 1..n
  BY <1>1
<1>6. DOMAIN f = 1..n-1
  OBVIOUS
<1> HIDE DEF f
<1>7. PaysAlong(nd, B) = [j \in 1..n-1 |-> nd.pay[f[j]]]
  BY <1>4, <1>6 DEF PaysAlong
<1>8. \A j \in 1..n-1 : nd.pay[f[j]] = IF j < i THEN s[j] ELSE s[j + 1]
  BY <1>1, <1>5
<1>9. PaysAlong(nd, B) = Without(s, i)
  <2>1. Without(s, i) = [j \in 1..n-1 |-> IF j < i THEN s[j] ELSE s[j + 1]]
    BY <1>1 DEF Without
  <2> QED BY <1>7, <1>8, <2>1
<1>10. ASSUME \A t \in A : pos <= t PROVE i = 1
  <2>1. g \in [1..n -> A] /\ \A a, b \in 1..n : a < b => g[a] < g[b]
    BY <1>1 DEF Enumerates, Increasing
  <2>2. 1 \in 1..n /\ g[1] \in A /\ g[1] \in Int /\ pos \in Int
    <3>1. n \in Nat /\ i \in 1..n /\ A \subseteq Int /\ pos \in A
      BY <1>1, <1>2
    <3>2. 1 \in 1..n
      BY ONLY <3>1
    <3> QED BY <2>1, <3>1, <3>2
  <2>3. 1 < i => g[1] < pos
    BY <1>2, <2>1, <2>2
  <2>4. pos <= g[1]
    BY <1>10, <2>2
  <2>5. ~ (1 < i)
    BY <2>2, <2>3, <2>4
  <2> QED BY <1>2, <2>5
<1> QED BY <1>2, <1>9, <1>10 DEF n, g, s

LEMMA ItemFacts ==
  ASSUME NEW nd, NodeOK(nd), NEW k \in Keys
  PROVE  /\ OfKey(nd, Filled(nd), k) \subseteq Filled(nd)
         /\ ItemsOf(nd)[k] = PaysAlong(nd, OfKey(nd, Filled(nd), k))
         /\ ItemsOf(nd)[k] \in Seq(Payloads)
         /\ Cardinality(OfKey(nd, Filled(nd), k)) \in Nat
         /\ Len(ItemsOf(nd)[k]) = Cardinality(OfKey(nd, Filled(nd), k))
<1>1. OfKey(nd, Filled(nd), k) \subseteq Filled(nd)
  BY DEF OfKey
<1>2. ItemsOf(nd)[k] = PaysAlong(nd, OfKey(nd, Filled(nd), k))
  BY DEF ItemsOf
<1> QED BY <1>1, <1>2, PaysFacts

(* One slot less is one item less.                                         *)
OneItemLess(nd, k, pos, new) ==
  \E i \in 1..Len(ItemsOf(nd)[k]) :
    /\ ItemsOf(new) = [ItemsOf(nd) EXCEPT ![k] = RemoveAt(@, i)]
    /\ (\A s \in Filled(nd) : nd.key[s] = k => pos <= s) =>
         ItemsOf(new) = [ItemsOf(nd) EXCEPT ![k] = Tail(@)]

LEMMA RemovedItems ==
  ASSUME NEW nd, NodeOK(nd), NEW pos \in Filled(nd), NEW k \in Keys, nd.key[pos] = k,
         NEW new, Keeps(nd, Filled(nd) \ {pos}, new)
  PROVE  OneItemLess(nd, k, pos, new)
<1> DEFINE F == Filled(nd)
           A == OfKey(nd, F, k)
           it == ItemsOf(nd)
           s == it[k]
<1>1. /\ A \subseteq F /\ pos \in A /\ OfKey(nd, F \ {pos}, k) = A \ {pos}
      /\ \A j \in Keys : j # k => OfKey(nd, F \ {pos}, j) = OfKey(nd, F, j)
      /\ \A x \in A : x \in F /\ nd.key[x] = k
  BY DEF OfKey
<1>2. s = PaysAlong(nd, A) /\ s \in Seq(Payloads) /\ Len(s) = Cardinality(A)
  BY ItemFacts
<1>3. PICK i \in 1..Cardinality(A) :
        /\ (\A x \in A : pos <= x) => i = 1
        /\ PaysAlong(nd, A \ {pos}) = Without(PaysAlong(nd, A), i)
  BY <1>1, RemovedPays
<1>4. ItemsOf(new) = [j \in Keys |-> PaysAlong(nd, OfKey(nd, F \ {pos}, j))]
  BY KeptItems
<1>5. it = [j \in Keys |-> PaysAlong(nd, OfKey(nd, F, j))]
  BY DEF ItemsOf
<1>6. ItemsOf(new)[k] = Without(s, i)
  BY <1>1, <1>2, <1>3, <1>4
<1>7. \A j \in Keys : j # k => ItemsOf(new)[j] = it[j]
  BY <1>1, <1>4, <1>5
<1>8. DOMAIN ItemsOf(new) = Keys /\ DOMAIN it = Keys
  BY <1>4, <1>5
<1>9. ItemsOf(new) = [it EXCEPT ![k] = Without(s, i)]
  <2>1. ItemsOf(new) = [j \in Keys |-> ItemsOf(new)[j]]
    BY <1>4
  <2> HIDE DEF it, s
  <2>2. \A j \in Keys : ItemsOf(new)[j] = IF j = k THEN Without(s, i) ELSE it[j]
    BY <1>6, <1>7
  <2> QED BY <1>8, <2>1, <2>2
<1>10. i \in 1..Len(s)
  BY <1>2, <1>3
<1> HIDE DEF s, it
<1>11. RemoveAt(s, i) = Without(s, i) /\ (i = 1 => Tail(s) = Without(s, i))
  <2>1. s \in Seq(Payloads) /\ i \in 1..Len(s)
    BY <1>10, ItemFacts DEF s, it
  <2>2. DropsOne(s, i)
    BY ONLY <2>1, RemoveAtIsWithout
  <2> QED BY <2>2 DEF DropsOne
<1>12. (\A x \in F : nd.key[x] = k => pos <= x) => i = 1
  BY <1>1, <1>3
<1> HIDE DEF F
<1>13. ItemsOf(new) = [it EXCEPT ![k] = RemoveAt(it[k], i)]
  BY <1>9, <1>11 DEF s
<1>14. i = 1 => ItemsOf(new) = [it EXCEPT ![k] = Tail(it[k])]
  BY <1>9, <1>11 DEF s
<1> QED BY <1>10, <1>12, <1>13, <1>14 DEF s, it, F, OneItemLess

-----------------------------------------------------------------------------
(* Two sums of the same numbers are the same.                              *)
LEMMA SumUnique ==
  ASSUME NEW S, IsFiniteSet(S), NEW f, NEW g, NEW h, IsSum(g, f, S), IsSum(h, f, S)
  PROVE  g[S] = h[S]
<1> DEFINE T == {m \in Nat : \A s \in SUBSET S : Cardinality(s) = m => g[s] = h[s]}
<1>1. \A s \in SUBSET S : IsFiniteSet(s) /\ Cardinality(s) \in Nat
  BY FS_Subset, FS_CardinalityType
<1>2. \A s \in SUBSET S :
        /\ g[s] = IF s = {} THEN 0 ELSE f[Taken(s)] + g[s \ {Taken(s)}]
        /\ h[s] = IF s = {} THEN 0 ELSE f[Taken(s)] + h[s \ {Taken(s)}]
  BY DEF IsSum
<1>3. 0 \in T
  <2>1. \A s \in SUBSET S : Cardinality(s) = 0 => s = {}
    BY <1>1, FS_EmptySet
  <2> QED BY <1>2, <2>1
<1>4. ASSUME NEW m \in Nat, m \in T PROVE m + 1 \in T
  <2>1. ASSUME NEW s \in SUBSET S, Cardinality(s) = m + 1 PROVE g[s] = h[s]
    <3> DEFINE r == s \ {Taken(s)}
    <3>1. s # {}
      BY <2>1, FS_EmptySet
    <3>2. r \in SUBSET S /\ Cardinality(r) = m
      BY <1>1, <2>1, <3>1, OneFewer
    <3>3. g[r] = h[r]
      BY <1>4, <3>2
    <3>4. g[s] = f[Taken(s)] + g[r] /\ h[s] = f[Taken(s)] + h[r]
      BY <1>2, <3>1
    <3> QED BY <3>3, <3>4
  <2> QED BY <2>1
<1>5. \A m \in Nat : m \in T
  <2>1. \A m \in Nat : m \in T => m + 1 \in T
    BY <1>4
  <2> HIDE DEF T
  <2> QED BY ONLY <1>3, <2>1, Induction
<1> QED BY <1>1, <1>5

(* A count of items by keys is the sum over the keys.                      *)
Counts(c, it, gone) ==
  /\ c = [s \in SUBSET gone |-> c[s]] /\ c[{}] = 0
  /\ \A s \in SUBSET gone : \A x \in s : c[s] = Len(it[x]) + c[s \ {x}]

(* The sum of the lengths over a set of keys, as the fold computes it.     *)
Summing(g, it, gone) ==
  g = [s \in SUBSET gone |-> IF s = {} THEN 0 ELSE Len(it[Taken(s)]) + g[s \ {Taken(s)}]]

TotalOf(it, gone) == LET sum == CHOOSE g : Summing(g, it, gone) IN sum[gone]

LEMMA CountIsSum ==
  ASSUME NEW it, NEW gone, IsFiniteSet(gone), NEW c, Counts(c, it, gone)
  PROVE  TotalOf(it, gone) = c[gone]
<1> DEFINE f == [k \in gone |-> Len(it[k])]
           sum == CHOOSE g : Summing(g, it, gone)
<1>1. TotalOf(it, gone) = sum[gone]
  BY DEF TotalOf
<1>2. \A s \in SUBSET gone : s # {} => Taken(s) \in s /\ Taken(s) \in gone
  BY TakenIsMember
<1>3. \A k \in gone : f[k] = Len(it[k])
  OBVIOUS
<1> HIDE DEF f
<1>4. \A s \in SUBSET gone :
        c[s] = IF s = {} THEN 0 ELSE Len(it[Taken(s)]) + c[s \ {Taken(s)}]
  BY <1>2 DEF Counts
<1>5. Summing(c, it, gone)
  BY <1>4 DEF Counts, Summing
<1>6. Summing(sum, it, gone)
  BY <1>5
<1> HIDE DEF sum
<1>7. IsSum(sum, f, gone)
  BY <1>2, <1>3, <1>6 DEF IsSum, Summing
<1>8. IsSum(c, f, gone)
  BY <1>2, <1>3, <1>4 DEF IsSum
<1>9. sum[gone] = c[gone]
  BY <1>7, <1>8, SumUnique
<1> QED BY <1>1, <1>9

(* The slots whose keys are erased.                                        *)
WithKeyIn(nd, gone) == {s \in Filled(nd) : nd.key[s] \in gone}

LEMMA ErasedCount ==
  ASSUME NEW nd, NodeOK(nd), NEW it, it = ItemsOf(nd), NEW gone \in SUBSET Keys
  PROVE  TotalOf(it, gone) = Cardinality(WithKeyIn(nd, gone))
<1> DEFINE c == [s \in SUBSET gone |-> Cardinality(WithKeyIn(nd, s))]
<1>1. IsFiniteSet(gone)
  BY KeysAssumption, FS_Subset
<1>2. IsFiniteSet(Filled(nd))
  BY NodeFacts
<1>3. Counts(c, it, gone)
  <2>1. \A s \in SUBSET gone : c[s] = Cardinality(WithKeyIn(nd, s))
    OBVIOUS
  <2>2. c = [s \in SUBSET gone |-> c[s]]
    OBVIOUS
  <2>3. c[{}] = 0
    <3>1. WithKeyIn(nd, {}) = {}
      BY DEF WithKeyIn
    <3> QED BY <2>1, <3>1, FS_EmptySet
  <2> HIDE DEF c
  <2>4. ASSUME NEW s \in SUBSET gone, NEW x \in s PROVE c[s] = Len(it[x]) + c[s \ {x}]
    <3> DEFINE A == OfKey(nd, Filled(nd), x)
               B == WithKeyIn(nd, s \ {x})
    <3>1. WithKeyIn(nd, s) = A \cup B /\ A \cap B = {} /\ A \subseteq Filled(nd) /\ B \subseteq Filled(nd)
      BY DEF WithKeyIn, OfKey
    <3>2. IsFiniteSet(A) /\ IsFiniteSet(B)
      BY <1>2, <3>1, FS_Subset
    <3>3. x \in Keys /\ s \ {x} \in SUBSET gone
      OBVIOUS
    <3>4. Len(it[x]) = Cardinality(A)
      BY <3>3, ItemFacts
    <3>5. c[s \ {x}] = Cardinality(B) /\ c[s] = Cardinality(WithKeyIn(nd, s))
      BY <2>1, <3>3
    <3> HIDE DEF A, B
    <3>6. Cardinality(A \cup B) = Cardinality(A) + Cardinality(B) - Cardinality(A \cap B)
      BY <3>2, FS_Union
    <3>7. Cardinality(A \cap B) = 0 /\ Cardinality(A) \in Nat /\ Cardinality(B) \in Nat
      BY <3>1, <3>2, FS_EmptySet, FS_CardinalityType
    <3> QED BY <3>1, <3>4, <3>5, <3>6, <3>7
  <2> QED BY <2>2, <2>3, <2>4 DEF Counts
<1>4. c[gone] = Cardinality(WithKeyIn(nd, gone))
  OBVIOUS
<1> HIDE DEF c
<1>5. TotalOf(it, gone) = c[gone]
  BY <1>1, <1>3, CountIsSum
<1> QED BY <1>4, <1>5

LEMMA ErasedItems ==
  ASSUME NEW nd, NodeOK(nd), NEW gone \in SUBSET Keys,
         NEW new, Keeps(nd, Filled(nd) \ WithKeyIn(nd, gone), new)
  PROVE  ItemsOf(new) = [k \in Keys |-> IF k \in gone THEN <<>> ELSE ItemsOf(nd)[k]]
<1> DEFINE S == Filled(nd) \ WithKeyIn(nd, gone)
<1>1. ItemsOf(new) = [k \in Keys |-> PaysAlong(nd, OfKey(nd, S, k))]
  BY KeptItems
<1>2. \A k \in Keys : OfKey(nd, S, k) = IF k \in gone THEN {} ELSE OfKey(nd, Filled(nd), k)
  BY DEF OfKey, WithKeyIn
<1>3. PaysAlong(nd, {}) = <<>>
  <2>1. PaysAlong(nd, {}) \in Seq(Payloads) /\ Len(PaysAlong(nd, {})) = Cardinality({})
    BY PaysFacts
  <2> QED BY <2>1, FS_EmptySet
<1>4. \A k \in Keys : ItemsOf(nd)[k] = PaysAlong(nd, OfKey(nd, Filled(nd), k))
  BY DEF ItemsOf
<1> HIDE DEF S
<1>5. \A k \in Keys : PaysAlong(nd, OfKey(nd, S, k)) =
                        IF k \in gone THEN <<>> ELSE ItemsOf(nd)[k]
  BY <1>2, <1>3, <1>4
<1> QED BY <1>1, <1>5

-----------------------------------------------------------------------------
(* A stretch of a sequence.                                                *)
StretchOf(is, was, m) ==
  /\ is = SubSeq(was, m + 1, m + Len(is)) /\ m \in 0..Len(was) - Len(is)
  /\ m = 0 => IsPrefix(is, was)
  /\ m + Len(is) = Len(was) => IsSuffix(is, was)

LEMMA StretchIsSubSeq ==
  ASSUME NEW was \in Seq(Payloads), NEW m \in Nat, NEW c \in Nat, m + c <= Len(was),
         NEW is \in Seq(Payloads), Len(is) = c, \A j \in 1..c : is[j] = was[m + j]
  PROVE  StretchOf(is, was, m)
<1> DEFINE n == Len(was)
           lo == m + 1
           hi == m + c
           s == SubSeq(was, lo, hi)
<1>1. n \in Nat /\ m \in 0..n - c /\ c <= n /\ m + c <= n
  BY LenProperties
<1>2. was \in [1..n -> Payloads] /\ is \in [1..c -> Payloads]
  BY LenProperties
<1>3. s = is
  <2>1. lo \in Int /\ hi \in Int /\ hi - lo + 1 = c /\ (~ (lo <= hi) => c = 0)
        /\ \A j \in lo..hi : j \in 1..n
    BY <1>1
  <2>2. \A j \in 1..c : lo + j - 1 = m + j
    OBVIOUS
  <2>3. \A j \in lo..hi : was[j] \in Payloads
    BY <1>2, <2>1
  <2> HIDE DEF lo, hi
  <2>4. /\ s \in Seq(Payloads) /\ Len(s) = IF lo <= hi THEN hi - lo + 1 ELSE 0
        /\ \A j \in 1..hi - lo + 1 : s[j] = was[lo + j - 1]
    BY <2>1, <2>3, SubSeqProperties
  <2> HIDE DEF s
  <2>5. Len(s) = c /\ \A j \in 1..c : s[j] = is[j]
    BY <2>1, <2>2, <2>4
  <2> QED BY <2>4, <2>5, SeqEqual
<1>4. ASSUME m = 0 PROVE IsPrefix(is, was)
  <2>1. is = SubSeq(was, 1, c)
    BY <1>3, <1>4
  <2>2. SubSeq(is, 1, Len(is)) = is
    BY SubSeqFull
  <2> QED BY <1>1, <2>1, <2>2 DEF IsPrefix
<1>5. ASSUME m + c = n PROVE IsSuffix(is, was)
  <2> DEFINE p == Reverse(is)
             q == Reverse(was)
             r == SubSeq(q, 1, c)
  <2>1. p = [i \in 1..c |-> is[(c - i) + 1]] /\ q = [i \in 1..n |-> was[(n - i) + 1]]
    BY DEF Reverse
  <2>2. \A i \in 1..n : (n - i) + 1 \in 1..n /\ was[(n - i) + 1] \in Payloads
    BY <1>1, <1>2
  <2>3. \A i \in 1..c : /\ (c - i) + 1 \in 1..c /\ m + ((c - i) + 1) = (n - i) + 1
                        /\ is[(c - i) + 1] \in Payloads /\ i \in 1..n
    <3> TAKE i \in 1..c
    <3>1. n \in Nat /\ m + c = n /\ m \in Nat /\ c \in Nat /\ i \in 1..c
      BY <1>1, <1>5
    <3> HIDE DEF n
    <3>2. (c - i) + 1 \in 1..c /\ m + ((c - i) + 1) = (n - i) + 1 /\ i \in 1..n
      BY ONLY <3>1
    <3> QED BY <1>2, <3>2
  <2> HIDE DEF p, q
  <2>4. p \in [1..c -> Payloads] /\ q \in [1..n -> Payloads]
    BY <2>1, <2>2, <2>3
  <2>5. p \in Seq(Payloads) /\ q \in Seq(Payloads) /\ Len(p) = c /\ Len(q) = n
    <3>1. n \in Nat
      BY <1>1
    <3> HIDE DEF n
    <3> QED BY ONLY <2>4, <3>1, c \in Nat
  <2>6. \A i \in 1..c : p[i] = q[i]
    BY <2>1, <2>3
  <2>7. /\ r \in Seq(Payloads) /\ Len(r) = (IF 1 <= c THEN c - 1 + 1 ELSE 0)
        /\ \A i \in 1..c - 1 + 1 : r[i] = q[1 + i - 1]
    <3>1. \A i \in 1..c : q[i] \in Payloads
      BY <2>3, <2>4
    <3> QED BY <3>1, SubSeqProperties
  <2> HIDE DEF r
  <2>8. Len(r) = c /\ \A i \in 1..c : r[i] = p[i]
    BY <2>6, <2>7
  <2>9. r = p
    BY <2>5, <2>7, <2>8, SeqEqual
  <2>10. SubSeq(p, 1, Len(p)) = p
    BY <2>5, SubSeqFull
  <2> QED BY <1>1, <2>5, <2>9, <2>10 DEF IsSuffix, IsPrefix, p, q, r
<1> QED BY <1>1, <1>3, <1>4, <1>5 DEF StretchOf

(* The entries of a key in a stretch of the node.                          *)
PaysStretch(nd, A, a, b, B) ==
  \E m \in Nat :
    /\ StretchOf(PaysAlong(nd, B), PaysAlong(nd, A), m)
    /\ (\A x \in A : a <= x) => m = 0
    /\ (\A x \in A : x < b) => m + Len(PaysAlong(nd, B)) = Len(PaysAlong(nd, A))

LEMMA StretchPays ==
  ASSUME NEW nd, NodeOK(nd), NEW A, A \subseteq Filled(nd), NEW a \in Int, NEW b \in Int,
         NEW B, B = A \cap (a..b-1)
  PROVE  PaysStretch(nd, A, a, b, B)
<1> DEFINE n == Cardinality(A)
           g == InOrder(A)
           was == PaysAlong(nd, A)
           is == PaysAlong(nd, B)
<1>1. /\ A \subseteq Int /\ IsFiniteSet(A) /\ n \in Nat
      /\ was \in Seq(Payloads) /\ Len(was) = n
      /\ \A i \in 1..n : was[i] = nd.pay[g[i]]
  BY PaysFacts
<1>2. B \subseteq Filled(nd)
  OBVIOUS
<1>3. /\ is \in Seq(Payloads) /\ Len(is) = Cardinality(B)
      /\ \A i \in 1..Cardinality(B) : is[i] = nd.pay[InOrder(B)[i]]
  BY <1>2, PaysFacts
<1>4. A \subseteq Int /\ IsFiniteSet(A) /\ a \in Int /\ b \in Int /\ B = A \cap (a..b-1)
  BY <1>1
<1>5. PICK m \in 0..n, c \in 0..n :
        /\ m + c <= n /\ Cardinality(B) = c /\ n \in Nat
        /\ InOrder(B) = [j \in 1..c |-> g[m + j]]
        /\ (\A x \in A : a <= x) => m = 0
        /\ (\A x \in A : x < b) => m + c = n
  <2>1. InStretch(A, a, b, B)
    BY ONLY <1>4, InOrderStretch
  <2> QED BY <2>1 DEF InStretch
<1> HIDE DEF n, g, was, is
<1>6. m \in Nat /\ c \in Nat /\ Len(is) = c /\ m + c <= Len(was)
  BY <1>1, <1>3, <1>5
<1>7. \A j \in 1..c : is[j] = was[m + j]
  <2> TAKE j \in 1..c
  <2>1. m + j \in 1..n
    BY <1>5, <1>6
  <2>2. InOrder(B)[j] = g[m + j]
    <3>1. InOrder(B) = [x \in 1..c |-> g[m + x]]
      BY <1>5
    <3> QED BY ONLY <3>1, j \in 1..c
  <2>3. j \in 1..Cardinality(B)
    <3>1. Cardinality(B) = c
      BY <1>5
    <3> QED BY ONLY <3>1, j \in 1..c
  <2>4. is[j] = nd.pay[InOrder(B)[j]]
    BY <1>3, <2>3
  <2>5. was[m + j] = nd.pay[g[m + j]]
    BY <1>1, <2>1
  <2> QED BY ONLY <2>2, <2>4, <2>5
<1>8. StretchOf(is, was, m)
  BY <1>1, <1>3, <1>6, <1>7, StretchIsSubSeq
<1>9. (\A x \in A : x < b) => m + Len(is) = Len(was)
  BY <1>1, <1>5, <1>6
<1> QED BY <1>5, <1>6, <1>8, <1>9 DEF was, is, PaysStretch

(* What a layout keeps of the entries of a key.                            *)
KeepsOfKey(is, was, k, low, high) ==
  IF k < low \/ k > high THEN is = <<>>
  ELSE /\ low < k => IsPrefix(is, was)
       /\ k < high => IsSuffix(is, was)
       /\ \E i \in 0..Len(was) - Len(is) : is = SubSeq(was, i + 1, i + Len(is))

LEMMA StretchItems ==
  ASSUME NEW nd, NodeOK(nd), NEW a \in Int, NEW b \in Int,
         NEW S, S = Filled(nd) \cap (a..b-1), NEW new, Keeps(nd, S, new)
  PROVE  \E low, high \in Keys : \A k \in Keys :
           KeepsOfKey(ItemsOf(new)[k], ItemsOf(nd)[k], k, low, high)
<1> DEFINE F == Filled(nd)
           was(k) == ItemsOf(nd)[k]
           is(k) == ItemsOf(new)[k]
<1>1. \A k \in Keys : /\ is(k) = PaysAlong(nd, OfKey(nd, S, k))
                      /\ was(k) = PaysAlong(nd, OfKey(nd, F, k))
  BY KeptItems DEF ItemsOf
<1>2. \A k \in Keys : /\ OfKey(nd, F, k) \subseteq Filled(nd)
                      /\ OfKey(nd, S, k) = OfKey(nd, F, k) \cap (a..b-1)
                      /\ OfKey(nd, S, k) = {} => is(k) = <<>>
  <2>1. PaysAlong(nd, {}) = <<>>
    <3>1. PaysAlong(nd, {}) \in Seq(Payloads) /\ Len(PaysAlong(nd, {})) = Cardinality({})
      BY PaysFacts
    <3> QED BY <3>1, FS_EmptySet
  <2> QED BY <1>1, <2>1 DEF OfKey
<1>3. /\ F \subseteq 0..nd.cap-1 /\ F \subseteq Int /\ nd.cap \in Nat
      /\ \A f \in F : nd.key[f] \in Keys /\ nd.key[f] \in Nat
      /\ \A f, g \in F : f < g => nd.key[f] <= nd.key[g]
      /\ \A k \in Keys : k \in Nat
  BY NodeFacts DEF NodeOK, Gapped
<1>4. ASSUME NEW k \in Keys
      PROVE  \E m \in Nat :
               /\ StretchOf(is(k), was(k), m)
               /\ (\A x \in OfKey(nd, F, k) : a <= x) => m = 0
               /\ (\A x \in OfKey(nd, F, k) : x < b) => m + Len(is(k)) = Len(was(k))
  <2> DEFINE A == OfKey(nd, F, k)
             B == OfKey(nd, S, k)
  <2>1. A \subseteq Filled(nd) /\ B = A \cap (a..b-1) /\ a \in Int /\ b \in Int /\ NodeOK(nd)
    BY <1>2
  <2>2. is(k) = PaysAlong(nd, B) /\ was(k) = PaysAlong(nd, A)
    BY <1>1
  <2> HIDE DEF A, B, is, was
  <2>3. PaysStretch(nd, A, a, b, B)
    BY ONLY <2>1, StretchPays
  <2> QED BY <2>2, <2>3 DEF A, PaysStretch
<1> HIDE DEF is, was
<1>5. CASE S = {}
  <2>1. PICK k0 \in Keys : TRUE
    BY KeysAssumption
  <2>2. ASSUME NEW k \in Keys PROVE KeepsOfKey(is(k), was(k), k, k0, k0)
    <3>1. is(k) = <<>>
      BY <1>2, <1>5 DEF OfKey
    <3>2. PICK m \in Nat : StretchOf(is(k), was(k), m)
      BY <1>4
    <3>3. ~ (k < k0 \/ k > k0) => ~ (k0 < k) /\ ~ (k < k0)
      BY <1>3
    <3> QED BY <3>1, <3>2, <3>3 DEF KeepsOfKey, StretchOf
  <2> QED BY <2>2 DEF is, was
<1>6. CASE S # {}
  <2>1. S \subseteq 0..nd.cap-1 /\ 0 \in Int /\ nd.cap - 1 \in Int /\ S \subseteq F
    BY <1>3
  <2> DEFINE f == Min(S)
             l == Max(S)
             low == nd.key[f]
             high == nd.key[l]
  <2>2. f \in S /\ l \in S /\ \A x \in S : f <= x /\ x <= l
    BY <1>6, <2>1, MinOfInterval, MaxOfInterval
  <2> HIDE DEF f, l
  <2>3. low \in Keys /\ high \in Keys /\ f \in F /\ l \in F
    BY <1>3, <2>1, <2>2
  <2>4. \A x \in F : x \in Int /\ a \in Int /\ b \in Int /\ (x \in S <=> a <= x /\ x < b)
    BY <1>3
  <2>5. \A x \in F : x < f => nd.key[x] <= low
    BY <1>3, <2>3
  <2>6. \A x \in F : l < x => high <= nd.key[x]
    BY <1>3, <2>3
  <2>7. \A x \in F : x > f => low <= nd.key[x]
    BY <1>3, <2>3, <2>4
  <2>8. \A x \in F : x < l => nd.key[x] <= high
    BY <1>3, <2>3
  <2>9. ASSUME NEW k \in Keys PROVE KeepsOfKey(is(k), was(k), k, low, high)
    <3> DEFINE A == OfKey(nd, F, k)
    <3>0. /\ k \in Nat /\ low \in Nat /\ high \in Nat /\ A \subseteq F
          /\ \A x \in A : nd.key[x] = k
      BY <1>3, <2>3 DEF OfKey
    <3>1. PICK m \in Nat :
            /\ StretchOf(is(k), was(k), m)
            /\ (\A x \in A : a <= x) => m = 0
            /\ (\A x \in A : x < b) => m + Len(is(k)) = Len(was(k))
      BY <1>4
    <3> HIDE DEF A
    <3>2. ASSUME k < low \/ k > high PROVE is(k) = <<>>
      <4>1. ASSUME NEW x \in S, nd.key[x] = k PROVE FALSE
        <5>1. x \in F /\ f <= x /\ x <= l /\ x \in Int /\ f \in Int /\ l \in Int
          BY <2>1, <2>2, <2>3, <2>4
        <5>2. low <= nd.key[x]
          <6>1. x = f \/ x > f
            BY <5>1
          <6> QED BY <2>7, <3>0, <4>1, <5>1, <6>1
        <5>3. nd.key[x] <= high
          <6>1. x = l \/ x < l
            BY <5>1
          <6> QED BY <2>8, <3>0, <4>1, <5>1, <6>1
        <5> QED BY <3>0, <3>2, <4>1, <5>2, <5>3
      <4>2. OfKey(nd, S, k) = {}
        BY <4>1 DEF OfKey
      <4> QED BY <1>2, <4>2
    <3>3. ASSUME low < k PROVE IsPrefix(is(k), was(k))
      <4>1. ASSUME NEW x \in A PROVE a <= x
        <5>1. ~ (x < f)
          BY <2>5, <3>0, <3>3
        <5> QED BY <2>2, <2>3, <2>4, <3>0, <5>1
      <4> QED BY <3>1, <4>1 DEF StretchOf
    <3>4. ASSUME k < high PROVE IsSuffix(is(k), was(k))
      <4>1. ASSUME NEW x \in A PROVE x < b
        <5>1. ~ (l < x)
          BY <2>6, <3>0, <3>4
        <5> QED BY <2>2, <2>3, <2>4, <3>0, <5>1
      <4> QED BY <3>1, <4>1 DEF StretchOf
    <3>5. \E i \in 0..Len(was(k)) - Len(is(k)) : is(k) = SubSeq(was(k), i + 1, i + Len(is(k)))
      BY <3>1 DEF StretchOf
    <3> HIDE DEF low, high
    <3> QED BY <3>2, <3>3, <3>4, <3>5 DEF KeepsOfKey
  <2> HIDE DEF low, high
  <2> QED BY <2>3, <2>9 DEF is, was
<1> QED BY <1>5, <1>6

-----------------------------------------------------------------------------
(* Every step of the node is a step of the multimap.                       *)
LEMMA ItemsAre == Items = ItemsOf(node) /\ Items' = ItemsOf(node')
<1>1. Items = ItemsOf(node)
  BY DEF Items, ItemsOf, PaysAlong, OfKey
<1>2. Items' = ItemsOf(node')
  BY DEF Items, ItemsOf, PaysAlong, OfKey
<1> QED BY <1>1, <1>2

LEMMA RefusedStep ==
  ASSUME Inv, InsertRefused
  PROVE  Multimap!Refuse
<1>1. node' = node /\ ret' \in {"insert"} \X (1..3)
  BY DEF InsertRefused
<1>2. Items' = Items
  BY <1>1, ItemsAre
<1> QED BY <1>1, <1>2 DEF Multimap!Refuse, Multimap!Refusals

LEMMA InsertedStep ==
  ASSUME Inv, NEW k \in Keys, NEW p \in Payloads, Insert(k, p)
  PROVE  Multimap!Insert(k, p)
<1>1. PICK nd : /\ Keeps(node, Filled(node), nd) /\ nd.num = node.num
                /\ Receives(nd, k, p, node')
  BY InsertStep
<1>2. NodeOK(node) /\ NodeOK(nd)
  BY <1>1 DEF Inv, Keeps
<1>3. ItemsOf(nd) = ItemsOf(node)
  BY <1>1, <1>2, WholeKept
<1>4. ItemsOf(node') = [ItemsOf(nd) EXCEPT ![k] = Append(@, p)]
  BY <1>1, <1>2, ReceivedItems
<1>5. ret' = <<"insert", 0>>
  BY DEF Insert
<1>6. Items' = [Items EXCEPT ![k] = Append(@, p)]
  BY <1>3, <1>4, ItemsAre
<1> QED BY <1>5, <1>6 DEF Multimap!Insert

LEMMA ErasedOneStep ==
  ASSUME EndIsSafe, Inv, NEW k \in Keys, EraseOne(k)
  PROVE  Multimap!EraseOne(k)
<1>1. NodeOK(node)
  BY DEF Inv
<1>2. CASE ret' = <<"erase_one", 0>> /\ node' = node /\ \A x \in Filled(node) : node.key[x] # k
  <2>1. OfKey(node, Filled(node), k) = {}
    BY <1>2 DEF OfKey
  <2>2. Items[k] \in Seq(Payloads) /\ Len(Items[k]) = 0
    BY <1>1, <2>1, ItemFacts, FS_EmptySet, ItemsAre
  <2>3. Items[k] = <<>> /\ Items' = Items
    BY <1>2, <2>2, ItemsAre
  <2> QED BY <1>2, <2>3 DEF Multimap!EraseOne
<1>3. ASSUME ret' = <<"erase_one", 1>>, NEW pos \in Filled(node), node.key[pos] = k,
             Keeps(node, Filled(node) \ {pos}, node'),
             \A x \in Filled(node) : node.key[x] = k => pos <= x
      PROVE  Multimap!EraseOne(k)
  <2>1. OneItemLess(node, k, pos, node')
    BY <1>1, <1>3, RemovedItems
  <2>2. /\ Items' = [Items EXCEPT ![k] = Tail(@)]
        /\ \E i \in 1..Len(Items[k]) : TRUE
    BY <1>3, <2>1, ItemsAre DEF OneItemLess
  <2>3. Items[k] # <<>>
    BY <2>2
  <2> QED BY <1>3, <2>2, <2>3 DEF Multimap!EraseOne
<1>4. \/ ret' = <<"erase_one", 0>> /\ node' = node
         /\ \A x \in Filled(node) : node.key[x] # k
      \/ ret' = <<"erase_one", 1>>
         /\ \E pos \in Filled(node) :
              /\ node.key[pos] = k /\ Keeps(node, Filled(node) \ {pos}, node')
              /\ \A x \in Filled(node) : node.key[x] = k => pos <= x
  BY EraseOneStep
<1> QED BY <1>2, <1>3, <1>4

LEMMA ErasedAtStep ==
  ASSUME Inv, NEW pos \in Filled(node), EraseAt(pos)
  PROVE  \E k \in Keys : \E i \in DOMAIN Items[k] : Multimap!EraseEntry(k, i)
<1> DEFINE k == node.key[pos]
<1>1. NodeOK(node) /\ k \in Keys
  BY DEF Inv, NodeOK, Gapped
<1>2. node' \in Contractions(EraseOneAt(node, pos)) /\ ret' = <<"erase_at", 1>>
  BY DEF EraseAt
<1>3. Keeps(node, Filled(node) \ {pos}, node')
  BY <1>1, <1>2, EraseOneAtStep
<1>4. OneItemLess(node, k, pos, node')
  BY <1>1, <1>3, RemovedItems
<1> HIDE DEF k
<1>5. PICK i \in 1..Len(Items[k]) : Items' = [Items EXCEPT ![k] = RemoveAt(@, i)]
  BY <1>4, ItemsAre DEF OneItemLess
<1>6. i \in DOMAIN Items[k]
  <2>1. Items[k] \in Seq(Payloads)
    BY <1>1, ItemFacts, ItemsAre
  <2> QED BY <1>5, <2>1
<1>7. Multimap!EraseEntry(k, i)
  BY <1>2, <1>5 DEF Multimap!EraseEntry, RemoveAt, Multimap!RemoveAt
<1> QED BY <1>1, <1>6, <1>7

LEMMA ErasedKeysStep ==
  ASSUME Inv, NEW gone \in SUBSET Keys,
         \A j, k \in gone : {i \in Keys : j <= i /\ i <= k} \subseteq gone,
         Keeps(node, Filled(node) \ WithKeyIn(node, gone), node'),
         ret' = <<"erase", Cardinality(WithKeyIn(node, gone))>>
  PROVE  Multimap!EraseKeys(gone)
<1>1. NodeOK(node)
  BY DEF Inv
<1>2. Items' = [k \in Keys |-> IF k \in gone THEN <<>> ELSE Items[k]]
  BY <1>1, ErasedItems, ItemsAre
<1>3. TotalOf(Items, gone) = Cardinality(WithKeyIn(node, gone))
  BY <1>1, ErasedCount, ItemsAre
<1>4. Multimap!MapThenSumSet(LAMBDA k : Len(Items[k]), gone) = TotalOf(Items, gone)
  BY DEF TotalOf, Summing, Taken, Multimap!MapThenSumSet, Multimap!MapThenFoldSet
<1>5. ret' = <<"erase", Multimap!MapThenSumSet(LAMBDA k : Len(Items[k]), gone)>>
  BY <1>3, <1>4
<1> QED BY <1>2, <1>5 DEF Multimap!EraseKeys

LEMMA LaidOutStep ==
  ASSUME Inv, NEW a \in Int, NEW b \in Int,
         NEW S, S = Filled(node) \cap (a..b-1), Keeps(node, S, node'),
         ret' = <<"layout", 0>>
  PROVE  Multimap!Keep
<1>1. NodeOK(node)
  BY DEF Inv
<1>2. \E low, high \in Keys : \A k \in Keys : KeepsOfKey(Items'[k], Items[k], k, low, high)
  BY <1>1, StretchItems, ItemsAre
<1> QED
  BY <1>2 DEF Multimap!Keep, KeepsOfKey, IsPrefix, Multimap!IsPrefix, IsSuffix, Multimap!IsSuffix,
              Reverse, Multimap!Reverse

LEMMA MultimapInit == Init => Multimap!Init
<1> SUFFICES ASSUME Init PROVE Multimap!Init
  OBVIOUS
<1>1. NodeOK(node)
  BY InitInv DEF Inv
<1>2. Items \in [Keys -> Seq(Payloads)]
  BY <1>1, ItemsType, ItemsAre
<1>3. ret = <<"layout", 0>>
  BY DEF Init
<1> QED BY <1>2, <1>3 DEF Multimap!Init

LEMMA MultimapNext ==
  ASSUME EndIsSafe, Inv, [Next]_vars
  PROVE  Multimap!Next \/ UNCHANGED <<Items, ret>>
<1>1. /\ NodeOK(node) /\ Filled(node) \subseteq 0..node.cap-1 /\ node.cap \in Nat
      /\ \A f \in Filled(node) : node.key[f] \in Keys
      /\ \A k \in Keys : k \in Nat
  BY NodeFacts DEF Inv, NodeOK, Gapped
<1>2. CASE InsertRefused
  BY <1>2, RefusedStep DEF Multimap!Next
<1>3. ASSUME NEW k \in Keys, NEW p \in Payloads, Insert(k, p) PROVE Multimap!Next
  BY <1>3, InsertedStep DEF Multimap!Next
<1>4. ASSUME NEW k \in Keys, EraseOne(k) PROVE Multimap!Next
  BY <1>4, ErasedOneStep DEF Multimap!Next
<1>5. ASSUME NEW k \in Keys, Erase(k) PROVE Multimap!Next
  <2> DEFINE gone == {k}
             S == WithKeyIn(node, gone)
  <2>1. S = {s \in Filled(node) : node.key[s] = k}
    BY DEF WithKeyIn
  <2>2. gone \in SUBSET Keys /\ \A i, j \in gone : {x \in Keys : i <= x /\ x <= j} \subseteq gone
    <3>1. \A x \in Keys : k <= x /\ x <= k => x = k
      BY <1>1
    <3> QED BY <3>1
  <2> HIDE DEF S, gone
  <2>3. Keeps(node, Filled(node) \ S, node') /\ ret' = <<"erase", Cardinality(S)>>
    BY <1>5, <2>1, EraseStep
  <2>4. Multimap!EraseKeys(gone)
    BY <2>2, <2>3, ErasedKeysStep DEF S
  <2> QED BY <2>2, <2>4 DEF Multimap!Next
<1>6. ASSUME NEW pos \in Filled(node), EraseAt(pos) PROVE Multimap!Next
  BY <1>6, ErasedAtStep DEF Multimap!Next
<1>7. ASSUME NEW start \in Keys, NEW end \in Keys, NEW inclusive \in BOOLEAN,
             EraseRange(start, end, inclusive)
      PROVE  Multimap!Next
  <2> DEFINE InRange(x) == start <= x /\ IF inclusive THEN x <= end ELSE x < end
             gone == {x \in Keys : InRange(x)}
             S == WithKeyIn(node, gone)
  <2>1. S = {s \in Filled(node) :
               /\ start <= node.key[s]
               /\ IF inclusive THEN node.key[s] <= end ELSE node.key[s] < end}
    BY <1>1 DEF WithKeyIn
  <2>2. gone \in SUBSET Keys /\ \A i, j \in gone : {x \in Keys : i <= x /\ x <= j} \subseteq gone
    <3>1. ASSUME NEW i \in Keys, NEW j \in Keys, NEW x \in Keys, i <= x, x <= j, InRange(i), InRange(j)
          PROVE  InRange(x)
      <4>1. start \in Nat /\ end \in Nat /\ i \in Nat /\ j \in Nat /\ x \in Nat
        BY <1>1
      <4>2. start <= x
        BY <3>1, <4>1
      <4>3. inclusive => x <= end
        BY <3>1, <4>1
      <4>4. ~ inclusive => x < end
        BY <3>1, <4>1
      <4> QED BY <4>2, <4>3, <4>4
    <3> HIDE DEF InRange
    <3> QED BY <3>1
  <2> HIDE DEF S, gone
  <2>3. Keeps(node, Filled(node) \ S, node') /\ ret' = <<"erase", Cardinality(S)>>
    BY <1>7, <2>1, EraseRangeStep
  <2>4. Multimap!EraseKeys(gone)
    BY <2>2, <2>3, ErasedKeysStep DEF S
  <2> QED BY <2>2, <2>4 DEF Multimap!Next
<1>8. CASE Retrain
  <2>1. node' \in Resized(node, 6) /\ ret' = <<"layout", 0>> /\ 6 \in Nat \ {0}
    BY <1>8 DEF Retrain
  <2> DEFINE S == Filled(node)
             cap == node.cap
  <2>2. S = S \cap (0..cap-1) /\ 0 \in Int /\ cap \in Int
    BY <1>1
  <2>3. Keeps(node, S, node')
    BY <1>1, <2>1, ResizedOK
  <2>4. S = Filled(node) \cap (0..cap-1)
    BY <2>2
  <2> HIDE DEF S, cap
  <2>5. Multimap!Keep
    BY ONLY <2>1, <2>2, <2>3, <2>4, LaidOutStep, Inv
  <2> QED BY <2>5 DEF Multimap!Next
<1>9. CASE Extract
  <2>1. PICK left \in 0..node.cap, right \in 0..node.cap :
          node' \in Loads(EntriesIn(node, left, right), 6)
    BY <1>9 DEF Extract
  <2>2. left \in Int /\ right \in Int /\ 6 \in Nat \ {0} /\ ret' = <<"layout", 0>>
    BY <1>9 DEF Extract
  <2> DEFINE S == Filled(node) \cap (left..right-1)
  <2>3. S = Filled(node) \cap (left..right-1) /\ NodeOK(node)
    BY <1>1
  <2> HIDE DEF S
  <2>4. Keeps(node, S, node')
    BY ONLY <2>1, <2>2, <2>3, LoadsOK
  <2>5. Multimap!Keep
    BY ONLY <2>2, <2>3, <2>4, LaidOutStep, Inv
  <2> QED BY <2>5 DEF Multimap!Next
<1>10. CASE UNCHANGED vars
  BY <1>10, ItemsAre DEF vars
<1> QED BY <1>2, <1>3, <1>4, <1>5, <1>6, <1>7, <1>8, <1>9, <1>10 DEF Next

(* The gapped array is a sorted multimap that keeps the order in which     *)
(* equal keys came: no insertion, shift, layout, contraction, split or     *)
(* erasure loses, doubles or reorders an entry, and a refused insert       *)
(* changes nothing.                                                        *)
THEOREM MultimapImplemented == Spec => ([]EndIsSafe => ImplementsMultimap)
<1>1. EndIsSafe /\ Inv /\ [Next]_vars => [Multimap!Next]_<<Items, ret>>
  BY MultimapNext
<1> QED BY <1>1, MultimapInit, InvHolds, PTL DEF Spec, ImplementsMultimap, Multimap!Spec
=============================================================================
