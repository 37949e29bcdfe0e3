----------------------------- MODULE Recursion -----------------------------
(***************************************************************************)
(* What the proofs about recursive functions rest on: every set of         *)
(* naturals that is not empty has a least element.  From it, induction     *)
(* over a set of naturals, and the functions that recursive definitions    *)
(* and the folds of the community modules name.                            *)
(* Then facts of no module in particular: the ranks of a strict order, the *)
(* height of a point above a line, sequences cut into consecutive parts.   *)
(***************************************************************************)
EXTENDS Integers, SequencesExt, FiniteSetTheorems,
        WellFoundedInduction, TLAPS

(* The least number principle.                                             *)
LEMMA LeastNat ==
  ASSUME NEW T, T \subseteq Nat, T # {}
  PROVE  \E x \in T : \A y \in T : x <= y
<1> DEFINE R == OpToRel(<, Nat)
<1>1. PICK x \in T : \A y \in T : ~ (<<y, x>> \in R)
  BY NatLessThanWellFounded, WFMin
<1>2. \A y \in T : y < x => <<y, x>> \in R
  BY DEF OpToRel
<1>3. \A y \in T : ~ (y < x)
  <2> HIDE DEF R
  <2> QED BY <1>1, <1>2
<1>4. x \in Nat /\ \A y \in T : y \in Nat
  OBVIOUS
<1> QED BY <1>3, <1>4

(* Induction over the naturals: T is the set of those with the property.   *)
LEMMA Induction ==
  ASSUME NEW T, 0 \in T, \A m \in Nat : m \in T => m + 1 \in T
  PROVE  Nat \subseteq T
<1>1. SUFFICES ASSUME Nat \ T # {} PROVE FALSE
  OBVIOUS
<1>2. PICK m \in Nat \ T : \A y \in Nat \ T : m <= y
  BY <1>1, LeastNat
<1>3. m - 1 \in Nat /\ m - 1 \in T
  BY <1>2
<1> QED BY <1>2, <1>3

(* Strong induction.                                                       *)
LEMMA StrongInduction ==
  ASSUME NEW T, \A m \in Nat : (\A x \in 0..m-1 : x \in T) => m \in T
  PROVE  Nat \subseteq T
<1>1. SUFFICES ASSUME Nat \ T # {} PROVE FALSE
  OBVIOUS
<1>2. PICK m \in Nat \ T : \A y \in Nat \ T : m <= y
  BY <1>1, LeastNat
<1> QED BY <1>2

(* Induction over the integers from lo to hi.                              *)
LEMMA IntervalInduction ==
  ASSUME NEW lo \in Int, NEW hi \in Int, NEW T, lo \in T,
         \A i \in lo+1..hi : i - 1 \in T => i \in T
  PROVE  lo..hi \subseteq T
<1> DEFINE U == {m \in Nat : lo + m <= hi => lo + m \in T}
<1>1. 0 \in U
  OBVIOUS
<1>2. ASSUME NEW m \in Nat, m \in U PROVE m + 1 \in U
  <2>1. SUFFICES ASSUME lo + (m + 1) <= hi PROVE lo + (m + 1) \in T
    OBVIOUS
  <2>2. lo + m \in T /\ (lo + (m + 1)) - 1 = lo + m /\ lo + (m + 1) \in lo+1..hi
    BY <1>2, <2>1
  <2> QED BY <2>2
<1>3. \A m \in Nat : m \in U
  <2>1. \A m \in Nat : m \in U => m + 1 \in U
    BY <1>2
  <2> HIDE DEF U
  <2> QED BY ONLY <1>1, <2>1, Induction
<1>4. \A i \in lo..hi : i - lo \in Nat /\ lo + (i - lo) = i
  OBVIOUS
<1> QED BY <1>3, <1>4

(* f starts at a and goes on by the steps F.                               *)
Follows(f, F, a, lo, hi) ==
  f[lo] = a /\ \A i \in lo+1..hi : f[i] = F[<<f[i-1], i>>]

(* Steps on values of V have a function that follows them.                 *)
LEMMA Iteration ==
  ASSUME NEW V, NEW a \in V, NEW lo \in Int, NEW hi \in Int, lo <= hi,
         NEW S, S = lo+1..hi, NEW F \in [V \X S -> V]
  PROVE  \E f \in [lo..hi -> V] : Follows(f, F, a, lo, hi)
<1> DEFINE P(m) == \E f \in [lo..m -> V] : Follows(f, F, a, lo, m)
           T == {m \in lo..hi : P(m)}
<1>1. lo \in T
  <2> DEFINE f == [i \in lo..lo |-> a]
  <2>1. f \in [lo..lo -> V] /\ f[lo] = a /\ lo+1..lo = {}
    OBVIOUS
  <2> HIDE DEF f
  <2>2. Follows(f, F, a, lo, lo)
    BY <2>1 DEF Follows
  <2> QED BY <2>1, <2>2
<1>2. ASSUME NEW m \in lo+1..hi, m - 1 \in T PROVE m \in T
  <2>1. PICK f \in [lo..m-1 -> V] : Follows(f, F, a, lo, m-1)
    BY <1>2
  <2> DEFINE g == [i \in lo..m |-> IF i = m THEN F[<<f[m-1], m>>] ELSE f[i]]
  <2>2. m - 1 \in lo..m-1 /\ F[<<f[m-1], m>>] \in V
    OBVIOUS
  <2>3. g \in [lo..m -> V]
    BY <2>2
  <2>4. g[m] = F[<<f[m-1], m>>] /\ \A i \in lo..m-1 : g[i] = f[i]
    OBVIOUS
  <2> HIDE DEF g
  <2>5. g[lo] = a /\ \A i \in lo+1..m-1 : g[i] = F[<<g[i-1], i>>]
    BY <2>1, <2>4 DEF Follows
  <2>6. g[m] = F[<<g[m-1], m>>]
    BY <2>2, <2>4
  <2>7. \A i \in lo+1..m : i = m \/ i \in lo+1..m-1
    OBVIOUS
  <2>8. \A i \in lo+1..m : g[i] = F[<<g[i-1], i>>]
    BY <2>5, <2>6, <2>7
  <2>9. Follows(g, F, a, lo, m)
    BY <2>5, <2>8 DEF Follows
  <2> QED BY <2>3, <2>9
<1>3. hi \in lo..hi
  OBVIOUS
<1>4. hi \in T
  <2> HIDE DEF T
  <2> QED BY <1>1, <1>2, <1>3, IntervalInduction
<1> QED BY <1>4

-----------------------------------------------------------------------------
(* Products and quotients.                                                 *)
LEMMA Multiply ==
  /\ \A x, y \in Int : \A z \in Nat : x <= y => x * z <= y * z
  /\ \A x, y \in Int : \A z \in Nat \ {0} : x * z <= y * z => x <= y
  /\ \A x, y \in Int : \A z \in Nat \ {0} : x * z < y * z => x < y
OBVIOUS

LEMMA Products ==
  /\ \A x, y \in Int : x * y \in Int /\ x * y = y * x
  /\ \A x, y \in Nat \ {0} : x * y \in Nat \ {0}
  /\ \A x, y, z \in Int : (x * y) * z = x * (y * z)
  /\ \A x, y, z \in Int : (x + y) * z = x * z + y * z
OBVIOUS

LEMMA Division ==
  ASSUME NEW x \in Int, NEW d \in Nat \ {0}
  PROVE  /\ x \div d \in Int /\ x % d \in Int
         /\ (x \div d) * d <= x /\ x < (x \div d + 1) * d
OBVIOUS

LEMMA DivisionBetween ==
  ASSUME NEW x \in Int, NEW d \in Nat \ {0}, NEW a \in Int, NEW b \in Int,
         a * d <= x, x <= b * d
  PROVE  a <= x \div d /\ x \div d <= b
<1> DEFINE q == x \div d
<1>1. q \in Int /\ q * d <= x /\ x < (q + 1) * d
  BY Division
<1>2. q * d \in Int /\ (q + 1) * d \in Int /\ a * d \in Int /\ b * d \in Int
  BY <1>1, Products
<1> HIDE DEF q
<1>3. q * d <= b * d /\ a * d < (q + 1) * d
  BY <1>1, <1>2
<1>4. q <= b /\ a < q + 1
  BY <1>1, <1>3, Multiply
<1> QED BY <1>1, <1>4 DEF q

-----------------------------------------------------------------------------
(* Largest and smallest element of a finite set of integers.               *)
LEMMA MaxOfInterval ==
  ASSUME NEW lo \in Int, NEW hi \in Int, NEW S, S \subseteq lo..hi, S # {}
  PROVE  Max(S) \in S /\ \A y \in S : y <= Max(S)
<1> DEFINE T == {m \in Nat : hi - m \in S}
<1>1. T \subseteq Nat /\ T # {}
  <2>1. PICK x \in S : TRUE
    OBVIOUS
  <2>2. hi - x \in Nat /\ hi - (hi - x) = x
    BY <2>1
  <2> QED BY <2>2
<1>2. PICK m \in T : \A y \in T : m <= y
  <2> HIDE DEF T
  <2> QED BY <1>1, LeastNat
<1>3. hi - m \in S /\ m \in Nat
  BY <1>2
<1>4. ASSUME NEW y \in S PROVE hi - m >= y
  <2>1. y \in Int /\ hi - y \in Nat /\ hi - (hi - y) = y
    OBVIOUS
  <2>2. m <= hi - y
    BY <1>2, <2>1
  <2> QED BY <1>3, <2>1, <2>2
<1>5. \E x \in S : \A y \in S : x >= y
  BY <1>3, <1>4
<1>6. Max(S) \in S /\ \A y \in S : Max(S) >= y
  BY <1>5 DEF Max
<1> QED BY <1>6

LEMMA MinOfInterval ==
  ASSUME NEW lo \in Int, NEW hi \in Int, NEW S, S \subseteq lo..hi, S # {}
  PROVE  Min(S) \in S /\ \A y \in S : Min(S) <= y
<1> DEFINE T == {m \in Nat : lo + m \in S}
<1>1. T \subseteq Nat /\ T # {}
  <2>1. PICK x \in S : TRUE
    OBVIOUS
  <2>2. x - lo \in Nat /\ lo + (x - lo) = x
    BY <2>1
  <2> QED BY <2>2
<1>2. PICK m \in T : \A y \in T : m <= y
  <2> HIDE DEF T
  <2> QED BY <1>1, LeastNat
<1>3. lo + m \in S /\ m \in Nat
  BY <1>2
<1>4. ASSUME NEW y \in S PROVE lo + m <= y
  <2>1. y \in Int /\ y - lo \in Nat /\ lo + (y - lo) = y
    OBVIOUS
  <2>2. m <= y - lo
    BY <1>2, <2>1
  <2> QED BY <1>3, <2>1, <2>2
<1>5. \E x \in S : \A y \in S : x <= y
  BY <1>3, <1>4
<1> QED BY <1>5 DEF Min

(* Of two numbers.                                                         *)
LEMMA MaxOfTwo ==
  ASSUME NEW a \in Int, NEW b \in Int
  PROVE  Max({a, b}) = IF a >= b THEN a ELSE b
<1>1. PICK lo \in Int, hi \in Int : {a, b} \subseteq lo..hi
  <2>1. CASE a <= b
    BY <2>1
  <2>2. CASE b <= a
    BY <2>2
  <2> QED BY <2>1, <2>2
<1>2. Max({a, b}) \in {a, b} /\ \A y \in {a, b} : y <= Max({a, b})
  BY <1>1, MaxOfInterval
<1> QED BY <1>2

LEMMA MinOfTwo ==
  ASSUME NEW a \in Int, NEW b \in Int
  PROVE  Min({a, b}) = IF a <= b THEN a ELSE b
<1>1. PICK lo \in Int, hi \in Int : {a, b} \subseteq lo..hi
  <2>1. CASE a <= b
    BY <2>1
  <2>2. CASE b <= a
    BY <2>2
  <2> QED BY <2>1, <2>2
<1>2. Min({a, b}) \in {a, b} /\ \A y \in {a, b} : Min({a, b}) <= y
  BY <1>1, MinOfInterval
<1> QED BY <1>2

-----------------------------------------------------------------------------
(* The element a fold takes next, and a function of the sums of f over the *)
(* subsets of S as MapThenSumSet() computes them.                          *)
Taken(s) == CHOOSE x \in s : TRUE

IsSum(sum, f, S) ==
  \A s \in SUBSET S :
    sum[s] = IF s = {} THEN 0 ELSE f[Taken(s)] + sum[s \ {Taken(s)}]

LEMMA TakenIsMember == ASSUME NEW s, s # {} PROVE Taken(s) \in s
BY DEF Taken

LEMMA OneFewer ==
  ASSUME NEW s, IsFiniteSet(s), s # {}
  PROVE  /\ IsFiniteSet(s \ {Taken(s)})
         /\ Cardinality(s) \in Nat \ {0}
         /\ Cardinality(s \ {Taken(s)}) = Cardinality(s) - 1
<1>1. Taken(s) \in s
  BY TakenIsMember
<1> QED BY <1>1, FS_RemoveElement, FS_CardinalityType, FS_EmptySet

LEMMA SumExists ==
  ASSUME NEW S, IsFiniteSet(S), NEW f \in [S -> Int]
  PROVE  \E sum \in [SUBSET S -> Int] : IsSum(sum, f, S)
<1> DEFINE Small(m) == {s \in SUBSET S : Cardinality(s) <= m}
           Holds(h, m) == \A s \in Small(m) :
             h[s] = IF s = {} THEN 0 ELSE f[Taken(s)] + h[s \ {Taken(s)}]
           T == {m \in Nat : \E h \in [SUBSET S -> Int] : Holds(h, m)}
<1>1. \A s \in SUBSET S : IsFiniteSet(s) /\ Cardinality(s) \in Nat
  BY FS_Subset, FS_CardinalityType
<1>2. 0 \in T
  <2> DEFINE h == [s \in SUBSET S |-> 0]
  <2>1. \A s \in Small(0) : s = {}
    BY <1>1, FS_EmptySet
  <2>2. h \in [SUBSET S -> Int] /\ h[{}] = 0
    OBVIOUS
  <2> HIDE DEF h
  <2>3. Holds(h, 0)
    BY <2>1, <2>2
  <2> QED BY <2>2, <2>3
<1>3. ASSUME NEW m \in Nat, m \in T PROVE m + 1 \in T
  <2>1. PICK h \in [SUBSET S -> Int] : Holds(h, m)
    BY <1>3
  <2> DEFINE value(s) == IF s = {} THEN 0 ELSE f[Taken(s)] + h[s \ {Taken(s)}]
             g == [s \in SUBSET S |-> value(s)]
  <2>2. \A s \in SUBSET S : value(s) \in Int
    BY TakenIsMember
  <2>3. g \in [SUBSET S -> Int] /\ \A s \in SUBSET S : g[s] = value(s)
    <3> HIDE DEF value
    <3> QED BY <2>2
  <2> HIDE DEF g
  <2>4. \A s \in Small(m) : g[s] = h[s]
    BY <2>1, <2>3
  <2>5. ASSUME NEW s \in Small(m + 1), s # {} PROVE s \ {Taken(s)} \in Small(m)
    BY <1>1, <2>5, OneFewer
  <2>6. Holds(g, m + 1)
    BY <2>3, <2>4, <2>5
  <2> HIDE DEF Holds
  <2> QED BY <2>3, <2>6
<1>4. \A m \in Nat : m \in T
  <2> HIDE DEF T
  <2> QED BY <1>2, <1>3, Induction
<1>5. Cardinality(S) \in Nat /\ Cardinality(S) \in T
  BY <1>4, FS_CardinalityType
<1>6. \A s \in SUBSET S : s \in Small(Cardinality(S))
  BY FS_Subset
<1> QED BY <1>5, <1>6 DEF IsSum

(* A sum of n numbers between a and b lies between a * n and b * n, and is *)
(* larger than a * n if one of them is larger than a.                      *)
LEMMA SumBounded ==
  ASSUME NEW S, IsFiniteSet(S), NEW f \in [S -> Int], NEW a \in Int, NEW b \in Int,
         \A x \in S : a <= f[x] /\ f[x] <= b,
         NEW sum, IsSum(sum, f, S)
  PROVE  /\ sum[S] \in Int
         /\ a * Cardinality(S) <= sum[S] /\ sum[S] <= b * Cardinality(S)
         /\ (\E x \in S : f[x] > a) => sum[S] > a * Cardinality(S)
<1> DEFINE Good(s) == /\ sum[s] \in Int
                      /\ a * Cardinality(s) <= sum[s]
                      /\ sum[s] <= b * Cardinality(s)
                      /\ (\E x \in s : f[x] > a) => sum[s] > a * Cardinality(s)
           T == {m \in Nat : \A s \in SUBSET S : Cardinality(s) = m => Good(s)}
<1>1. \A s \in SUBSET S : IsFiniteSet(s) /\ Cardinality(s) \in Nat
  BY FS_Subset, FS_CardinalityType
<1>2. 0 \in T
  <2>1. ASSUME NEW s \in SUBSET S, Cardinality(s) = 0 PROVE Good(s)
    <3>1. s = {}
      BY <1>1, <2>1, FS_EmptySet
    <3>2. sum[s] = 0
      BY <3>1 DEF IsSum
    <3> QED BY <2>1, <3>1, <3>2
  <2> QED BY <2>1
<1>3. ASSUME NEW m \in Nat, m \in T PROVE m + 1 \in T
  <2>1. ASSUME NEW s \in SUBSET S, Cardinality(s) = m + 1 PROVE Good(s)
    <3> DEFINE x0 == Taken(s)
               r == s \ {x0}
    <3>1. s # {}
      BY <2>1, FS_EmptySet
    <3>2. r \in SUBSET S /\ Cardinality(r) = m /\ x0 \in S /\ x0 \in s
      BY <1>1, <2>1, <3>1, OneFewer, TakenIsMember
    <3>3. sum[s] = f[x0] + sum[r]
      BY <3>1 DEF IsSum
    <3>4. Good(r)
      BY <1>3, <3>2
    <3>5. /\ b * (m + 1) = b * m + b /\ b * m \in Int
          /\ a * (m + 1) = a * m + a /\ a * m \in Int
      OBVIOUS
    <3>6. f[x0] \in Int /\ a <= f[x0] /\ f[x0] <= b
      BY <3>2
    <3>7. ASSUME NEW x \in s, f[x] > a PROVE f[x0] > a \/ sum[r] > a * m
      <4>1. CASE x = x0
        BY <3>7, <4>1
      <4>2. CASE x # x0
        BY <3>2, <3>4, <3>7, <4>2
      <4> QED BY <4>1, <4>2
    <3> HIDE DEF r, x0
    <3> QED BY <2>1, <3>2, <3>3, <3>4, <3>5, <3>6, <3>7
  <2> QED BY <2>1
<1>4. \A m \in Nat : m \in T
  <2> HIDE DEF T
  <2> QED BY <1>2, <1>3, Induction
<1> QED BY <1>1, <1>4

-----------------------------------------------------------------------------
(* FlattenSeq() concatenates piece after piece.                            *)
LEMMA Flattening ==
  ASSUME NEW A, NEW pieces \in Seq(Seq(A)), Len(pieces) >= 1
  PROVE  \E flat \in [1..Len(pieces) -> Seq(A)] :
           /\ FlattenSeq(pieces) = flat[Len(pieces)]
           /\ flat[1] = pieces[1]
           /\ \A i \in 2..Len(pieces) : flat[i] = flat[i-1] \o pieces[i]
<1> DEFINE n == Len(pieces)
           Cat(v, i) == v \o pieces[i]
           F == [p \in Seq(A) \X (2..n) |-> Cat(p[1], p[2])]
           Equation(g) == g = [i \in 1..n |-> IF i = 1 THEN pieces[i] ELSE Cat(g[i-1], i)]
           flat == CHOOSE g : Equation(g)
<1>1. n \in Nat /\ n >= 1 /\ \A i \in 1..n : pieces[i] \in Seq(A)
  OBVIOUS
<1>2. \A v \in Seq(A) : \A i \in 2..n : Cat(v, i) \in Seq(A)
  BY <1>1
<1>3. FlattenSeq(pieces) = flat[n]
  BY <1>1 DEF FlattenSeq
<1> HIDE DEF Cat, n
<1>4. F \in [Seq(A) \X (2..n) -> Seq(A)]
  BY <1>2
<1>5. PICK f \in [1..n -> Seq(A)] : Follows(f, F, pieces[1], 1, n)
  <2>1. n \in Int /\ 1 \in Int /\ 1 <= n /\ 2..n = 1+1..n /\ pieces[1] \in Seq(A)
    BY <1>1
  <2> HIDE DEF F
  <2> QED BY ONLY <1>4, <2>1, Iteration
<1>6. f[1] = pieces[1] /\ \A i \in 2..n : f[i] = Cat(f[i-1], i)
  <2>1. \A i \in 2..n : f[i-1] \in Seq(A)
    BY <1>1
  <2>2. \A i \in 2..n : F[<<f[i-1], i>>] = Cat(f[i-1], i)
    BY <2>1
  <2>3. f[1] = pieces[1] /\ \A i \in 2..n : f[i] = F[<<f[i-1], i>>]
    <3>1. 1+1..n = 2..n
      OBVIOUS
    <3> HIDE DEF F
    <3> QED BY <1>5, <3>1 DEF Follows
  <2> HIDE DEF F
  <2> QED BY <2>2, <2>3
<1>7. Equation(f)
  <2>1. \A i \in 1..n : i = 1 \/ i \in 2..n
    BY <1>1
  <2>2. \A i \in 1..n : f[i] = IF i = 1 THEN pieces[i] ELSE Cat(f[i-1], i)
    BY <1>6, <2>1
  <2> QED BY <2>2
<1>8. Equation(flat)
  <2> HIDE DEF Equation
  <2> QED BY <1>7
<1> HIDE DEF flat
<1>9. /\ DOMAIN flat = 1..n /\ flat[1] = pieces[1]
      /\ \A i \in 2..n : flat[i] = Cat(flat[i-1], i)
  BY <1>1, <1>8
<1> DEFINE T == {i \in 1..n : flat[i] \in Seq(A)}
<1>10. 1 \in T
  BY <1>1, <1>9
<1>11. ASSUME NEW i \in 1+1..n, i - 1 \in T PROVE i \in T
  BY <1>1, <1>2, <1>9, <1>11
<1>12. 1..n \subseteq T
  <2>1. 1 \in Int /\ n \in Int
    BY <1>1
  <2> HIDE DEF T
  <2> QED BY ONLY <1>10, <1>11, <2>1, IntervalInduction
<1>13. flat \in [1..n -> Seq(A)]
  BY <1>8, <1>12
<1> QED BY <1>3, <1>9, <1>13 DEF Cat, n

-----------------------------------------------------------------------------
(* A strict order B of the elements of S, which gives each the set of      *)
(* those before it; and the elements in that order.                        *)
Linear(B, S) ==
  /\ B \in [S -> SUBSET S]
  /\ \A x \in S : x \notin B[x]
  /\ \A x, y \in S : x \in B[y] => B[x] \subseteq B[y]
  /\ \A x, y \in S : x # y => x \in B[y] \/ y \in B[x]

Ranked(at, B, S) ==
  /\ at \in [1..Cardinality(S) -> S]
  /\ \A i, j \in 1..Cardinality(S) : i < j => at[i] \in B[at[j]] /\ at[i] # at[j]
  /\ \A x \in S : \E i \in 1..Cardinality(S) : at[i] = x

LEMMA RankBelow ==
  ASSUME NEW S, IsFiniteSet(S), NEW B, Linear(B, S), NEW x \in S
  PROVE  Cardinality(B[x]) \in 0..Cardinality(S)-1 /\ IsFiniteSet(B[x])
<1>1. B[x] \subseteq S /\ x \notin B[x]
  BY DEF Linear
<1>2. /\ IsFiniteSet(B[x])
      /\ Cardinality(B[x]) <= Cardinality(S)
      /\ Cardinality(S) = Cardinality(B[x]) => S = B[x]
  BY <1>1, FS_Subset
<1>3. Cardinality(B[x]) \in Nat /\ Cardinality(S) \in Nat
  BY <1>2, FS_CardinalityType
<1> QED BY <1>1, <1>2, <1>3

LEMMA RankSmaller ==
  ASSUME NEW S, IsFiniteSet(S), NEW B, Linear(B, S), NEW x \in S, NEW y \in S, x \in B[y]
  PROVE  Cardinality(B[x]) < Cardinality(B[y])
<1>1. B[x] \subseteq B[y] /\ x \notin B[x]
  BY DEF Linear
<1>2. IsFiniteSet(B[x]) /\ IsFiniteSet(B[y])
  BY RankBelow
<1>3. /\ Cardinality(B[x]) <= Cardinality(B[y])
      /\ Cardinality(B[y]) = Cardinality(B[x]) => B[y] = B[x]
  BY <1>1, <1>2, FS_Subset
<1>4. Cardinality(B[x]) \in Nat /\ Cardinality(B[y]) \in Nat
  BY <1>2, FS_CardinalityType
<1> QED BY <1>1, <1>3, <1>4

LEMMA RankExists ==
  ASSUME NEW S, IsFiniteSet(S), NEW B, Linear(B, S), NEW i \in 1..Cardinality(S)
  PROVE  \E x \in S : Cardinality(B[x]) = i - 1
<1> DEFINE n == Cardinality(S)
           T == 0..n-1
           f == [x \in S |-> Cardinality(B[x])]
<1>1. n \in Nat
  BY FS_CardinalityType
<1>2. f \in [S -> T]
  BY RankBelow
<1>3. \A x, y \in S : x # y => f[x] # f[y]
  <2> TAKE x, y \in S
  <2> HAVE x # y
  <2>1. x \in B[y] \/ y \in B[x]
    BY DEF Linear
  <2>2. x \in B[y] => Cardinality(B[x]) < Cardinality(B[y])
    BY RankSmaller
  <2>3. y \in B[x] => Cardinality(B[y]) < Cardinality(B[x])
    BY RankSmaller
  <2>4. f[x] \in Int /\ f[y] \in Int
    BY <1>1, <1>2
  <2> QED BY <2>1, <2>2, <2>3, <2>4
<1>4. IsFiniteSet(T) /\ Cardinality(T) = n
  <2> HIDE DEF n
  <2>1. 0 \in Int /\ n - 1 \in Int /\ (0 > n - 1 => n = 0) /\ n - 1 - 0 + 1 = n
    BY <1>1
  <2> QED BY <2>1, FS_Interval
<1>5. i - 1 \in T
  BY <1>1
<1> HIDE DEF f, T
<1>6. f \in Injection(S, T)
  BY <1>2, <1>3 DEF Injection, IsInjective
<1>7. f \in Surjection(S, T)
  BY <1>4, <1>6, FS_Injection
<1>8. PICK x \in S : f[x] = i - 1
  BY <1>5, <1>7 DEF Surjection
<1> QED BY <1>8 DEF f

LEMMA Ranking ==
  ASSUME NEW S, IsFiniteSet(S), NEW B, Linear(B, S),
         NEW at \in [1..Cardinality(S) -> S],
         \A i \in 1..Cardinality(S) : Cardinality(B[at[i]]) = i - 1
  PROVE  Ranked(at, B, S)
<1> DEFINE n == Cardinality(S)
<1>1. n \in Nat
  BY FS_CardinalityType
<1>2. \A i \in 1..n : at[i] \in S /\ Cardinality(B[at[i]]) = i - 1
  OBVIOUS
<1> HIDE DEF n
<1>3. at \in [1..n -> S]
  BY <1>2 DEF n
<1>4. ASSUME NEW i \in 1..n, NEW j \in 1..n, i < j PROVE at[i] \in B[at[j]] /\ at[i] # at[j]
  <2>1. at[i] # at[j]
    <3>1. Cardinality(B[at[j]]) = j - 1 /\ Cardinality(B[at[i]]) = i - 1
      BY <1>2
    <3>2. j - 1 # i - 1
      BY <1>1, <1>4
    <3> QED BY <3>1, <3>2
  <2>2. at[j] \notin B[at[i]]
    <3>1. at[j] \in B[at[i]] => Cardinality(B[at[j]]) < Cardinality(B[at[i]])
      BY <1>2, RankSmaller
    <3>2. Cardinality(B[at[j]]) = j - 1 /\ Cardinality(B[at[i]]) = i - 1
      BY <1>2
    <3> QED BY <1>4, <3>1, <3>2
  <2> QED BY <1>2, <2>1, <2>2 DEF Linear
<1>5. ASSUME NEW x \in S PROVE \E i \in 1..n : at[i] = x
  <2>1. PICK r \in 0..n-1 : r = Cardinality(B[x])
    BY RankBelow DEF n
  <2>2. r + 1 \in 1..n /\ (r + 1) - 1 = r
    BY <1>1, <2>1
  <2>3. PICK y \in S : y = at[r + 1] /\ Cardinality(B[y]) = r
    BY <1>2, <2>2
  <2>4. x \notin B[y] /\ y \notin B[x]
    <3>1. x \in B[y] => Cardinality(B[x]) < Cardinality(B[y])
      BY RankSmaller
    <3>2. y \in B[x] => Cardinality(B[y]) < Cardinality(B[x])
      BY RankSmaller
    <3> QED BY <2>1, <2>3, <3>1, <3>2
  <2>5. x = y
    BY <2>4 DEF Linear
  <2> QED BY <2>2, <2>3, <2>5
<1> QED BY <1>3, <1>4, <1>5 DEF Ranked, n

-----------------------------------------------------------------------------
(* Points and slopes of a segmentation.  How far p lies above the line     *)
(* through q of slope s is measured in units of 1 / s.dx.                  *)
Plane == [x : Int, y : Int]
Slopes == [dx : Nat \ {0}, dy : Int]
Rise(p, q, s) == (p.y - q.y) * s.dx - s.dy * (p.x - q.x)

LEMMA SlopeTypes ==
  ASSUME NEW s \in Slopes PROVE s.dx \in Nat \ {0} /\ s.dx \in Int /\ s.dy \in Int
BY DEF Slopes

LEMMA PlaneTypes ==
  ASSUME NEW p \in Plane PROVE p.x \in Int /\ p.y \in Int
BY DEF Plane

LEMMA RiseType ==
  ASSUME NEW p \in Plane, NEW q \in Plane, NEW s \in Slopes
  PROVE  Rise(p, q, s) \in Int
<1>1. p.y - q.y \in Int /\ p.x - q.x \in Int /\ s.dx \in Int /\ s.dy \in Int
  BY PlaneTypes, SlopeTypes
<1>2. (p.y - q.y) * s.dx \in Int /\ s.dy * (p.x - q.x) \in Int
  BY <1>1, Products
<1> QED BY <1>2 DEF Rise

(* A line can be measured from any of its points.                          *)
LEMMA RiseSum ==
  ASSUME NEW p \in Plane, NEW q \in Plane, NEW o \in Plane, NEW s \in Slopes
  PROVE  Rise(p, o, s) = Rise(p, q, s) + Rise(q, o, s)
<1> DEFINE a == p.x  b == p.y  c == q.x  d == q.y  e == o.x  f == o.y
           u == s.dx  v == s.dy
<1>1. /\ a \in Int /\ b \in Int /\ c \in Int /\ d \in Int /\ e \in Int /\ f \in Int
      /\ u \in Int /\ v \in Int
  BY PlaneTypes, SlopeTypes
<1> HIDE DEF a, b, c, d, e, f, u, v
<1>2. (b - f) * u - v * (a - e)
        = ((b - d) * u - v * (a - c)) + ((d - f) * u - v * (c - e))
  BY ONLY <1>1
<1> QED BY <1>2 DEF Rise, a, b, c, d, e, f, u, v

LEMMA RiseSelf ==
  ASSUME NEW p \in Plane, NEW s \in Slopes
  PROVE  Rise(p, p, s) = 0
<1>1. p.y - p.y = 0 /\ p.x - p.x = 0 /\ s.dx \in Int /\ s.dy \in Int
  BY PlaneTypes, SlopeTypes
<1>2. 0 * s.dx = 0 /\ s.dy * 0 = 0
  BY <1>1
<1> QED BY <1>1, <1>2 DEF Rise

LEMMA RiseBack ==
  ASSUME NEW p \in Plane, NEW q \in Plane, NEW s \in Slopes
  PROVE  Rise(p, q, s) = -Rise(q, p, s)
<1>1. Rise(p, p, s) = Rise(p, q, s) + Rise(q, p, s)
  BY RiseSum
<1> QED BY <1>1, RiseSelf, RiseType

(* s is at most as steep as t.                                             *)
NoSteeper(s, t) == s.dy * t.dx <= t.dy * s.dx

LEMMA SlopesTransitive ==
  ASSUME NEW s \in Slopes, NEW t \in Slopes, NEW u \in Slopes,
         NoSteeper(s, t), NoSteeper(t, u)
  PROVE  NoSteeper(s, u)
<1> DEFINE a == s.dx  b == s.dy  c == t.dx  d == t.dy  e == u.dx  f == u.dy
<1>1. /\ a \in Nat \ {0} /\ c \in Nat \ {0} /\ e \in Nat \ {0}
      /\ b \in Int /\ d \in Int /\ f \in Int
  BY SlopeTypes
<1>2. b * c <= d * a /\ d * e <= f * c
  BY DEF NoSteeper
<1> HIDE DEF a, b, c, d, e, f
<1>3. /\ b * c \in Int /\ d * a \in Int /\ d * e \in Int /\ f * c \in Int
      /\ b * e \in Int /\ f * a \in Int
  BY ONLY <1>1, Products
<1>4. (b * c) * e <= (d * a) * e /\ (d * e) * a <= (f * c) * a
  BY ONLY <1>1, <1>2, <1>3, Multiply
<1>5. /\ (b * c) * e = (b * e) * c /\ (d * a) * e = (d * e) * a
      /\ (f * c) * a = (f * a) * c
  BY ONLY <1>1
<1>6. (b * e) * c <= (f * a) * c
  <2>1. (b * c) * e \in Int /\ (d * a) * e \in Int /\ (f * c) * a \in Int
    BY ONLY <1>1, <1>3, Products
  <2> QED BY ONLY <1>4, <1>5, <2>1
<1>7. b * e <= f * a
  BY ONLY <1>1, <1>3, <1>6, Multiply
<1> QED BY <1>7 DEF NoSteeper, a, b, e, f

(* A point right of q lies higher above a line through q that is less      *)
(* steep; a point left of q, above one that is steeper.                    *)
LEMMA RiseFlatter ==
  ASSUME NEW p \in Plane, NEW q \in Plane, NEW s \in Slopes, NEW t \in Slopes,
         \/ NoSteeper(s, t) /\ q.x <= p.x
         \/ NoSteeper(t, s) /\ p.x <= q.x
  PROVE  /\ Rise(p, q, t) >= 0 => Rise(p, q, s) >= 0
         /\ Rise(p, q, s) <= 0 => Rise(p, q, t) <= 0
<1> DEFINE a == s.dx  b == s.dy  c == t.dx  d == t.dy
           x == p.x - q.x
           y == p.y - q.y
<1>1. /\ a \in Nat \ {0} /\ c \in Nat \ {0} /\ b \in Int /\ d \in Int
      /\ x \in Int /\ y \in Int
  BY SlopeTypes, PlaneTypes
<1>2. (b * c <= d * a /\ x >= 0) \/ (d * a <= b * c /\ x <= 0)
  BY PlaneTypes DEF NoSteeper
<1>3. Rise(p, q, s) = y * a - b * x /\ Rise(p, q, t) = y * c - d * x
  BY DEF Rise
<1> HIDE DEF a, b, c, d, x, y
<1>4. b * c \in Int /\ d * a \in Int
  BY ONLY <1>1, Products
<1>5. (b * c) * x <= (d * a) * x
  <2>1. CASE x \in Nat /\ b * c <= d * a
    BY ONLY <1>4, <2>1, Multiply
  <2>2. CASE -x \in Nat /\ d * a <= b * c
    <3>1. (d * a) * (-x) <= (b * c) * (-x)
      BY ONLY <1>4, <2>2, Multiply
    <3>2. (d * a) * (-x) = -((d * a) * x) /\ (b * c) * (-x) = -((b * c) * x)
      BY ONLY <1>1, <1>4
    <3>3. (d * a) * x \in Int /\ (b * c) * x \in Int
      BY ONLY <1>1, <1>4, Products
    <3> QED BY ONLY <3>1, <3>2, <3>3
  <2> QED BY ONLY <1>1, <1>2, <2>1, <2>2
<1> DEFINE r == y * a - b * x
           w == y * c - d * x
<1>6. r \in Int /\ w \in Int
  <2>1. y * a \in Int /\ b * x \in Int /\ y * c \in Int /\ d * x \in Int
    BY ONLY <1>1, Products
  <2> QED BY <2>1
<1>7. r * c - w * a = (d * a) * x - (b * c) * x
  BY ONLY <1>1
<1>8. w * a <= r * c
  <2>1. r * c \in Int /\ w * a \in Int /\ (d * a) * x \in Int /\ (b * c) * x \in Int
    BY <1>1, <1>4, <1>6, Products
  <2> HIDE DEF r, w
  <2> QED BY ONLY <1>5, <1>7, <2>1
<1> HIDE DEF r, w
<1>9. w >= 0 => r >= 0
  <2>1. SUFFICES ASSUME w >= 0 PROVE r >= 0
    OBVIOUS
  <2>2. 0 * a <= w * a
    BY ONLY <1>1, <1>6, <2>1, Multiply
  <2>3. 0 * c <= r * c
    <3>1. 0 * a = 0 /\ 0 * c = 0 /\ w * a \in Int /\ r * c \in Int
      BY ONLY <1>1, <1>6, Products
    <3> QED BY ONLY <1>8, <2>2, <3>1
  <2>4. 0 <= r
    BY ONLY <1>1, <1>6, <2>3, Multiply
  <2> QED BY <1>6, <2>4
<1>10. r <= 0 => w <= 0
  <2>1. SUFFICES ASSUME r <= 0 PROVE w <= 0
    OBVIOUS
  <2>2. r * c <= 0 * c
    BY ONLY <1>1, <1>6, <2>1, Multiply
  <2>3. w * a <= 0 * a
    <3>1. 0 * a = 0 /\ 0 * c = 0 /\ w * a \in Int /\ r * c \in Int
      BY ONLY <1>1, <1>6, Products
    <3> QED BY ONLY <1>8, <2>2, <3>1
  <2> QED BY ONLY <1>1, <1>6, <2>3, Multiply
<1> QED BY <1>3, <1>9, <1>10 DEF r, w

(* The same for both sides of a line: how far p lies above it for g = 1,   *)
(* and below it for g = -1; and which of two slopes falls away from there. *)
Sides == {1, -1}
Beyond(g, p, q, s) == IF g = 1 THEN Rise(p, q, s) ELSE -Rise(p, q, s)
Flatter(g, s, t) == IF g = 1 THEN NoSteeper(s, t) ELSE NoSteeper(t, s)

LEMMA OtherSide ==
  ASSUME NEW g \in Sides
  PROVE  /\ -g \in Sides /\ -(-g) = g
         /\ \A p \in Plane, q \in Plane, s \in Slopes : Beyond(-g, p, q, s) = -Beyond(g, p, q, s)
         /\ \A s, t : Flatter(-g, s, t) <=> Flatter(g, t, s)
<1>1. (g = 1 /\ -g = -1 /\ -(-g) = 1) \/ (g = -1 /\ -g = 1 /\ -(-g) = -1)
  BY DEF Sides
<1>2. -g \in Sides /\ -(-g) = g
  BY <1>1 DEF Sides
<1>3. ASSUME NEW p \in Plane, NEW q \in Plane, NEW s \in Slopes
      PROVE  Beyond(-g, p, q, s) = -Beyond(g, p, q, s)
  <2> DEFINE r == Rise(p, q, s)
  <2>1. r \in Int /\ -(-r) = r
    BY RiseType
  <2>2. Beyond(-g, p, q, s) = (IF -g = 1 THEN r ELSE -r) /\ Beyond(g, p, q, s) = IF g = 1 THEN r ELSE -r
    BY DEF Beyond
  <2> HIDE DEF r
  <2> QED BY <1>1, <2>1, <2>2
<1>4. ASSUME NEW s, NEW t PROVE Flatter(-g, s, t) <=> Flatter(g, t, s)
  BY <1>1 DEF Flatter
<1> QED BY <1>2, <1>3, <1>4

LEMMA BeyondFacts ==
  ASSUME NEW g \in Sides, NEW p \in Plane, NEW q \in Plane, NEW s \in Slopes
  PROVE  /\ Beyond(g, p, q, s) \in Int
         /\ Beyond(g, p, p, s) = 0
         /\ Beyond(g, q, p, s) \in Int
         /\ Beyond(g, p, q, s) = 0 - Beyond(g, q, p, s)
<1>1. Rise(p, q, s) \in Int /\ Rise(q, p, s) \in Int /\ Rise(p, q, s) = -Rise(q, p, s) /\ Rise(p, p, s) = 0
  BY RiseType, RiseSelf, RiseBack
<1>2. g = 1 \/ g = -1
  BY DEF Sides
<1>3. CASE g = 1
  BY <1>1, <1>3 DEF Beyond
<1>4. CASE g = -1
  <2>1. /\ Beyond(g, p, q, s) = -Rise(p, q, s) /\ Beyond(g, q, p, s) = -Rise(q, p, s)
        /\ Beyond(g, p, p, s) = -Rise(p, p, s)
    BY <1>4 DEF Beyond
  <2>2. -Rise(p, p, s) = 0
    <3>1. Rise(p, p, s) = -Rise(p, p, s)
      BY RiseBack
    <3> QED BY <1>1, <3>1
  <2> QED BY <1>1, <2>1, <2>2
<1> QED BY <1>2, <1>3, <1>4

LEMMA BeyondSum ==
  ASSUME NEW g \in Sides, NEW p \in Plane, NEW q \in Plane, NEW o \in Plane, NEW s \in Slopes
  PROVE  Beyond(g, p, o, s) = Beyond(g, p, q, s) + Beyond(g, q, o, s)
<1>1. Rise(p, o, s) = Rise(p, q, s) + Rise(q, o, s)
  BY RiseSum
<1>2. Rise(p, q, s) \in Int /\ Rise(q, o, s) \in Int
  BY RiseType
<1> QED BY <1>1, <1>2 DEF Beyond

-----------------------------------------------------------------------------
(* The points pts up to i, cut into segments: the s-th begins at b[s].     *)
Divided(b, seen, pts, i) ==
  /\ b[1] = 1
  /\ \A s \in 1..Len(seen) :
       /\ b[s] \in Nat \ {0} /\ Len(seen[s]) \in Nat \ {0}
       /\ \A j \in 1..Len(seen[s]) : seen[s][j] = pts[b[s] + j - 1]
  /\ \A s \in 1..Len(seen)-1 : b[s + 1] = b[s] + Len(seen[s])
  /\ b[Len(seen)] + Len(seen[Len(seen)]) = i + 1

LEMMA DividedLonger ==
  ASSUME NEW pts, NEW i \in Nat, NEW b, NEW seen, Divided(b, seen, pts, i),
         NEW n \in Nat, n = Len(seen), n >= 1,
         NEW q, Len(q) = n, \A s \in 1..n : s # n => q[s] = seen[s],
         Len(q[n]) = Len(seen[n]) + 1, \A j \in 1..Len(seen[n]) : q[n][j] = seen[n][j],
         q[n][Len(seen[n]) + 1] = pts[i + 1]
  PROVE  Divided(b, q, pts, i + 1)
<1> DEFINE m == Len(seen[n])
<1>1. n \in 1..n /\ b[1] = 1 /\ b[n] \in Nat \ {0} /\ m \in Nat \ {0} /\ b[n] + m = i + 1
  BY DEF Divided
<1>2. \A s \in 1..n : /\ b[s] \in Nat \ {0} /\ Len(seen[s]) \in Nat \ {0}
                      /\ \A j \in 1..Len(seen[s]) : seen[s][j] = pts[b[s] + j - 1]
  BY DEF Divided
<1>3. \A s \in 1..n-1 : b[s + 1] = b[s] + Len(seen[s])
  BY DEF Divided
<1> HIDE DEF m
<1>4. Len(q[n]) = m + 1
  BY DEF m
<1>5. \A j \in 1..m+1 : q[n][j] = pts[b[n] + j - 1]
  <2> TAKE j \in 1..m+1
  <2>1. CASE j = m + 1
    <3>1. b[n] + (m + 1) - 1 = i + 1
      BY <1>1
    <3> QED BY <2>1, <3>1 DEF m
  <2>2. CASE j # m + 1
    <3>1. j \in 1..m
      BY <1>1, <2>2
    <3> QED BY <1>1, <1>2, <3>1 DEF m
  <2> QED BY <2>1, <2>2
<1>6. ASSUME NEW s \in 1..n
      PROVE  /\ b[s] \in Nat \ {0} /\ Len(q[s]) \in Nat \ {0}
             /\ \A j \in 1..Len(q[s]) : q[s][j] = pts[b[s] + j - 1]
  <2>1. CASE s = n
    BY <1>1, <1>4, <1>5, <2>1
  <2>2. CASE s # n
    BY <1>2, <2>2
  <2> QED BY <2>1, <2>2
<1>7. ASSUME NEW s \in 1..n-1 PROVE b[s + 1] = b[s] + Len(q[s])
  <2>1. s \in 1..n /\ s # n
    OBVIOUS
  <2> QED BY <1>3, <2>1
<1>8. b[n] + Len(q[n]) = (i + 1) + 1
  BY <1>1, <1>4
<1> QED BY <1>1, <1>6, <1>7, <1>8 DEF Divided

LEMMA DividedOnceMore ==
  ASSUME NEW pts, NEW i \in Nat, NEW b, NEW seen, Divided(b, seen, pts, i),
         NEW n \in Nat, n = Len(seen), n >= 1,
         NEW q, Len(q) = n + 1, \A s \in 1..n : q[s] = seen[s],
         Len(q[n + 1]) = 1, q[n + 1][1] = pts[i + 1]
  PROVE  \E c : Divided(c, q, pts, i + 1)
<1> DEFINE c == [s \in 1..n+1 |-> IF s = n + 1 THEN i + 1 ELSE b[s]]
<1>1. c[n + 1] = i + 1 /\ \A s \in 1..n : c[s] = b[s]
  OBVIOUS
<1> HIDE DEF c
<1>2. n \in 1..n /\ b[1] = 1 /\ b[n] + Len(seen[n]) = i + 1
  BY DEF Divided
<1>3. \A s \in 1..n : /\ b[s] \in Nat \ {0} /\ Len(seen[s]) \in Nat \ {0}
                      /\ \A j \in 1..Len(seen[s]) : seen[s][j] = pts[b[s] + j - 1]
  BY DEF Divided
<1>4. \A s \in 1..n-1 : b[s + 1] = b[s] + Len(seen[s])
  BY DEF Divided
<1>5. ASSUME NEW s \in 1..n+1
      PROVE  /\ c[s] \in Nat \ {0} /\ Len(q[s]) \in Nat \ {0}
             /\ \A j \in 1..Len(q[s]) : q[s][j] = pts[c[s] + j - 1]
  <2>1. CASE s = n + 1
    <3>1. (i + 1) + 1 - 1 = i + 1 /\ i + 1 \in Nat \ {0}
      OBVIOUS
    <3>2. \A j \in 1..1 : j = 1
      OBVIOUS
    <3> QED BY <1>1, <2>1, <3>1, <3>2
  <2>2. CASE s # n + 1
    <3>1. s \in 1..n
      BY <2>2
    <3>2. q[s] = seen[s] /\ c[s] = b[s]
      BY <1>1, <3>1
    <3> QED BY <1>3, <3>1, <3>2
  <2> QED BY <2>1, <2>2
<1>6. ASSUME NEW s \in 1..n PROVE c[s + 1] = c[s] + Len(q[s])
  <2>1. CASE s = n
    BY <1>1, <1>2, <2>1
  <2>2. CASE s # n
    <3>1. s \in 1..n-1 /\ s + 1 \in 1..n
      BY <2>2
    <3> QED BY <1>1, <1>4, <3>1
  <2> QED BY <2>1, <2>2
<1>7. c[1] = 1
  <2>1. 1 \in 1..n
    OBVIOUS
  <2> QED BY <1>1, <1>2, <2>1
<1>8. c[n + 1] + Len(q[n + 1]) = (i + 1) + 1
  BY <1>1
<1>9. (n + 1) - 1 = n
  OBVIOUS
<1>10. Divided(c, q, pts, i + 1)
  BY <1>5, <1>6, <1>7, <1>8, <1>9 DEF Divided
<1> QED BY <1>10

(* The segments of a sequence of points, one after the other.              *)
Blocks(b, seen, pts, m) ==
  /\ b[1] = 1 /\ b[Len(seen)] + Len(seen[Len(seen)]) = m + 1
  /\ \A s \in 1..Len(seen) :
       /\ b[s] \in 1..m /\ Len(seen[s]) \in Nat \ {0}
       /\ b[s] + Len(seen[s]) <= m + 1
       /\ \A j \in 1..Len(seen[s]) : seen[s][j] = pts[(b[s] + j) - 1]
  /\ \A s \in 1..Len(seen)-1 : b[s + 1] = b[s] + Len(seen[s])
  /\ \A i, j \in 1..Len(seen) : i < j => b[i] < b[j]

LEMMA DividedFacts ==
  ASSUME NEW m \in Nat, NEW pts, NEW b, NEW seen, NEW n \in Nat \ {0}, n = Len(seen),
         Divided(b, seen, pts, m)
  PROVE  Blocks(b, seen, pts, m)
<1>1. /\ b[1] = 1 /\ b[n] + Len(seen[n]) = m + 1
      /\ \A s \in 1..n : /\ b[s] \in Nat \ {0} /\ Len(seen[s]) \in Nat \ {0}
                         /\ \A j \in 1..Len(seen[s]) : seen[s][j] = pts[b[s] + j - 1]
      /\ \A s \in 1..n-1 : b[s + 1] = b[s] + Len(seen[s])
  BY DEF Divided
<1>2. ASSUME NEW i \in 1..n PROVE \A j \in i+1..n : b[i] < b[j]
  <2> DEFINE T == {j \in 1..n : j = i \/ b[i] < b[j]}
  <2>1. i \in T
    OBVIOUS
  <2>2. ASSUME NEW j \in i+1..n, j - 1 \in T PROVE j \in T
    <3>1. j \in 1..n /\ j - 1 \in 1..n-1 /\ j - 1 \in 1..n /\ (j - 1) + 1 = j
      OBVIOUS
    <3>2. b[j] = b[j - 1] + Len(seen[j - 1]) /\ Len(seen[j - 1]) \in Nat \ {0}
      BY <1>1, <3>1
    <3>3. b[i] \in Nat /\ b[j - 1] \in Nat /\ b[j] \in Nat
      BY <1>1, <3>1
    <3>4. b[i] <= b[j - 1]
      BY <2>2, <3>3
    <3> QED BY <3>1, <3>2, <3>3, <3>4
  <2>3. i \in Int /\ n \in Int
    OBVIOUS
  <2> HIDE DEF T
  <2>4. i..n \subseteq T
    BY ONLY <2>1, <2>2, <2>3, IntervalInduction
  <2> QED
    <3> TAKE j \in i+1..n
    <3>1. j \in i..n /\ j # i
      OBVIOUS
    <3> QED BY <2>4, <3>1 DEF T
<1>3. \A i, j \in 1..n : i < j => b[i] < b[j]
  <2> TAKE i, j \in 1..n
  <2> HAVE i < j
  <2>1. j \in i+1..n
    OBVIOUS
  <2> QED BY <1>2, <2>1
<1>4. ASSUME NEW s \in 1..n PROVE b[s] + Len(seen[s]) <= m + 1
  <2>1. CASE s = n
    BY <1>1, <2>1
  <2>2. CASE s # n
    <3>1. s \in 1..n-1 /\ s + 1 \in 1..n /\ n \in 1..n /\ (s + 1 = n \/ s + 1 < n)
      BY <2>2
    <3>2. b[s + 1] \in Nat /\ b[n] \in Nat /\ Len(seen[n]) \in Nat \ {0}
      BY <1>1, <3>1
    <3>3. b[s + 1] <= b[n]
      BY <1>3, <3>1, <3>2
    <3> QED BY <1>1, <3>1, <3>2, <3>3
  <2> QED BY <2>1, <2>2
<1>5. ASSUME NEW s \in 1..n
      PROVE  /\ b[s] \in 1..m
             /\ \A j \in 1..Len(seen[s]) : seen[s][j] = pts[(b[s] + j) - 1]
  <2>1. b[s] \in Nat \ {0} /\ Len(seen[s]) \in Nat \ {0} /\ b[s] + Len(seen[s]) <= m + 1
    BY <1>1, <1>4
  <2>2. \A j \in 1..Len(seen[s]) : b[s] + j - 1 = (b[s] + j) - 1
    BY <2>1
  <2> QED BY <1>1, <2>1, <2>2
<1> QED BY <1>1, <1>3, <1>4, <1>5 DEF Blocks
=============================================================================
