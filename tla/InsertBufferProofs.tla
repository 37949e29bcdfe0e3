------------------------- MODULE InsertBufferProofs -------------------------
(***************************************************************************)
(* Proofs about InsertBuffer, for every set of keys, buffer capacity,      *)
(* flush ratio and bound.                                                  *)
(***************************************************************************)
EXTENDS InsertBuffer, FiniteSetTheorems, SequenceTheorems, TLAPS

-----------------------------------------------------------------------------
(* A rearrangement of a sequence has its length and its elements.          *)
LEMMA ReorderingFacts ==
  ASSUME NEW S, NEW s \in Seq(S), NEW t \in Reorderings(s)
  PROVE  t \in Seq(S) /\ Len(t) = Len(s) /\ Range(t) = Range(s)
<1>1. PICK p \in Bijection(DOMAIN s, DOMAIN s) : t = [i \in DOMAIN s |-> s[p[i]]]
  BY DEF Reorderings
<1>2. p \in [DOMAIN s -> DOMAIN s] /\ \A j \in DOMAIN s : \E i \in DOMAIN s : p[i] = j
  BY <1>1 DEF Bijection, Injection, Surjection
<1>3. DOMAIN s = 1..Len(s) /\ Len(s) \in Nat /\ \A i \in DOMAIN s : s[i] \in S
  BY LenProperties, ElementOfSeq
<1>4. t \in Seq(S) /\ Len(t) = Len(s) /\ DOMAIN t = DOMAIN s
  BY <1>1, <1>2, <1>3
<1>5. Range(t) = Range(s)
  BY <1>1, <1>2, <1>4, Zenon DEF Range
<1>. QED  BY <1>4, <1>5

(* Sorting the hot entries keeps, per key, their number and the set of     *)
(* them.                                                                   *)
LEMMA SortedHotFacts ==
  ASSUME hot \in Tier, NEW tmp \in SortedHot
  PROVE  /\ tmp \in Tier
         /\ \A k \in Keys : Len(tmp[k]) = Len(hot[k]) /\ Range(tmp[k]) = Range(hot[k])
<1>1. \A k \in Keys : tmp[k] \in Reorderings(hot[k]) /\ hot[k] \in Seq(Values)
  BY DEF SortedHot, Tier
<1>2. \A k \in Keys : /\ tmp[k] \in Seq(Values)
                      /\ Len(tmp[k]) = Len(hot[k])
                      /\ Range(tmp[k]) = Range(hot[k])
  BY <1>1, ReorderingFacts
<1>3. tmp = [k \in Keys |-> tmp[k]]
  BY DEF SortedHot
<1>. QED  BY <1>2, <1>3 DEF Tier

(* Merging two arrays keeps all entries of both.                           *)
LEMMA MergeFacts ==
  ASSUME NEW first \in Tier, NEW second \in Tier
  PROVE  /\ MergeTiers(first, second) \in Tier
         /\ \A k \in Keys :
              /\ Len(MergeTiers(first, second)[k]) = Len(first[k]) + Len(second[k])
              /\ Range(MergeTiers(first, second)[k]) = Range(first[k]) \cup Range(second[k])
<1>1. \A k \in Keys : first[k] \in Seq(Values) /\ second[k] \in Seq(Values)
  BY DEF Tier
<1>2. \A k \in Keys : /\ first[k] \o second[k] \in Seq(Values)
                      /\ Len(first[k] \o second[k]) = Len(first[k]) + Len(second[k])
  BY <1>1, ConcatProperties
<1>3. \A k \in Keys : Range(first[k] \o second[k]) = Range(first[k]) \cup Range(second[k])
  BY <1>1, RangeConcatenation
<1>. QED  BY <1>2, <1>3 DEF MergeTiers, Tier

-----------------------------------------------------------------------------
(* The number of entries of a key.                                         *)
Count(tier, k) == Len(tier[k])

(* An array has finitely many places.                                      *)
LEMMA PlacesFinite ==
  ASSUME NEW tier \in Tier
  PROVE  IsFiniteSet(Places(tier)) /\ TierSize(tier) \in Nat
<1>. DEFINE Row(k) == {k} \X DOMAIN tier[k]
            rows == [k \in Keys |-> Row(k)]
            R == {Row(k) : k \in Keys}
<1>1. \A k \in Keys : IsFiniteSet(Row(k))
  <2>. TAKE k \in Keys
  <2>1. tier[k] \in Seq(Values)
    BY DEF Tier
  <2>2. DOMAIN tier[k] = 1..Len(tier[k]) /\ Len(tier[k]) \in Nat
    BY <2>1, LenProperties
  <2>3. IsFiniteSet(DOMAIN tier[k])
    BY <2>2, FS_Interval
  <2>. QED  BY <2>3, FS_Singleton, FS_Product
<1>2. rows \in Surjection(Keys, R)
  BY DEF Surjection
<1>3. IsFiniteSet(R)
  BY <1>2, FS_Surjection, KeysAssumption
<1>4. IsFiniteSet(UNION R)
  BY <1>1, <1>3, FS_UNION
<1>. QED  BY <1>4, FS_CardinalityType DEF Places, TierSize

LEMMA PlacesMember ==
  ASSUME NEW tier \in Tier
  PROVE  /\ \A k \in Keys : Count(tier, k) \in Nat
         /\ \A k \in Keys, i \in Nat \ {0} : <<k, i>> \in Places(tier) <=> i <= Count(tier, k)
         /\ \A pl \in Places(tier) : \E k \in Keys, i \in Nat \ {0} :
              pl = <<k, i>> /\ i <= Count(tier, k)
<1>1. \A k \in Keys : DOMAIN tier[k] = 1..Count(tier, k) /\ Count(tier, k) \in Nat
  BY LenProperties DEF Tier, Count
<1>2. \A pl : pl \in Places(tier) <=> \E k \in Keys : \E i \in DOMAIN tier[k] : pl = <<k, i>>
  BY DEF Places
<1>. QED  BY <1>1, <1>2

(* The length of an array depends on the number of entries of each key     *)
(* alone.                                                                  *)
LEMMA SizeByLengths ==
  ASSUME NEW t \in Tier, NEW u \in Tier, \A k \in Keys : Count(t, k) = Count(u, k)
  PROVE  TierSize(t) = TierSize(u)
<1>1. \A pl \in Places(t) : pl \in Places(u)
  BY PlacesMember
<1>2. \A pl \in Places(u) : pl \in Places(t)
  BY PlacesMember
<1>3. Places(t) = Places(u)
  BY <1>1, <1>2
<1>. QED  BY <1>3 DEF TierSize

(* The length of a merge is the sum of the lengths: its places are those   *)
(* of the first array and those of the second, moved up per key.           *)
LEMMA SizeOfSum ==
  ASSUME NEW t \in Tier, NEW f \in Tier, NEW s \in Tier,
         \A k \in Keys : Count(t, k) = Count(f, k) + Count(s, k)
  PROVE  TierSize(t) = TierSize(f) + TierSize(s)
<1>. DEFINE Up(pl) == <<pl[1], pl[2] + Count(f, pl[1])>>
            up == [pl \in Places(s) |-> Up(pl)]
            U == {Up(pl) : pl \in Places(s)}
<1>0. \A k \in Keys : /\ Count(t, k) \in Nat /\ Count(f, k) \in Nat /\ Count(s, k) \in Nat
                      /\ Count(t, k) = Count(f, k) + Count(s, k)
  BY PlacesMember
<1>1. \A pl : pl \in U <=> \E k \in Keys, i \in Nat \ {0} :
                           i <= Count(s, k) /\ pl = <<k, i + Count(f, k)>>
  <2>1. ASSUME NEW pl \in U
        PROVE  \E k \in Keys, i \in Nat \ {0} : i <= Count(s, k) /\ pl = <<k, i + Count(f, k)>>
    <3>1. PICK q \in Places(s) : pl = Up(q)
      OBVIOUS
    <3>2. PICK k \in Keys, i \in Nat \ {0} : q = <<k, i>> /\ i <= Count(s, k)
      BY PlacesMember
    <3>. QED  BY <3>1, <3>2
  <2>2. ASSUME NEW k \in Keys, NEW i \in Nat \ {0}, i <= Count(s, k)
        PROVE  <<k, i + Count(f, k)>> \in U
    <3>1. <<k, i>> \in Places(s)
      BY <2>2, PlacesMember
    <3>2. Up(<<k, i>>) = <<k, i + Count(f, k)>>
      OBVIOUS
    <3>. QED  BY <3>1, <3>2
  <2>. HIDE DEF U
  <2>. QED  BY <2>1, <2>2
<1>2. IsFiniteSet(U) /\ Cardinality(U) = TierSize(s)
  <2>1. up \in Surjection(Places(s), U)
    BY DEF Surjection
  <2>2. ASSUME NEW a \in Places(s), NEW b \in Places(s), Up(a) = Up(b)
        PROVE  a = b
    <3>1. PICK k \in Keys, i \in Nat \ {0} : a = <<k, i>>
      BY PlacesMember
    <3>2. PICK l \in Keys, j \in Nat \ {0} : b = <<l, j>>
      BY PlacesMember
    <3>3. k = l /\ i + Count(f, k) = j + Count(f, k)
      BY <2>2, <3>1, <3>2
    <3>. QED  BY <1>0, <3>1, <3>2, <3>3
  <2>3. up \in Injection(Places(s), U)
    BY <2>2 DEF Injection, IsInjective
  <2>4. ExistsBijection(Places(s), U)
    BY <2>1, <2>3 DEF ExistsBijection, Bijection
  <2>. QED  BY <2>4, PlacesFinite, FS_Bijection DEF TierSize
<1>. HIDE DEF U
<1>3. Places(f) \cap U = {}
  <2>. SUFFICES ASSUME NEW pl \in Places(f), pl \in U
                PROVE  FALSE
    OBVIOUS
  <2>1. PICK k \in Keys, i \in Nat \ {0} : pl = <<k, i>> /\ i <= Count(f, k)
    BY PlacesMember
  <2>2. PICK l \in Keys, j \in Nat \ {0} : pl = <<l, j + Count(f, l)>>
    BY <1>1
  <2>. QED  BY <1>0, <2>1, <2>2
<1>4. Places(f) \cup U = Places(t)
  <2>1. ASSUME NEW pl \in U
        PROVE  pl \in Places(t)
    <3>1. PICK k \in Keys, i \in Nat \ {0} : i <= Count(s, k) /\ pl = <<k, i + Count(f, k)>>
      BY <1>1
    <3>2. i + Count(f, k) \in Nat \ {0} /\ i + Count(f, k) <= Count(t, k)
      BY <1>0, <3>1
    <3>3. <<k, i + Count(f, k)>> \in Places(t)
      BY <3>2, PlacesMember
    <3>. QED  BY <3>1, <3>3
  <2>2. ASSUME NEW pl \in Places(f)
        PROVE  pl \in Places(t)
    <3>1. PICK k \in Keys, i \in Nat \ {0} : pl = <<k, i>> /\ i <= Count(f, k)
      BY PlacesMember
    <3>2. i <= Count(t, k)
      BY <1>0, <3>1
    <3>3. <<k, i>> \in Places(t)
      BY <3>2, PlacesMember
    <3>. QED  BY <3>1, <3>3
  <2>3. ASSUME NEW pl \in Places(t), pl \notin Places(f)
        PROVE  pl \in U
    <3>1. PICK k \in Keys, i \in Nat \ {0} : pl = <<k, i>> /\ i <= Count(t, k)
      BY PlacesMember
    <3>2. i > Count(f, k)
      BY <2>3, <3>1, PlacesMember
    <3>3. i - Count(f, k) \in Nat \ {0} /\ i - Count(f, k) <= Count(s, k)
          /\ i = (i - Count(f, k)) + Count(f, k)
      BY <1>0, <3>1, <3>2
    <3>4. \E j \in Nat \ {0} : j <= Count(s, k) /\ pl = <<k, j + Count(f, k)>>
      BY <3>1, <3>3
    <3>. QED  BY <1>1, <3>4
  <2>. QED  BY <2>1, <2>2, <2>3
<1>5. Cardinality(Places(t)) = Cardinality(Places(f)) + Cardinality(U) - Cardinality({})
  BY <1>2, <1>3, <1>4, PlacesFinite, FS_Union
<1>. QED  BY <1>2, <1>5, PlacesFinite, FS_EmptySet DEF TierSize

(* An empty array has length 0 and an array with one entry length 1; an    *)
(* array of length 0 is empty.                                             *)
LEMMA SmallSizes ==
  /\ NoEntries \in Tier /\ TierSize(NoEntries) = 0
  /\ Range(<<>>) = {} /\ \A k \in Keys : Range(NoEntries[k]) = {}
  /\ \A t \in Tier : TierSize(t) = 0 => \A k \in Keys : t[k] = <<>>
<1>1. NoEntries \in Tier
  BY DEF NoEntries, Tier
<1>2. Places(NoEntries) = {}
  BY DEF Places, NoEntries
<1>3. ASSUME NEW t \in Tier, TierSize(t) = 0, NEW k \in Keys
      PROVE  t[k] = <<>>
  <2>1. Places(t) = {}
    BY <1>3, PlacesFinite, FS_EmptySet DEF TierSize
  <2>2. t[k] \in Seq(Values)
    BY DEF Tier
  <2>3. Len(t[k]) = 0
    <3>1. <<k, 1>> \notin Places(t)
      BY <2>1
    <3>2. ~(1 <= Count(t, k))
      BY <3>1, PlacesMember
    <3>. QED  BY <3>2, PlacesMember DEF Count
  <2>. QED  BY <2>2, <2>3, EmptySeq
<1>4. Range(<<>>) = {} /\ \A k \in Keys : NoEntries[k] = <<>>
  BY DEF Range, NoEntries
<1>. QED  BY <1>1, <1>2, <1>3, <1>4, FS_EmptySet DEF TierSize

(* The array std::merge makes, whole.                                      *)
LEMMA MergedArray ==
  ASSUME NEW first \in Tier, NEW second \in Tier, NEW t, t = MergeTiers(first, second)
  PROVE  /\ t \in Tier
         /\ TierSize(t) = TierSize(first) + TierSize(second)
         /\ \A k \in Keys : Range(t[k]) = Range(first[k]) \cup Range(second[k])
<1>1. t \in Tier /\ \A k \in Keys : Count(t, k) = Count(first, k) + Count(second, k)
  BY MergeFacts DEF Count
<1>2. TierSize(t) = TierSize(first) + TierSize(second)
  BY <1>1, SizeOfSum
<1>3. \A k \in Keys : Range(t[k]) = Range(first[k]) \cup Range(second[k])
  BY MergeFacts, Zenon
<1>. QED  BY <1>1, <1>2, <1>3, Zenon

(* What insert() adds to the hot buffer.                                   *)
LEMMA AppendFacts ==
  ASSUME NEW s \in Seq(Values), NEW v \in Values
  PROVE  /\ Append(s, v) \in Seq(Values)
         /\ Len(Append(s, v)) = Len(s) + 1
         /\ Range(Append(s, v)) = Range(s) \cup {v}
<1>1. Append(s, v) = s \o <<v>>
  BY AppendIsConcat
<1>2. <<v>> \in Seq(Values)
  OBVIOUS
<1>3. Range(<<v>>) = {v}
  <2>1. DOMAIN <<v>> = {1} /\ <<v>>[1] = v
    OBVIOUS
  <2>. QED  BY <2>1, Zenon DEF Range
<1>4. Range(s \o <<v>>) = Range(s) \cup Range(<<v>>)
  BY <1>2, RangeConcatenation
<1>. QED  BY <1>1, <1>3, <1>4, AppendProperties

LEMMA SizeOfAppend ==
  ASSUME NEW t \in Tier, NEW u \in Tier, NEW k \in Keys,
         Count(u, k) = Count(t, k) + 1,
         \A q \in Keys \ {k} : Count(u, q) = Count(t, q)
  PROVE  TierSize(u) = TierSize(t) + 1
<1>. DEFINE new == <<k, Count(t, k) + 1>>
<1>1. \A q \in Keys : Count(t, q) \in Nat /\ Count(u, q) \in Nat
  BY PlacesMember
<1>2. Places(u) = Places(t) \cup {new} /\ new \notin Places(t)
  <2>1. new \notin Places(t) /\ new \in Places(u)
    BY <1>1, PlacesMember
  <2>2. ASSUME NEW pl \in Places(t)
        PROVE  pl \in Places(u)
    <3>1. PICK q \in Keys, i \in Nat \ {0} : pl = <<q, i>> /\ i <= Count(t, q)
      BY PlacesMember
    <3>2. i <= Count(u, q)
      <4>1. CASE q = k
        BY <1>1, <3>1, <4>1
      <4>2. CASE q # k
        BY <3>1, <4>2
      <4>. QED  BY <4>1, <4>2
    <3>. QED  BY <3>1, <3>2, PlacesMember
  <2>3. ASSUME NEW pl \in Places(u), pl # new
        PROVE  pl \in Places(t)
    <3>1. PICK q \in Keys, i \in Nat \ {0} : pl = <<q, i>> /\ i <= Count(u, q)
      BY PlacesMember
    <3>2. i <= Count(t, q)
      <4>1. CASE q = k
        BY <1>1, <2>3, <3>1, <4>1
      <4>2. CASE q # k
        BY <3>1, <4>2
      <4>. QED  BY <4>1, <4>2
    <3>. QED  BY <3>1, <3>2, PlacesMember
  <2>. QED  BY <2>1, <2>2, <2>3
<1>. QED  BY <1>2, PlacesFinite, FS_AddElement DEF TierSize

-----------------------------------------------------------------------------
(* Every value stored was handed out by an earlier call.                   *)
IssuedBefore ==
  \A k \in Keys : \A a \in Range(hot[k]) \cup Range(buf[k]) \cup Range(data[k]) : a < stamp

(* The inductive invariant.  The order of the tiers is kept by a merge     *)
(* because every entry of the hot buffer is younger than the warm ones,    *)
(* and by an insert because the new entry is younger than everything       *)
(* stored; that a build over empty buffers leaves them older than nothing  *)
(* needs the counters to say which buffers are empty.                      *)
IInv == TypeOK /\ SizesMatch /\ VersionOrder /\ IssuedBefore

LEMMA InitIInv == Init => IInv
<1>1. NoEntries \in Tier /\ TierSize(NoEntries) = 0
  BY SmallSizes
<1>2. \A k \in Keys : Range(NoEntries[k]) = {}
  BY SmallSizes
<1>3. Init => TypeOK
  <2>1. 0 \in 0..HOT_CAP /\ 0 \in 0..MaxStamp
    BY HotCapAssumption, BoundsAssumption
  <2>2. 0 \in Nat
    OBVIOUS
  <2>. QED  BY <1>1, <2>1, <2>2, Zenon DEF Init, TypeOK
<1>4. Init => SizesMatch
  BY <1>1 DEF Init, SizesMatch
<1>5. Init => VersionOrder /\ IssuedBefore
  BY <1>2 DEF Init, VersionOrder, OlderThan, IssuedBefore
<1>. QED  BY <1>3, <1>4, <1>5 DEF IInv

(* build(): the array given holds fresh values.                            *)
LEMMA BuildIInv == IInv /\ Build => IInv'
<1>. SUFFICES ASSUME IInv, Build  PROVE IInv'
  OBVIOUS
<1>. USE DEF IInv
<1>1. PICK cnt \in [Keys -> 0..MaxDup] :
        /\ data' = [k \in Keys |-> [i \in 1..cnt[k] |-> stamp + i - 1]]
        /\ n' = TierSize(data')
  BY DEF Build
<1>2. stamp \in Nat /\ stamp + MaxDup <= MaxStamp /\ stamp' = stamp + MaxDup
  BY BoundsAssumption DEF Build, TypeOK
<1>3. \A k \in Keys : cnt[k] \in Nat /\ cnt[k] <= MaxDup
  BY <1>1, BoundsAssumption
<1>4. ASSUME NEW k \in Keys
      PROVE  data'[k] \in Seq(Values) /\ \A a \in Range(data'[k]) : stamp <= a /\ a < stamp'
  <2>1. data'[k] = [i \in 1..cnt[k] |-> stamp + i - 1]
    BY <1>1
  <2>2. \A i \in 1..cnt[k] : /\ stamp + i - 1 \in Values
                            /\ stamp <= stamp + i - 1
                            /\ stamp + i - 1 < stamp'
    BY <1>2, <1>3, BoundsAssumption DEF Values
  <2>3. data'[k] \in Seq(Values)
    BY <1>3, <2>1, <2>2
  <2>. QED  BY <2>1, <2>2, <2>3 DEF Range
<1>5. data' \in Tier
  BY <1>1, <1>4 DEF Tier
<1>6. TypeOK'
  BY <1>1, <1>2, <1>5, PlacesFinite, BoundsAssumption DEF Build, TypeOK
<1>7. SizesMatch'
  BY <1>1 DEF Build, SizesMatch
<1>8. VersionOrder'
  <2>1. OlderThan(buf', hot')
    BY DEF Build, VersionOrder
  <2>2. ASSUME ~overbuilt'
        PROVE  \A k \in Keys : hot'[k] = <<>> /\ buf'[k] = <<>>
    <3>1. hot_size = 0 /\ buf_size = 0
      <4>1. ~(hot_size + buf_size > 0)
        BY <2>2, Zenon DEF Build
      <4>2. hot_size \in Nat /\ buf_size \in Nat
        BY HotCapAssumption DEF TypeOK
      <4>. QED  BY <4>1, <4>2
    <3>. QED  BY <3>1, SmallSizes DEF Build, SizesMatch, TypeOK
  <2>3. Range(<<>>) = {}
    BY SmallSizes
  <2>. QED  BY <2>1, <2>2, <2>3 DEF VersionOrder, OlderThan
<1>9. IssuedBefore'
  <2>1. \A k \in Keys : \A a \in Range(hot[k]) \cup Range(buf[k]) : a \in Nat /\ a < stamp
    <3>1. \A k \in Keys : Range(hot[k]) \subseteq Values /\ Range(buf[k]) \subseteq Values
      BY RangeOfSeq DEF TypeOK, Tier
    <3>. QED  BY <3>1 DEF IssuedBefore, Values
  <2>2. \A k \in Keys : \A a \in Range(hot[k]) \cup Range(buf[k]) : a < stamp'
    BY <1>2, <2>1, BoundsAssumption
  <2>. QED  BY <1>4, <2>2 DEF Build, IssuedBefore
<1>. QED  BY <1>6, <1>7, <1>8, <1>9

(* What IInv says of the values stored, in the form the inserts need.      *)
LEMMA StoredFacts ==
  ASSUME IInv
  PROVE  /\ stamp \in Nat
         /\ \A k \in Keys : \A a \in Range(hot[k]) \cup Range(buf[k]) \cup Range(data[k]) :
              a \in Nat /\ a < stamp
<1>1. \A k \in Keys : /\ Range(hot[k]) \subseteq Values
                      /\ Range(buf[k]) \subseteq Values
                      /\ Range(data[k]) \subseteq Values
  BY RangeOfSeq DEF IInv, TypeOK, Tier
<1>. QED  BY <1>1, BoundsAssumption DEF IInv, TypeOK, IssuedBefore, Values

(* insert() into a hot buffer with room adds one entry to it.              *)
LEMMA InsertHotEffect ==
  ASSUME IInv, NEW k \in Keys, stamp < MaxStamp, InsertHot(k)
  PROVE  /\ hot' \in Tier
         /\ TierSize(hot') = TierSize(hot) + 1
         /\ Range(hot'[k]) = Range(hot[k]) \cup {stamp}
         /\ \A q \in Keys \ {k} : Range(hot'[q]) = Range(hot[q])
         /\ UNCHANGED <<buf, buf_size, data, n, overbuilt>>
<1>1. stamp \in Values
  BY BoundsAssumption DEF IInv, TypeOK, Values
<1>2. hot \in Tier /\ hot[k] \in Seq(Values) /\ hot' = [hot EXCEPT ![k] = Append(@, stamp)]
  BY DEF InsertHot, IInv, TypeOK, Tier
<1>3. /\ Append(hot[k], stamp) \in Seq(Values)
      /\ Len(Append(hot[k], stamp)) = Len(hot[k]) + 1
      /\ Range(Append(hot[k], stamp)) = Range(hot[k]) \cup {stamp}
  BY <1>1, <1>2, AppendFacts
<1>4. hot' \in Tier
  BY <1>2, <1>3 DEF Tier
<1>5. hot'[k] = Append(hot[k], stamp) /\ \A q \in Keys \ {k} : hot'[q] = hot[q]
  BY <1>2 DEF Tier
<1>6. Count(hot', k) = Count(hot, k) + 1 /\ \A q \in Keys \ {k} : Count(hot', q) = Count(hot, q)
  BY <1>3, <1>5 DEF Count
<1>7. TierSize(hot') = TierSize(hot) + 1
  BY <1>2, <1>4, <1>6, SizeOfAppend
<1>. QED  BY <1>3, <1>4, <1>5, <1>7 DEF InsertHot

LEMMA InsertHotIInv ==
  ASSUME IInv, NEW k \in Keys, stamp < MaxStamp, stamp' = stamp + 1, InsertHot(k)
  PROVE  IInv'
<1>. USE DEF IInv
<1>1. stamp \in Nat /\ stamp' \in 0..MaxStamp
  BY BoundsAssumption DEF TypeOK
<1>2. /\ hot' \in Tier
      /\ TierSize(hot') = TierSize(hot) + 1
      /\ Range(hot'[k]) = Range(hot[k]) \cup {stamp}
      /\ \A q \in Keys \ {k} : Range(hot'[q]) = Range(hot[q])
      /\ UNCHANGED <<buf, buf_size, data, n, overbuilt>>
      /\ hot_size' = hot_size + 1
  BY InsertHotEffect DEF InsertHot
<1>3. \A q \in Keys : \A a \in Range(hot[q]) \cup Range(buf[q]) \cup Range(data[q]) :
        a \in Nat /\ a < stamp
  BY StoredFacts
<1>4. TypeOK'
  BY <1>1, <1>2, HotCapAssumption DEF InsertHot, TypeOK
<1>5. SizesMatch'
  BY <1>2 DEF SizesMatch
<1>6. VersionOrder'
  <2>1. OlderThan(buf', hot')
    BY <1>2, <1>3 DEF VersionOrder, OlderThan
  <2>2. ~overbuilt => OlderThan(data', buf') /\ OlderThan(data', hot')
    BY <1>2, <1>3 DEF VersionOrder, OlderThan
  <2>. QED  BY <1>2, <2>1, <2>2 DEF VersionOrder
<1>7. IssuedBefore'
  <2>1. ASSUME NEW q \in Keys, NEW a \in Range(hot'[q]) \cup Range(buf'[q]) \cup Range(data'[q])
        PROVE  a \in Nat /\ a <= stamp
    <3>1. CASE a \in Range(hot'[q]) /\ q = k
      BY <1>1, <1>2, <1>3, <3>1
    <3>2. CASE a \in Range(hot'[q]) /\ q # k
      BY <1>1, <1>2, <1>3, <3>2
    <3>3. CASE a \in Range(buf'[q]) \cup Range(data'[q])
      BY <1>1, <1>2, <1>3, <3>3
    <3>. QED  BY <3>1, <3>2, <3>3
  <2>. QED  BY <1>1, <2>1 DEF IssuedBefore
<1>. QED  BY <1>4, <1>5, <1>6, <1>7

(* insert() into a full hot buffer without a flush: the hot buffer holds   *)
(* the new entry alone, the warm one gains what the hot one held.          *)
MergedOnly(k) ==
  /\ hot' \in Tier /\ hot_size' = 1 /\ TierSize(hot') = 1
  /\ buf' \in Tier /\ buf_size' = buf_size + hot_size /\ TierSize(buf') = buf_size + hot_size
  /\ \A q \in Keys : /\ Range(hot'[q]) = IF q = k THEN {stamp} ELSE {}
                     /\ Range(buf'[q]) = Range(buf[q]) \cup Range(hot[q])
  /\ UNCHANGED <<data, n, overbuilt>>

(* The same with a flush: all entries are in the array.                    *)
MergedAndFlushed(k) ==
  /\ hot' \in Tier /\ hot_size' = 0 /\ TierSize(hot') = 0
  /\ buf' \in Tier /\ buf_size' = 0 /\ TierSize(buf') = 0
  /\ data' \in Tier /\ n' = n + (buf_size + hot_size) + 1 /\ TierSize(data') = n'
  /\ overbuilt' = FALSE
  /\ \A q \in Keys :
       /\ Range(hot'[q]) = {}
       /\ Range(buf'[q]) = {}
       /\ Range(data'[q]) = Range(data[q]) \cup Range(buf[q]) \cup Range(hot[q])
                            \cup IF q = k THEN {stamp} ELSE {}

LEMMA InsertMergeEffect ==
  ASSUME IInv, NEW k \in Keys, stamp < MaxStamp, InsertMerge(k)
  PROVE  MergedOnly(k) \/ MergedAndFlushed(k)
<1>. USE DEF IInv
<1>1. stamp \in Values /\ stamp \in Nat
  BY BoundsAssumption DEF TypeOK, Values
<1>2. PICK tmp \in SortedHot :
        LET warm == MergeTiers(buf, tmp)
            wsize == buf_size + hot_size
            fresh == [NoEntries EXCEPT ![k] = <<stamp>>]
        IN \/ /\ n = 0 \/ wsize < FlushThreshold(n)
              /\ hot' = fresh /\ hot_size' = 1
              /\ buf' = warm /\ buf_size' = wsize
              /\ UNCHANGED <<data, n, overbuilt>>
           \/ /\ n # 0 /\ wsize >= FlushThreshold(n)
              /\ hot' = NoEntries /\ hot_size' = 0
              /\ buf' = NoEntries /\ buf_size' = 0
              /\ data' = MergeTiers(MergeTiers(warm, fresh), data)
              /\ n' = n + wsize + 1
              /\ overbuilt' = FALSE
  BY DEF InsertMerge
<1>. DEFINE warm == MergeTiers(buf, tmp)
            fresh == [NoEntries EXCEPT ![k] = <<stamp>>]
            all == MergeTiers(warm, fresh)
<1>3. /\ tmp \in Tier
      /\ \A q \in Keys : Len(tmp[q]) = Len(hot[q]) /\ Range(tmp[q]) = Range(hot[q])
      /\ TierSize(tmp) = hot_size
  <2>1. hot \in Tier /\ TierSize(hot) = hot_size
    BY DEF TypeOK, SizesMatch
  <2>2. /\ tmp \in Tier
        /\ \A q \in Keys : Len(tmp[q]) = Len(hot[q]) /\ Range(tmp[q]) = Range(hot[q])
    BY <2>1, SortedHotFacts
  <2>3. TierSize(tmp) = TierSize(hot)
    BY <2>1, <2>2, SizeByLengths DEF Count
  <2>. QED  BY <2>1, <2>2, <2>3
<1>4. /\ fresh \in Tier
      /\ TierSize(fresh) = 1
      /\ \A q \in Keys : Range(fresh[q]) = IF q = k THEN {stamp} ELSE {}
  <2>1. NoEntries \in Tier /\ TierSize(NoEntries) = 0
    BY SmallSizes
  <2>2. <<stamp>> = Append(<<>>, stamp) /\ <<>> \in Seq(Values)
    OBVIOUS
  <2>3. <<stamp>> \in Seq(Values) /\ Len(<<stamp>>) = Len(<<>>) + 1 /\ Range(<<stamp>>) = {stamp}
    BY <1>1, <2>2, AppendFacts, SmallSizes
  <2>4. fresh \in Tier
    BY <2>2, <2>3 DEF NoEntries, Tier
  <2>5. /\ fresh[k] = <<stamp>> /\ NoEntries[k] = <<>>
        /\ \A q \in Keys \ {k} : fresh[q] = NoEntries[q] /\ NoEntries[q] = <<>>
    BY DEF NoEntries
  <2>. HIDE DEF fresh
  <2>6. TierSize(fresh) = TierSize(NoEntries) + 1
    BY <2>1, <2>3, <2>4, <2>5, SizeOfAppend DEF Count
  <2>. QED  BY <2>1, <2>3, <2>4, <2>5, <2>6, SmallSizes
<1>. HIDE DEF fresh
<1>5. /\ warm \in Tier
      /\ TierSize(warm) = buf_size + hot_size
      /\ \A q \in Keys : Range(warm[q]) = Range(buf[q]) \cup Range(hot[q])
  <2>1. buf \in Tier /\ TierSize(buf) = buf_size
    BY DEF TypeOK, SizesMatch
  <2>2. /\ warm \in Tier
        /\ TierSize(warm) = TierSize(buf) + TierSize(tmp)
        /\ \A q \in Keys : Range(warm[q]) = Range(buf[q]) \cup Range(tmp[q])
    BY <1>3, <2>1, MergedArray
  <2>. QED  BY <1>3, <2>1, <2>2
<1>. HIDE DEF warm
<1>6. /\ all \in Tier
      /\ TierSize(all) = TierSize(warm) + TierSize(fresh)
      /\ \A q \in Keys : Range(all[q]) = Range(warm[q]) \cup Range(fresh[q])
  BY <1>4, <1>5, MergedArray
<1>. HIDE DEF all
<1>7. /\ MergeTiers(all, data) \in Tier
      /\ TierSize(MergeTiers(all, data)) = TierSize(all) + n
      /\ \A q \in Keys : Range(MergeTiers(all, data)[q]) = Range(all[q]) \cup Range(data[q])
  <2>1. data \in Tier /\ TierSize(data) = n
    BY DEF TypeOK, SizesMatch
  <2>2. /\ MergeTiers(all, data) \in Tier
        /\ TierSize(MergeTiers(all, data)) = TierSize(all) + TierSize(data)
        /\ \A q \in Keys : Range(MergeTiers(all, data)[q]) = Range(all[q]) \cup Range(data[q])
    BY <1>6, <2>1, MergedArray
  <2>. QED  BY <2>1, <2>2
<1>8. /\ NoEntries \in Tier /\ TierSize(NoEntries) = 0
      /\ \A q \in Keys : Range(NoEntries[q]) = {}
  BY SmallSizes
<1>9. hot_size \in Nat /\ buf_size \in Nat /\ n \in Nat
  BY HotCapAssumption DEF TypeOK
<1>10. CASE /\ hot' = fresh /\ hot_size' = 1
            /\ buf' = warm /\ buf_size' = buf_size + hot_size
            /\ UNCHANGED <<data, n, overbuilt>>
  BY <1>4, <1>5, <1>10 DEF MergedOnly
<1>11. CASE /\ hot' = NoEntries /\ hot_size' = 0
            /\ buf' = NoEntries /\ buf_size' = 0
            /\ data' = MergeTiers(all, data)
            /\ n' = n + (buf_size + hot_size) + 1
            /\ overbuilt' = FALSE
  <2>1. TierSize(data') = n'
    BY <1>4, <1>5, <1>6, <1>7, <1>9, <1>11
  <2>2. \A q \in Keys : Range(data'[q]) = Range(data[q]) \cup Range(buf[q]) \cup Range(hot[q])
                                          \cup IF q = k THEN {stamp} ELSE {}
    BY <1>4, <1>5, <1>6, <1>7, <1>11
  <2>. QED  BY <1>7, <1>8, <1>11, <2>1, <2>2 DEF MergedAndFlushed
<1>. QED  BY <1>2, <1>10, <1>11 DEF warm, fresh, all

LEMMA InsertMergeIInv ==
  ASSUME IInv, NEW k \in Keys, stamp < MaxStamp, stamp' = stamp + 1, InsertMerge(k)
  PROVE  IInv'
<1>. USE DEF IInv
<1>1. stamp \in Nat /\ stamp' \in 0..MaxStamp
  BY BoundsAssumption DEF TypeOK
<1>2. hot_size \in Nat /\ buf_size \in Nat /\ n \in Nat
  BY HotCapAssumption DEF TypeOK
<1>3. \A q \in Keys : \A a \in Range(hot[q]) \cup Range(buf[q]) \cup Range(data[q]) :
        a \in Nat /\ a < stamp
  BY StoredFacts
<1>4. CASE MergedOnly(k)
  <2>1. TypeOK'
    BY <1>1, <1>2, <1>4, HotCapAssumption DEF TypeOK, MergedOnly
  <2>2. SizesMatch'
    BY <1>4 DEF SizesMatch, MergedOnly
  <2>3. VersionOrder'
    <3>1. OlderThan(buf', hot')
      BY <1>3, <1>4 DEF OlderThan, MergedOnly
    <3>2. ~overbuilt => OlderThan(data', buf') /\ OlderThan(data', hot')
      BY <1>3, <1>4 DEF VersionOrder, OlderThan, MergedOnly
    <3>. QED  BY <1>4, <3>1, <3>2 DEF VersionOrder, MergedOnly
  <2>4. IssuedBefore'
    <3>1. ASSUME NEW q \in Keys, NEW a \in Range(hot'[q]) \cup Range(buf'[q]) \cup Range(data'[q])
          PROVE  a \in Nat /\ a <= stamp
      BY <1>1, <1>3, <1>4 DEF MergedOnly
    <3>. QED  BY <1>1, <3>1 DEF IssuedBefore
  <2>. QED  BY <2>1, <2>2, <2>3, <2>4
<1>5. CASE MergedAndFlushed(k)
  <2>1. TypeOK'
    <3>1. n' \in Nat /\ hot_size' \in 0..HOT_CAP /\ buf_size' \in Nat
      BY <1>2, <1>5, HotCapAssumption DEF MergedAndFlushed
    <3>. QED  BY <1>1, <1>5, <3>1 DEF TypeOK, MergedAndFlushed
  <2>2. SizesMatch'
    BY <1>5 DEF SizesMatch, MergedAndFlushed
  <2>3. VersionOrder'
    BY <1>5 DEF VersionOrder, OlderThan, MergedAndFlushed
  <2>4. IssuedBefore'
    <3>1. ASSUME NEW q \in Keys, NEW a \in Range(hot'[q]) \cup Range(buf'[q]) \cup Range(data'[q])
          PROVE  a \in Nat /\ a <= stamp
      <4>1. a \in Range(data[q]) \cup Range(buf[q]) \cup Range(hot[q]) \/ a = stamp
        BY <1>5 DEF MergedAndFlushed
      <4>. QED  BY <1>1, <1>3, <4>1
    <3>. QED  BY <1>1, <3>1 DEF IssuedBefore
  <2>. QED  BY <2>1, <2>2, <2>3, <2>4
<1>. QED  BY <1>4, <1>5, InsertMergeEffect

LEMMA NextIInv == IInv /\ [Next]_vars => IInv'
<1>. SUFFICES ASSUME IInv, [Next]_vars  PROVE IInv'
  OBVIOUS
<1>1. CASE Build
  BY <1>1, BuildIInv
<1>2. ASSUME NEW k \in Keys, Insert(k)  PROVE IInv'
  BY <1>2, InsertHotIInv, InsertMergeIInv DEF Insert
<1>3. CASE \/ \E k \in Keys : Lookup(k) \/ LookupHint(k)
           \/ UNCHANGED vars
  BY <1>3 DEF Lookup, LookupHint, vars, IInv, TypeOK, SizesMatch, VersionOrder, OlderThan, IssuedBefore
<1>. QED  BY <1>1, <1>2, <1>3 DEF Next

(* The strengthening holds throughout, for every value of the constants.   *)
THEOREM InductiveInvariant == Spec => []IInv
<1>. QED  BY InitIInv, NextIInv, PTL DEF Spec

(* Type correctness of the buffer state, for all constants.                *)
THEOREM TypeCorrect == Spec => []TypeOK
<1>. QED  BY InductiveInvariant, PTL DEF IInv

(* size() is right in every state: the counters hold the lengths of the    *)
(* three arrays, so no merge or flush drops or doubles an entry.           *)
THEOREM SizesCorrect == Spec => []SizesMatch
<1>. QED  BY InductiveInvariant, PTL DEF IInv

(* The tiers are ordered by age in every state.                            *)
THEOREM TiersOrdered == Spec => []VersionOrder
<1>. QED  BY InductiveInvariant, PTL DEF IInv

-----------------------------------------------------------------------------
(* The flush test of insert() keeps the warm buffer below the flush ratio  *)
(* of the array, whatever the ratio.                                       *)
THEOREM WarmBounded == Spec => []WarmBelowRatio
<1>1. Init => WarmBelowRatio
  BY DEF Init, WarmBelowRatio
<1>2. IInv /\ WarmBelowRatio /\ [Next]_vars => WarmBelowRatio'
  <2>. SUFFICES ASSUME IInv, WarmBelowRatio, [Next]_vars, n' # 0, ~overbuilt'
                PROVE  buf_size' = 0 \/ buf_size' < FlushThreshold(n')
    BY DEF WarmBelowRatio
  <2>1. CASE Build
    <3>1. ~(hot_size + buf_size > 0) /\ buf_size' = buf_size
      BY <2>1, Zenon DEF Build
    <3>2. hot_size \in Nat /\ buf_size \in Nat
      BY HotCapAssumption DEF IInv, TypeOK
    <3>. QED  BY <3>1, <3>2
  <2>2. ASSUME NEW k \in Keys, InsertHot(k)  PROVE buf_size' = 0 \/ buf_size' < FlushThreshold(n')
    BY <2>2 DEF InsertHot, WarmBelowRatio
  <2>3. ASSUME NEW k \in Keys, InsertMerge(k)  PROVE buf_size' = 0 \/ buf_size' < FlushThreshold(n')
    BY <2>3 DEF InsertMerge
  <2>4. CASE \/ \E k \in Keys : Lookup(k) \/ LookupHint(k)
             \/ UNCHANGED vars
    BY <2>4 DEF Lookup, LookupHint, vars, WarmBelowRatio
  <2>. QED  BY <2>1, <2>2, <2>3, <2>4 DEF Next, Insert
<1>. QED  BY <1>1, <1>2, InductiveInvariant, PTL DEF Spec

-----------------------------------------------------------------------------
(* The first entry of a key is one of its entries.                         *)
LEMMA HeadInRange ==
  ASSUME NEW s \in Seq(Values), s # <<>>
  PROVE  Head(s) \in Range(s)
<1>1. Head(s) = s[1] /\ 1 \in DOMAIN s
  BY HeadTailProperties, LenProperties, EmptySeq
<1>. QED  BY <1>1, Zenon DEF Range

LEMMA NonEmptyRange ==
  ASSUME NEW s \in Seq(Values)
  PROVE  s = <<>> <=> Range(s) = {}
<1>1. s # <<>> => Range(s) # {}
  BY HeadInRange
<1>. QED  BY <1>1, SmallSizes

(* An answer of lookup() is newer than every entry of its key in the tiers *)
(* below the one it came from.                                             *)
THEOREM BoundedStaleness == Spec => []StaleOnlyWithinTier
<1>1. Init => StaleOnlyWithinTier
  BY DEF Init, StaleOnlyWithinTier
<1>2. IInv /\ StaleOnlyWithinTier /\ [Next]_vars => StaleOnlyWithinTier'
  <2>. SUFFICES ASSUME IInv, StaleOnlyWithinTier, [Next]_vars
                PROVE  StaleOnlyWithinTier'
    OBVIOUS
  <2>1. CASE Build
    BY <2>1 DEF Build, StaleOnlyWithinTier
  <2>2. ASSUME NEW k \in Keys, Insert(k)  PROVE StaleOnlyWithinTier'
    BY <2>2 DEF Insert, StaleOnlyWithinTier
  <2>3. ASSUME NEW k \in Keys, Lookup(k)  PROVE StaleOnlyWithinTier'
    <3>1. PICK a \in LookupAnswers(k) : ret' = [op |-> "lookup", key |-> k, val |-> a]
      BY <2>3 DEF Lookup
    <3>2. UNCHANGED <<hot, buf, data, overbuilt>>
      BY <2>3 DEF Lookup
    <3>3. hot[k] \in Seq(Values) /\ buf[k] \in Seq(Values)
      BY DEF IInv, TypeOK, Tier
    <3>4. hot[k] # <<>> => a \in Range(hot[k])
      BY <3>1, <3>3, HeadInRange DEF LookupAnswers
    <3>5. hot[k] = <<>> /\ buf[k] # <<>> => a \in Range(buf[k])
      BY <3>1, <3>3, HeadInRange DEF LookupAnswers
    <3>6. ret'.op = "lookup" /\ ret'.key = k /\ ret'.val = a
      BY <3>1
    <3>. QED
      BY <3>2, <3>4, <3>5, <3>6 DEF StaleOnlyWithinTier, Newest, IInv, VersionOrder, OlderThan
  <2>4. ASSUME NEW k \in Keys, LookupHint(k)  PROVE StaleOnlyWithinTier'
    BY <2>4 DEF LookupHint, StaleOnlyWithinTier
  <2>5. CASE UNCHANGED vars
    BY <2>5 DEF vars, StaleOnlyWithinTier, Newest
  <2>. QED  BY <2>1, <2>2, <2>3, <2>4, <2>5 DEF Next
<1>. QED  BY <1>1, <1>2, InductiveInvariant, PTL DEF Spec

-----------------------------------------------------------------------------
(* The dual buffer implements the contract, for every number of keys,      *)
(* every capacity and ratio, and whether or not the model search covers    *)
(* every stored key: no entry is lost, invented or hidden.                 *)
THEOREM BufferImplementsContract == Spec => ImplementsContract
<1>1. Init => Contract!ContractInit
  BY SmallSizes DEF Init, Contract!ContractInit, Contract!Nothing, pendingOf, committedOf
<1>2. IInv /\ [Next]_vars => [Contract!ContractNext]_(Contract!contractVars)
  <2>. SUFFICES ASSUME IInv, [Next]_vars
                PROVE  [Contract!ContractNext]_(Contract!contractVars)
    OBVIOUS
  <2>a. \A k \in Keys : ModelAnswers(k) = Contract!ModelAnswers(k)
    BY SmallSizes, NonEmptyRange, AnswerAssumption
    DEF ModelAnswers, Contract!ModelAnswers, committedOf, IInv, TypeOK, Tier
  <2>b. \A k \in Keys : hot[k] \in Seq(Values) /\ buf[k] \in Seq(Values)
    BY DEF IInv, TypeOK, Tier
  <2>1. CASE Build
    <3>1. committedOf' \in [Keys -> SUBSET Values]
      <4>1. data' \in Tier
        BY <2>1, BuildIInv DEF IInv, TypeOK
      <4>2. \A k \in Keys : Range(data'[k]) \subseteq Values
        BY <4>1, RangeOfSeq DEF Tier
      <4>. QED  BY <4>2 DEF committedOf
    <3>2. pendingOf' = pendingOf /\ ret' = [op |-> "build"]
      BY <2>1 DEF Build, pendingOf
    <3>. QED  BY <3>1, <3>2 DEF Contract!ContractNext, Contract!Load
  <2>2. ASSUME NEW k \in Keys, Insert(k)  PROVE Contract!Put(k, stamp)
    <3>. DEFINE held == [pendingOf EXCEPT ![k] = @ \cup {stamp}]
    <3>1. ret' = NoCall /\ stamp < MaxStamp
      BY <2>2 DEF Insert
    <3>2. held = [q \in Keys |-> Range(hot[q]) \cup Range(buf[q])
                                   \cup IF q = k THEN {stamp} ELSE {}]
      BY DEF pendingOf
    <3>. HIDE DEF held
    <3>3. CASE InsertHot(k)
      <4>1. pendingOf' = held
        BY <3>1, <3>2, <3>3, InsertHotEffect DEF pendingOf
      <4>2. committedOf' = committedOf
        BY <3>3 DEF InsertHot, committedOf
      <4>. QED  BY <3>1, <4>1, <4>2 DEF Contract!Put, held
    <3>4. CASE MergedOnly(k)
      <4>1. pendingOf' = held
        BY <3>2, <3>4 DEF pendingOf, MergedOnly
      <4>2. committedOf' = committedOf
        BY <3>4 DEF MergedOnly, committedOf
      <4>. QED  BY <3>1, <4>1, <4>2 DEF Contract!Put, held
    <3>5. CASE MergedAndFlushed(k)
      <4>1. pendingOf' = Contract!Nothing
        BY <3>5 DEF pendingOf, MergedAndFlushed, Contract!Nothing
      <4>2. committedOf' = [q \in Keys |-> committedOf[q] \cup held[q]]
        BY <3>2, <3>5 DEF MergedAndFlushed, committedOf
      <4>. QED  BY <3>1, <4>1, <4>2 DEF Contract!Put, held
    <3>. QED  BY <2>2, <3>1, <3>3, <3>4, <3>5, InsertMergeEffect DEF Insert
  <2>3. ASSUME NEW k \in Keys, Lookup(k)  PROVE Contract!Get(k)
    <3>1. PICK a \in LookupAnswers(k) : ret' = [op |-> "lookup", key |-> k, val |-> a]
      BY <2>3 DEF Lookup
    <3>2. pendingOf' = pendingOf /\ committedOf' = committedOf
      BY <2>3 DEF Lookup, pendingOf, committedOf
    <3>3. a \in Contract!Answers(k)
      <4>1. CASE hot[k] # <<>>
        BY <2>b, <3>1, <4>1, HeadInRange DEF LookupAnswers, Contract!Answers, pendingOf
      <4>2. CASE hot[k] = <<>> /\ buf[k] # <<>>
        BY <2>b, <3>1, <4>2, HeadInRange DEF LookupAnswers, Contract!Answers, pendingOf
      <4>3. CASE hot[k] = <<>> /\ buf[k] = <<>>
        BY <2>a, <3>1, <4>3, SmallSizes DEF LookupAnswers, Contract!Answers, pendingOf
      <4>. QED  BY <4>1, <4>2, <4>3
    <3>. QED  BY <3>1, <3>2, <3>3 DEF Contract!Get
  <2>4. ASSUME NEW k \in Keys, LookupHint(k)  PROVE Contract!GetHinted(k)
    <3>1. PICK a \in ModelAnswers(k) : ret' = [op |-> "lookup_hint", key |-> k, val |-> a]
      BY <2>4 DEF LookupHint
    <3>2. pendingOf' = pendingOf /\ committedOf' = committedOf
      BY <2>4 DEF LookupHint, pendingOf, committedOf
    <3>. QED  BY <2>a, <3>1, <3>2 DEF Contract!GetHinted
  <2>5. CASE UNCHANGED vars
    BY <2>5 DEF vars, Contract!contractVars, pendingOf, committedOf
  <2>6. \A k \in Keys : Insert(k) => stamp \in Values
    BY BoundsAssumption DEF Insert, IInv, TypeOK, Values
  <2>. QED  BY <2>1, <2>2, <2>3, <2>4, <2>5, <2>6 DEF Next, Contract!ContractNext
<1>. QED  BY <1>1, <1>2, InductiveInvariant, PTL DEF Spec, ImplementsContract, Contract!ContractSpec
=============================================================================
