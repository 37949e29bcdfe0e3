---------------------------- MODULE AlexDataNode ----------------------------
(***************************************************************************)
(* The data node of the vendored ALEX index: a gapped array.  A slot is    *)
(* filled or a gap; a gap holds the key of the next filled slot, or the    *)
(* sentinel behind the last one, so that the array of keys is sorted and   *)
(* can be searched without a look at the bitmap.                           *)
(*                                                                         *)
(* The linear model enters where it is used: in a layout it is any         *)
(* nondecreasing function from keys to slots, in a search any slot.  The   *)
(* cost model decides when an insert is refused and is left open.          *)
(***************************************************************************)
EXTENDS Integers, Sequences, SequencesExt, FiniteSets, FiniteSetsExt, Functions

CONSTANTS Keys,         \* integers below Sentinel
          Payloads,
          Sentinel,     \* kEndSentinel_
          MaxSlots,     \* max_slots_
          CheckPeriod,  \* inserts between two checks for catastrophic cost (64)
          W,            \* bits of a word of the bitmap (64)
          StrayBits,    \* bits set in the word behind the bitmap in memory
          MaxKeys       \* bound: entries of the node

ASSUME KeysAssumption == Keys \subseteq Nat /\ IsFiniteSet(Keys) /\ Keys # {}
ASSUME SentinelAssumption == Sentinel \in Nat /\ \A k \in Keys : k < Sentinel
ASSUME SizesAssumption == {MaxSlots, CheckPeriod, W} \subseteq Nat \ {0} /\ MaxKeys \in Nat
ASSUME StrayAssumption == StrayBits \subseteq 0..W - 1

Abs(x) == IF x < 0 THEN -x ELSE x

VARIABLES node,      \* cap, key, pay, num, expandAt, contractAt
          inserts,   \* num_inserts_, modulo CheckPeriod
          ret        \* the last operation and its result

vars == <<node, inserts, ret>>

(* The bitmap is the domain of the payloads.                               *)
Filled(nd) == DOMAIN nd.pay
SlotsOf(nd) == 0..nd.cap - 1

(* A set of slots from left to right.                                      *)
InOrder(slots) ==
  [i \in 1..Cardinality(slots) |->
     CHOOSE s \in slots : Cardinality({t \in slots : t < s}) = i - 1]

(* The entries of a stretch in the order of their slots.                   *)
EntriesIn(nd, from, to) ==
  LET order == InOrder(Filled(nd) \cap (from..to - 1))
  IN [i \in DOMAIN order |-> <<nd.key[order[i]], nd.pay[order[i]]>>]

Entries(nd) == EntriesIn(nd, 0, nd.cap)

-----------------------------------------------------------------------------
(* initialize(): room for n entries at a density of tenths / 10.           *)
Capacity(n, tenths) == Max({(10 * n) \div tenths, n + 1})

(* The slot of each entry: the predicted one if it is free, and never so   *)
(* far right that the remaining entries do not fit.                        *)
Places(entries, cap, model) ==
  LET n == Len(entries)
      pos[i \in 0..n] ==
        IF i = 0 THEN -1
        ELSE Min({cap - (n - i + 1), Max({model[entries[i][1]], pos[i - 1] + 1})})
  IN [i \in 1..n |-> pos[i]]

(* An empty node has one slot.                                             *)
EmptyNode == [cap |-> Capacity(0, 7), key |-> [s \in 0..Capacity(0, 7) - 1 |-> Sentinel],
              pay |-> <<>>, num |-> 0, expandAt |-> 10 * Capacity(0, 7), contractAt |-> 0]

(* bulk_load(), bulk_load_from_existing() and the second half of resize(): *)
(* thresholds are in tenths of an entry.                                   *)
Layout(entries, cap, at) ==
  LET n == Len(entries)
      next(s) == {i \in 1..n : at[i] >= s}
  IN [cap |-> cap,
      key |-> [s \in 0..cap - 1 |->
                 IF next(s) = {} THEN Sentinel ELSE entries[Min(next(s))][1]],
      pay |-> [s \in Range(at) |-> entries[Min(next(s))][2]],
      num |-> n,
      expandAt |-> Min({Max({8 * cap, 10 * (n + 1)}), 10 * cap}),
      contractAt |-> 6 * cap]

(* The layouts of entries under all models: nondecreasing predictions, cut *)
(* off to the node.                                                        *)
Layouts(entries, cap) ==
  LET models == {m \in [Keys -> 0..cap] : \A j, k \in Keys : j <= k => m[j] <= m[k]}
  IN {Layout(entries, cap, at) : at \in {Places(entries, cap, m) : m \in models}}

(* bulk_load() at density 0.7, bulk_load_from_existing() at 0.6.           *)
Loads(entries, tenths) ==
  IF entries = <<>> THEN {EmptyNode}
  ELSE Layouts(entries, Capacity(Len(entries), tenths))

(* resize(): nothing happens to an empty node.                             *)
Resized(nd, tenths) ==
  IF nd.num = 0 THEN {nd}
  ELSE Layouts(Entries(nd), Capacity(nd.num, tenths))

-----------------------------------------------------------------------------
(* The loop that doubles the bound: it stops at the end of the node or     *)
(* when the probe at that distance is on the other side of the answer,     *)
(* which then lies between half the bound and the bound.                   *)
Doubling(size, stops) ==
  LET bound[i \in 0..size] ==
        IF i = 0 THEN 1
        ELSE LET b == bound[i - 1]
             IN IF b >= size \/ b \in stops THEN b ELSE 2 * b
  IN <<bound[size] \div 2, Min({bound[size], size})>>

(* binary_search_upper_bound(), binary_search_lower_bound(): the bounds    *)
(* after each turn of the loop.                                            *)
BinarySearch(l, r, beyond) ==
  LET bounds[i \in 0..r - l] ==
        IF i = 0 THEN <<l, r>>
        ELSE LET b == bounds[i - 1]
                 mid == b[1] + (b[2] - b[1]) \div 2
             IN IF b[1] >= b[2] THEN b
                ELSE IF mid \in beyond THEN <<b[1], mid>> ELSE <<mid + 1, b[2]>>
  IN bounds[r - l][1]

(* exponential_search_upper_bound() and exponential_search_lower_bound()   *)
(* from slot m: the first slot beyond the key.                             *)
ExponentialSearch(cap, m, beyond) ==
  IF m \in beyond
  THEN LET b == Doubling(m, {d \in 1..m : m - d \notin beyond})
       IN BinarySearch(m - b[2], m - b[1], beyond)
  ELSE LET b == Doubling(cap - m, {d \in 1..cap - m : m + d \in beyond})
       IN BinarySearch(m + b[1], m + b[2], beyond)

UpperBound(nd, m, k) ==
  ExponentialSearch(nd.cap, m, {s \in SlotsOf(nd) : nd.key[s] > k})
LowerBound(nd, m, k) ==
  ExponentialSearch(nd.cap, m, {s \in SlotsOf(nd) : nd.key[s] >= k})

(* get_next_filled_position(): a position behind the last slot is looked   *)
(* up in the word behind the bitmap when the bitmap has no unused bits.    *)
NextFilled(nd, pos) ==
  IF pos = nd.cap /\ nd.cap % W = 0 /\ StrayBits # {} THEN nd.cap + Min(StrayBits)
  ELSE Min({s \in Filled(nd) : s >= pos} \cup {nd.cap})

(* find_key(), -1 if there is none; find_lower(); find_upper().            *)
FindKey(nd, m, k) ==
  LET pos == UpperBound(nd, m, k) - 1
  IN IF pos < 0 \/ nd.key[pos] # k THEN -1 ELSE pos

FindLower(nd, m, k) == NextFilled(nd, LowerBound(nd, m, k))
FindUpper(nd, m, k) == NextFilled(nd, UpperBound(nd, m, k))

(* Slip: the predicted slot is taken even behind the next entry.           *)
InsertPositionAtModel(nd, m, k) ==
  LET pos == UpperBound(nd, m, k)
  IN IF m <= pos \/ pos \in Filled(nd) THEN pos ELSE m

(* find_insert_position(): behind the entries of the same key, and as      *)
(* close to the prediction as the gap there allows.                        *)
InsertPosition(nd, m, k) ==
  LET pos == UpperBound(nd, m, k)
  IN IF m <= pos \/ pos \in Filled(nd) THEN pos
     ELSE Min({m, (IF pos + 1 = nd.cap THEN nd.cap ELSE NextFilled(nd, pos + 1)) - 1})

-----------------------------------------------------------------------------
(* Slip: the adjacent word on the other side is never looked at.           *)
ClosestGapOneSided(filled, cap, w, pos0) ==
  LET pos == Min({pos0, cap - 1})
      left == {s \in 0..pos : s \notin filled}
      right == {s \in pos..cap - 1 : s \notin filled}
      own == {s \in 0..cap - 1 : s \notin filled /\ s \div w = pos \div w}
  IN IF own # {} THEN (IF left \cap own # {} THEN Max(left) ELSE Min(right))
     ELSE IF left # {} THEN Max(left) ELSE Min(right)

(* The gaps of a word of w bits of the bitmap; the bits behind the last    *)
(* slot read as gaps.  First and last gap of a full word lie just outside  *)
(* of it.                                                                  *)
GapsOf(filled, w, i) == (i * w..i * w + w - 1) \ filled
FirstGap(filled, w, i) == Min(GapsOf(filled, w, i) \cup {i * w + w})
LastGap(filled, w, i) == Max(GapsOf(filled, w, i) \cup {i * w - 1})

Nearer(cap, pos, l, r) == IF pos - l <= r - pos \/ r >= cap THEN l ELSE r

(* Distance to the next gap on the right and on the left, as closest_gap() *)
(* takes them from the word of the position and the adjacent one.          *)
RightOf(filled, cap, w, pos) ==
  LET here == {g \in GapsOf(filled, w, pos \div w) : g >= pos}
  IN IF here # {} THEN Min(here) - pos
     ELSE IF pos \div w < (cap - 1) \div w THEN FirstGap(filled, w, pos \div w + 1) - pos ELSE w

LeftOf(filled, cap, w, pos) ==
  LET here == {g \in GapsOf(filled, w, pos \div w) : g < pos}
  IN IF here # {} THEN pos - Max(here)
     ELSE IF pos \div w > 0 THEN pos - LastGap(filled, w, pos \div w - 1) ELSE w

(* Both words at distance d, and one more where that can be nearer.        *)
Around(filled, cap, w, pos, d) ==
  LET l == pos \div w - d
      r == pos \div w + d
      gaps(i) == GapsOf(filled, w, i)
      first(i) == FirstGap(filled, w, i)
      last(i) == LastGap(filled, w, i)
  IN IF gaps(l) # {} /\ gaps(r) # {} THEN Nearer(cap, pos, last(l), first(r))
     ELSE IF gaps(l) # {}
          THEN IF pos % w > w \div 2 /\ r < (cap - 1) \div w /\ gaps(r + 1) # {}
               THEN Nearer(cap, pos, last(l), first(r + 1)) ELSE last(l)
     ELSE IF gaps(r) # {} /\ first(r) < cap
          THEN IF pos % w < w \div 2 /\ l > 0 /\ gaps(l - 1) # {}
               THEN Nearer(cap, pos, last(l - 1), first(r)) ELSE first(r)
     ELSE -1

(* closest_gap(): in the word of the position, in the words around it, or  *)
(* in those that only one side has left.                                   *)
ClosestGap(filled, cap, w, pos0) ==
  LET pos == Min({pos0, cap - 1})
      word == pos \div w
      lastWord == (cap - 1) \div w
      right == RightOf(filled, cap, w, pos)
      left == LeftOf(filled, cap, w, pos)
      both == Min({word, lastWord - word})
      found == {d \in 1..both : Around(filled, cap, w, pos, d) # -1}
      rest == {i \in IF word > lastWord - word THEN 0..word - both - 1
                     ELSE word + both + 1..lastWord : GapsOf(filled, w, i) # {}}
  IN IF {g \in GapsOf(filled, w, word) : g < cap} # {}
     THEN IF right < left /\ pos + right < cap THEN pos + right ELSE pos - left
     ELSE IF found # {} THEN Around(filled, cap, w, pos, Min(found))
     ELSE IF rest = {} THEN -1
     ELSE IF word > lastWord - word THEN LastGap(filled, w, Max(rest))
     ELSE IF FirstGap(filled, w, Min(rest)) >= cap THEN -1 ELSE FirstGap(filled, w, Min(rest))

(* The gaps directly in front of a slot.                                   *)
GapsBefore(nd, pos) == {s \in 0..pos - 1 : (s..pos - 1) \cap Filled(nd) = {}}

(* Slip: the gaps in front keep the key they had.                          *)
InsertElementOnly(nd, k, p, pos) ==
  [nd EXCEPT !.key[pos] = k,
             !.pay = [s \in Filled(nd) \cup {pos} |-> IF s = pos THEN p ELSE @[s]]]

InsertElementAt(nd, k, p, pos) ==
  [nd EXCEPT !.key = [s \in SlotsOf(nd) |->
                        IF s \in GapsBefore(nd, pos) \cup {pos} THEN k ELSE @[s]],
             !.pay = [s \in Filled(nd) \cup {pos} |-> IF s = pos THEN p ELSE @[s]]]

(* insert_using_shifts(): the entries between the position and the closest *)
(* gap move one slot towards the gap.                                      *)
InsertUsingShifts(nd, k, p, pos) ==
  LET gap == ClosestGap(Filled(nd), nd.cap, W, pos)
      from(s) == IF gap >= pos /\ s \in pos + 1..gap THEN s - 1
                 ELSE IF gap < pos /\ s \in gap..pos - 2 THEN s + 1 ELSE s
      slot == IF gap >= pos THEN pos ELSE pos - 1
      shifted == [nd EXCEPT !.key = [s \in SlotsOf(nd) |-> @[from(s)]],
                            !.pay = [s \in Filled(nd) \cup {gap} |->
                                       IF s = slot THEN p ELSE @[from(s)]]]
  IN InsertElementAt(shifted, k, p, slot)

Inserted(nd, k, p, pos) ==
  [IF pos < nd.cap /\ pos \notin Filled(nd) THEN InsertElementAt(nd, k, p, pos)
   ELSE InsertUsingShifts(nd, k, p, pos) EXCEPT !.num = nd.num + 1]

(* Slip: every slot of the run counts as an entry.                         *)
EraseRunCountsSlots(nd, pos, run) ==
  LET nextKey == IF pos = nd.cap THEN Sentinel ELSE nd.key[pos]
  IN [nd EXCEPT !.key = [s \in SlotsOf(nd) |-> IF s \in run THEN nextKey ELSE @[s]],
                !.pay = Restrict(@, Filled(nd) \ run),
                !.num = @ - Cardinality(run)]

(* Erase the slots of a run that ends in front of pos, those of its slots  *)
(* that are gaps with them: the next key takes their place.                *)
EraseRun(nd, pos, run) ==
  LET nextKey == IF pos = nd.cap THEN Sentinel ELSE nd.key[pos]
  IN [nd EXCEPT !.key = [s \in SlotsOf(nd) |-> IF s \in run THEN nextKey ELSE @[s]],
                !.pay = Restrict(@, Filled(nd) \ run),
                !.num = @ - Cardinality(run \cap Filled(nd))]

(* erase_one_at()                                                          *)
EraseOneAt(nd, pos) == EraseRun(nd, pos + 1, {pos} \cup GapsBefore(nd, pos))

(* The loops of erase() and erase_range(): all slots in front of pos with  *)
(* a key from low on.                                                      *)
EraseFrom(nd, pos, low) == EraseRun(nd, pos, {s \in 0..pos - 1 : nd.key[s] >= low})

(* A node that has become too sparse is laid out anew, more densely.       *)
Contractions(nd) == IF 10 * nd.num < nd.contractAt THEN Resized(nd, 8) ELSE {nd}

-----------------------------------------------------------------------------
SortedEntries(max) ==
  {s \in UNION {[1..n -> Keys \X Payloads] : n \in 0..max} :
     \A i \in 1..Len(s) - 1 : s[i][1] <= s[i + 1][1]}

(* A node as bulk_load() leaves it.                                        *)
Init ==
  /\ \E entries \in SortedEntries(2) : node \in Loads(entries, 7)
  /\ inserts = 0
  /\ ret = <<"layout", 0>>

Full == 10 * node.num >= node.expandAt
AtMaxSlots == 10 * node.num > 6 * MaxSlots

(* insert() gives up: 2, catastrophic cost; 1, cost deviates from the      *)
(* expected one; 3, no more slots.                                         *)
InsertRefused ==
  /\ \/ ret' = <<"insert", 2>> /\ (inserts = 0 \/ Full)
     \/ ret' = <<"insert", 1>> /\ Full
     \/ ret' = <<"insert", 3>> /\ Full /\ AtMaxSlots
  /\ UNCHANGED <<node, inserts>>

(* insert() succeeds, and expands a full node first.                       *)
Insert(k, p) ==
  /\ node.num < MaxKeys
  /\ ~(Full /\ AtMaxSlots)
  /\ \E nd \in IF Full THEN Resized(node, 6) ELSE {node} :
       \E pos \in {InsertPosition(nd, m, k) : m \in SlotsOf(nd)} :
         node' = Inserted(nd, k, p, pos)
  /\ inserts' = (inserts + 1) % CheckPeriod
  /\ ret' = <<"insert", 0>>

(* Slip: the last of equal keys is erased.                                 *)
EraseOneLast(k) ==
  \E pos \in {FindKey(node, m, k) : m \in SlotsOf(node)} :
    /\ IF pos = -1 THEN ret' = <<"erase_one", 0>> /\ UNCHANGED node
       ELSE ret' = <<"erase_one", 1>> /\ node' \in Contractions(EraseOneAt(node, pos))
    /\ UNCHANGED inserts

(* erase_one(): the leftmost entry of the key.  Behind the end the key is  *)
(* compared with memory behind the node; if that looks like the key, it is *)
(* overwritten, and of the node only the count changes.                    *)
EraseOne(k) ==
  \E pos \in {FindLower(node, m, k) : m \in SlotsOf(node)} :
    \E found \in IF pos > node.cap THEN BOOLEAN ELSE {pos < node.cap /\ node.key[pos] = k} :
      /\ IF found
         THEN /\ ret' = <<"erase_one", 1>>
              /\ node' \in Contractions(IF pos < node.cap THEN EraseOneAt(node, pos)
                                         ELSE [node EXCEPT !.num = @ - 1])
         ELSE ret' = <<"erase_one", 0>> /\ UNCHANGED node
      /\ UNCHANGED inserts

(* erase() through an iterator: the caller stands on a filled slot.        *)
EraseAt(pos) ==
  /\ node' \in Contractions(EraseOneAt(node, pos))
  /\ ret' = <<"erase_at", 1>>
  /\ UNCHANGED inserts

(* erase(key), and erase_range() from start on: up to end or in front of   *)
(* it.                                                                     *)
EraseUpTo(low, pos) ==
  LET erased == EraseFrom(node, pos, low)
  IN /\ ret' = <<"erase", node.num - erased.num>>
     /\ IF pos = 0 THEN UNCHANGED node ELSE node' \in Contractions(erased)
     /\ UNCHANGED inserts

Erase(k) ==
  \E pos \in {UpperBound(node, m, k) : m \in SlotsOf(node)} :
    IF pos = 0 \/ node.key[pos - 1] # k THEN ret' = <<"erase", 0>> /\ UNCHANGED <<node, inserts>>
    ELSE EraseUpTo(k, pos)

EraseRange(start, end, inclusive) ==
  \E pos \in {IF inclusive THEN UpperBound(node, m, end) ELSE LowerBound(node, m, end) :
               m \in SlotsOf(node)} : EraseUpTo(start, pos)

(* The tree above trains the node again instead of splitting it.           *)
Retrain ==
  /\ node' \in Resized(node, 6)
  /\ ret' = <<"layout", 0>>
  /\ UNCHANGED inserts

(* A split or a merge loads a new node with a stretch of this one.         *)
Extract ==
  /\ \E entries \in {EntriesIn(node, left, right) : left, right \in 0..node.cap} :
       node' \in Loads(entries, 6)
  /\ inserts' = 0
  /\ ret' = <<"layout", 0>>

Next ==
  \/ InsertRefused
  \/ \E k \in Keys, p \in Payloads : Insert(k, p)
  \/ \E k \in Keys : EraseOne(k)
  \/ \E k \in Keys : Erase(k)
  \/ \E pos \in Filled(node) : EraseAt(pos)
  \/ \E start, end \in Keys, inclusive \in BOOLEAN : EraseRange(start, end, inclusive)
  \/ Retrain
  \/ Extract

Spec == Init /\ [][Next]_vars

-----------------------------------------------------------------------------
TypeOK ==
  /\ node.cap \in Nat \ {0}
  /\ node.key \in [SlotsOf(node) -> Keys \cup {Sentinel}]
  /\ Filled(node) \subseteq SlotsOf(node)
  /\ Range(node.pay) \subseteq Payloads
  /\ node.num \in 0..node.cap
  /\ node.expandAt \in 10..10 * node.cap /\ node.contractAt \in Nat
  /\ inserts \in 0..CheckPeriod - 1
  /\ ret \in {"insert", "erase_one", "erase_at", "erase", "layout"} \X (0..MaxKeys + 3)

(* What validate_structure() asserts after any sequence of inserts,        *)
(* erasures, expansions, contractions and splits: keys are sorted over     *)
(* gaps and entries alike, the last slot of a key is an entry, the         *)
(* sentinel marks exactly the gaps at the end, and num_keys_ counts the    *)
(* bits of the bitmap.                                                     *)
StructureValid ==
  /\ \A s \in 0..node.cap - 2 :
       /\ node.key[s] <= node.key[s + 1]
       /\ node.key[s] < node.key[s + 1] => s \in Filled(node)
  /\ (node.key[node.cap - 1] = Sentinel) <=> (node.cap - 1 \notin Filled(node))
  /\ node.num = Cardinality(Filled(node))

(* However wrong the model predicts, every search ends at the exact place: *)
(* find_key() at the last entry of the key, find_lower() and find_upper()  *)
(* at the first entry from the key on and past it, and                     *)
(* find_insert_position() between the entries up to the key and those      *)
(* behind it, in the gap nearest to the prediction when there is one.      *)
SearchesExact ==
  \A k \in Keys, m \in SlotsOf(node) :
    LET upTo == {s \in Filled(node) : node.key[s] <= k}
        below == {s \in Filled(node) : node.key[s] < k}
        after == Filled(node) \ upTo
        at == InsertPosition(node, m, k)
        open == {s \in SlotsOf(node) \ Filled(node) :
                   (\A f \in upTo : f < s) /\ (\A f \in after : s < f)}
    IN /\ FindKey(node, m, k) = IF upTo = below THEN -1 ELSE Max(upTo)
       /\ FindLower(node, m, k) = Min((Filled(node) \ below) \cup {node.cap})
       /\ FindUpper(node, m, k) = Min(after \cup {node.cap})
       /\ \A f \in upTo : f < at
       /\ \A f \in after : at <= f
       /\ open # {} => at \in open /\ \A s \in open : Abs(at - m) <= Abs(s - m)

(* The situation in which a search reads the word behind the bitmap: the   *)
(* last slot is an entry and the capacity a multiple of the word.  It is   *)
(* harmless if that word is zero or its first bit is set.                  *)
SafeEnd(nd) ==
  nd.cap - 1 \in Filled(nd) /\ nd.cap % W = 0 => StrayBits = {} \/ 0 \in StrayBits

EndIsSafe == SafeEnd(node)

(* find_lower() and find_upper(): "Returns position in range               *)
(* [0, data_capacity]".                                                    *)
FindsInRange ==
  \A k \in Keys, m \in SlotsOf(node) :
    /\ FindLower(node, m, k) \in 0..node.cap
    /\ FindUpper(node, m, k) \in 0..node.cap

(* closest_gap() finds a gap no farther than any other, wherever it lies   *)
(* relative to the words of the bitmap.                                    *)
IsClosestGap(gap, filled, cap, pos) ==
  /\ gap \in (0..cap - 1) \ filled
  /\ \A g \in (0..cap - 1) \ filled : Abs(gap - pos) <= Abs(g - pos)

(* The same over bitmaps of up to five words of four bits with one to      *)
(* three gaps.                                                             *)
LongBitmapsSearched ==
  \A cap \in {13, 18} : \A n \in 1..3 : \A gaps \in kSubset(n, 0..cap - 1) :
    \A pos \in 0..cap - 1 :
      LET filled == (0..cap - 1) \ gaps
      IN IsClosestGap(ClosestGap(filled, cap, 4, pos), filled, cap, pos)

ClosestGapIsClosest ==
  /\ LongBitmapsSearched
  /\ node.num < node.cap =>
       \A pos \in 0..node.cap, w \in {W, 4, 64} :
         IsClosestGap(ClosestGap(Filled(node), node.cap, w, pos),
                      Filled(node), node.cap, Min({pos, node.cap - 1}))

(* The payloads of each key, in the order of their slots.                  *)
Items == [k \in Keys |->
            LET order == InOrder({s \in Filled(node) : node.key[s] = k})
            IN [i \in DOMAIN order |-> node.pay[order[i]]]]

(* The gapped array is a multimap that keeps the entries of a key in the   *)
(* order they came: no entry is lost, doubled or reordered by a shift, a   *)
(* layout or a contraction, a refused insert changes nothing, and an       *)
(* erasure takes exactly the entries it names.                             *)
Multimap == INSTANCE SortedMultimap WITH items <- Items
ImplementsMultimap == Multimap!Spec
=============================================================================
