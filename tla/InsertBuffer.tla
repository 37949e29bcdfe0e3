---------------------------- MODULE InsertBuffer ----------------------------
(***************************************************************************)
(* GIDB, the dual insert buffer of NLIIndex: a hot buffer of HOT_CAP       *)
(* unsorted entries, a sorted warm buffer, and the sorted key/value arrays *)
(* behind the learned model.                                               *)
(*                                                                         *)
(* Each of the three tiers maps a key to the sequence of its entries, in   *)
(* the order they stand in the array of the code: two entries of different *)
(* keys are never compared by anything but their keys, so a sorted array   *)
(* is determined by these sequences and a merge of two arrays is their     *)
(* concatenation key by key.  A value is the number of the insert that     *)
(* brought it, which tells entries of one key apart and dates them.        *)
(*                                                                         *)
(* The model search is what LeafRouting and LeafSearch are about; here it  *)
(* answers with some entry of the key, or, unless WindowsCover, may miss   *)
(* it.                                                                     *)
(***************************************************************************)
EXTENDS Naturals, Sequences, FiniteSets, Functions

CONSTANTS Keys,
          HOT_CAP,         \* entries of the hot buffer (32 in the code)
          FlushNum,        \* flush_ratio = FlushNum / FlushDen
          FlushDen,
          MaxDup,          \* bound: entries per key in a built array
          MaxStamp,        \* bound: number of values handed out
          WindowsCover,    \* every stored key lies in the window searched for it
          Miss,            \* the answer "not found"
          NoCall           \* ret before the first call and after an insert

ASSUME KeysAssumption == IsFiniteSet(Keys)
ASSUME HotCapAssumption == HOT_CAP \in Nat \ {0}
ASSUME FlushRatioAssumption == FlushNum \in Nat /\ FlushDen \in Nat \ {0}
ASSUME BoundsAssumption == MaxDup \in Nat /\ MaxStamp \in Nat
ASSUME AnswerAssumption == WindowsCover \in BOOLEAN /\ Miss \notin Nat

VARIABLES hot,        \* hot_buf_, entries per key, oldest first
          hot_size,   \* hot_size_
          buf,        \* buf_, the warm buffer
          buf_size,   \* buf_.size()
          data,       \* keys_ and vals_
          n,          \* keys_.size()
          stamp,      \* the next value a caller hands in
          overbuilt,  \* the last build left buffered entries in front of its data
          ret         \* what the last call returned

vars == <<hot, hot_size, buf, buf_size, data, n, stamp, overbuilt, ret>>

Values == 0..MaxStamp
Tier == [Keys -> Seq(Values)]
NoEntries == [k \in Keys |-> <<>>]

(* The places of an array of the code, given its entries per key, and its  *)
(* length.                                                                 *)
Places(tier) == UNION {{k} \X DOMAIN tier[k] : k \in Keys}
TierSize(tier) == Cardinality(Places(tier))

Init ==
  /\ hot = NoEntries /\ hot_size = 0
  /\ buf = NoEntries /\ buf_size = 0
  /\ data = NoEntries /\ n = 0
  /\ stamp = 0
  /\ overbuilt = FALSE
  /\ ret = NoCall

-----------------------------------------------------------------------------
(* std::sort of the hot entries by key leaves the order of equal keys      *)
(* unspecified: any rearrangement of each key's entries.                   *)
Reorderings(s) == {[i \in DOMAIN s |-> s[p[i]]] : p \in Bijection(DOMAIN s, DOMAIN s)}

SortedHot ==
  {tmp \in [Keys -> UNION {Reorderings(hot[k]) : k \in Keys}] :
     \A k \in Keys : tmp[k] \in Reorderings(hot[k])}

(* Slip: a merge that keeps one entry per key, as std::set_union would.    *)
MergeKeepsFirstOnly(first, second) ==
  [k \in Keys |-> IF first[k] # <<>> THEN first[k] ELSE second[k]]

(* std::merge is stable: of equal keys, those of the first array come      *)
(* first.                                                                  *)
MergeTiers(first, second) == [k \in Keys |-> first[k] \o second[k]]

(* size_t(keys_.size() * flush_ratio)                                      *)
FlushThreshold(len) == (len * FlushNum) \div FlushDen

-----------------------------------------------------------------------------
(* build(): the caller's sorted array replaces keys_ and vals_; the        *)
(* buffers are not cleared.                                                *)
Build ==
  /\ stamp + MaxDup <= MaxStamp
  /\ \E cnt \in [Keys -> 0..MaxDup] :
       LET given == [k \in Keys |-> [i \in 1..cnt[k] |-> stamp + i - 1]]
       IN data' = given /\ n' = TierSize(given)
  /\ stamp' = stamp + MaxDup
  /\ overbuilt' = (hot_size + buf_size > 0)
  /\ ret' = [op |-> "build"]
  /\ UNCHANGED <<hot, hot_size, buf, buf_size>>

(* Slip: an off-by-one in the capacity test of the hot buffer.             *)
InsertHotOverCap(k) ==
  /\ hot_size <= HOT_CAP
  /\ hot' = [hot EXCEPT ![k] = Append(@, stamp)]
  /\ hot_size' = hot_size + 1
  /\ UNCHANGED <<buf, buf_size, data, n, overbuilt>>

(* insert(), hot_buf_ not full: append.                                    *)
InsertHot(k) ==
  /\ hot_size < HOT_CAP
  /\ hot' = [hot EXCEPT ![k] = Append(@, stamp)]
  /\ hot_size' = hot_size + 1
  /\ UNCHANGED <<buf, buf_size, data, n, overbuilt>>

(* Slip: a full hot buffer sends the new entry straight to the warm one.   *)
InsertBypassesHot(k) ==
  /\ hot_size = HOT_CAP
  /\ buf' = [buf EXCEPT ![k] = Append(@, stamp)]
  /\ buf_size' = buf_size + 1
  /\ UNCHANGED <<hot, hot_size, data, n, overbuilt>>

(* Slip: the flush test is made before the merge, on the old buffer size.  *)
InsertTestsBeforeMerge(k) ==
  /\ hot_size = HOT_CAP
  /\ \E tmp \in SortedHot :
       LET warm == MergeTiers(buf, tmp)
           fresh == [NoEntries EXCEPT ![k] = <<stamp>>]
       IN \/ /\ n = 0 \/ buf_size < FlushThreshold(n)
             /\ hot' = fresh /\ hot_size' = 1
             /\ buf' = warm /\ buf_size' = buf_size + hot_size
             /\ UNCHANGED <<data, n, overbuilt>>
          \/ /\ n # 0 /\ buf_size >= FlushThreshold(n)
             /\ hot' = NoEntries /\ hot_size' = 0
             /\ buf' = NoEntries /\ buf_size' = 0
             /\ data' = MergeTiers(MergeTiers(warm, fresh), data)
             /\ n' = n + buf_size + hot_size + 1
             /\ overbuilt' = FALSE

(* insert(), hot_buf_ full: merge_hot_to_warm(), start a new hot buffer,   *)
(* and either keep the warm buffer or, once it is large enough for the     *)
(* array behind it, flush_buffer(): merge the new entry too, merge the     *)
(* warm buffer in front of equal keys of the array, clear both buffers.    *)
InsertMerge(k) ==
  /\ hot_size = HOT_CAP
  /\ \E tmp \in SortedHot :
       LET warm == MergeTiers(buf, tmp)
           wsize == buf_size + hot_size
           fresh == [NoEntries EXCEPT ![k] = <<stamp>>]
       IN \/ /\ n = 0 \/ wsize < FlushThreshold(n)
             /\ hot' = fresh /\ hot_size' = 1
             /\ buf' = warm /\ buf_size' = wsize
             /\ UNCHANGED <<data, n, overbuilt>>
          \/ /\ n # 0 /\ wsize >= FlushThreshold(n)
             /\ hot' = NoEntries /\ hot_size' = 0
             /\ buf' = NoEntries /\ buf_size' = 0
             /\ data' = MergeTiers(MergeTiers(warm, fresh), data)
             /\ n' = n + wsize + 1
             /\ overbuilt' = FALSE

Insert(k) ==
  /\ stamp < MaxStamp
  /\ stamp' = stamp + 1
  /\ ret' = NoCall
  /\ InsertHot(k) \/ InsertMerge(k)

(* What model_lookup() may answer: any entry of the key, since the search  *)
(* stops at the first equal key it probes.                                 *)
ModelAnswers(k) ==
  IF data[k] = <<>> THEN {Miss}
  ELSE Range(data[k]) \cup (IF WindowsCover THEN {} ELSE {Miss})

(* Slip: the warm buffer is looked at before the hot one.                  *)
LookupWarmFirst(k) ==
  IF buf[k] # <<>> THEN {Head(buf[k])}
  ELSE IF hot[k] # <<>> THEN {Head(hot[k])}
  ELSE ModelAnswers(k)

(* Slip: the warm buffer is not looked at.                                 *)
LookupSkipsWarm(k) ==
  IF hot[k] # <<>> THEN {Head(hot[k])} ELSE ModelAnswers(k)

(* lookup(): the oldest hot entry, else the first warm entry, else the     *)
(* model.                                                                  *)
LookupAnswers(k) ==
  IF hot[k] # <<>> THEN {Head(hot[k])}
  ELSE IF buf[k] # <<>> THEN {Head(buf[k])}
  ELSE ModelAnswers(k)

Lookup(k) ==
  /\ \E a \in LookupAnswers(k) : ret' = [op |-> "lookup", key |-> k, val |-> a]
  /\ UNCHANGED <<hot, hot_size, buf, buf_size, data, n, stamp, overbuilt>>

(* lookup_hint(), both its direct leaf search and its fallback: the model  *)
(* only.                                                                   *)
LookupHint(k) ==
  /\ \E a \in ModelAnswers(k) : ret' = [op |-> "lookup_hint", key |-> k, val |-> a]
  /\ UNCHANGED <<hot, hot_size, buf, buf_size, data, n, stamp, overbuilt>>

Next ==
  \/ Build
  \/ \E k \in Keys : Insert(k) \/ Lookup(k) \/ LookupHint(k)

Spec == Init /\ [][Next]_vars

-----------------------------------------------------------------------------
(* Type correctness of the buffer state.                                   *)
TypeOK ==
  /\ hot \in Tier /\ buf \in Tier /\ data \in Tier
  /\ hot_size \in 0..HOT_CAP
  /\ buf_size \in Nat
  /\ n \in Nat
  /\ stamp \in 0..MaxStamp
  /\ overbuilt \in BOOLEAN

(* size() counts keys_.size() + buf_.size() + hot_size_: every counter is  *)
(* the number of entries its array holds, so an entry is in exactly one    *)
(* tier at a time and none is counted twice or dropped by a merge.         *)
SizesMatch ==
  /\ hot_size = TierSize(hot)
  /\ buf_size = TierSize(buf)
  /\ n = TierSize(data)

(* The order of the tiers is the order of time: the hot entries were       *)
(* inserted after all warm ones, and the warm ones after everything in the *)
(* array unless a build ran over a non-empty buffer.                       *)
OlderThan(lower, upper) ==
  \A k \in Keys : \A a \in Range(lower[k]), b \in Range(upper[k]) : a < b

VersionOrder ==
  /\ OlderThan(buf, hot)
  /\ ~overbuilt => OlderThan(data, buf) /\ OlderThan(data, hot)

(* lookup() looks in hot, warm, model in that order.  With the order of    *)
(* the tiers this bounds how stale an answer can be: it is newer than      *)
(* every entry of the key in the tiers below the one it came from, so only *)
(* entries of that same tier can be newer, and a miss means that neither   *)
(* buffer holds the key.                                                   *)
Newest(s, a) == \A b \in Range(s) : b < a

StaleOnlyWithinTier ==
  (ret # NoCall /\ ret.op = "lookup") =>
    LET k == ret.key  a == ret.val IN
    /\ hot[k] # <<>> =>
         a \in Range(hot[k]) /\ Newest(buf[k], a) /\ (~overbuilt => Newest(data[k], a))
    /\ (hot[k] = <<>> /\ buf[k] # <<>>) =>
         a \in Range(buf[k]) /\ (~overbuilt => Newest(data[k], a))

(* The merge of insert() flushes as soon as the warm buffer reaches the    *)
(* flush ratio of the array: after any call the warm buffer is empty or    *)
(* below it, as long as there is an array and no build ran over a          *)
(* non-empty buffer.                                                       *)
WarmBelowRatio ==
  n # 0 /\ ~overbuilt => buf_size = 0 \/ buf_size < FlushThreshold(n)

-----------------------------------------------------------------------------
(* The entries the buffers hold are pending, those of the array committed. *)
pendingOf == [k \in Keys |-> Range(hot[k]) \cup Range(buf[k])]
committedOf == [k \in Keys |-> Range(data[k])]

Contract == INSTANCE IndexContract
              WITH pending <- pendingOf, committed <- committedOf,
                   MayMiss <- ~WindowsCover

(* Whatever the buffers do, merge and flush lose no entry, invent none,    *)
(* and a buffered entry is always found: insert, lookup, lookup_hint and   *)
(* build implement the contract.                                           *)
ImplementsContract == Contract!ContractSpec

(* The comment in lookup_hint() calls its search of the model alone        *)
(* "Fallback to full lookup", and the benchmarks take lookup as finding    *)
(* every key that was inserted; a buffered key is not found by it.         *)
HintFallbackIsFullLookup ==
  (ret # NoCall /\ ret.op = "lookup_hint" /\ ret.val = Miss) =>
     hot[ret.key] = <<>> /\ buf[ret.key] = <<>>
=============================================================================
