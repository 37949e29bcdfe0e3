--------------------------- MODULE SortedMultimap ---------------------------
(***************************************************************************)
(* What a data node of the ALEX baseline promises the tree above it: a     *)
(* multimap whose entries of one key keep the order in which they came.    *)
(* An insert may be refused, and then changes nothing; it is for the       *)
(* caller to split the node or to train it again.                          *)
(***************************************************************************)
EXTENDS Integers, Sequences, SequencesExt, FiniteSetsExt

CONSTANTS Keys, Payloads

VARIABLES items,   \* the payloads of each key, oldest first
          ret      \* the last operation and its result: 0 or the reason of a refusal,
                 \* the number of entries erased

Refusals == 1..3

Init == items \in [Keys -> Seq(Payloads)] /\ ret = <<"layout", 0>>

Insert(k, p) == ret' = <<"insert", 0>> /\ items' = [items EXCEPT ![k] = Append(@, p)]

Refuse == ret' \in {"insert"} \X Refusals /\ UNCHANGED items

(* Erase the oldest entry of a key, if there is one.                       *)
EraseOne(k) ==
  IF items[k] = <<>> THEN ret' = <<"erase_one", 0>> /\ UNCHANGED items
  ELSE ret' = <<"erase_one", 1>> /\ items' = [items EXCEPT ![k] = Tail(@)]

(* Erase one given entry: an iterator stands on it.                        *)
EraseEntry(k, i) ==
  /\ ret' = <<"erase_at", 1>>
  /\ items' = [items EXCEPT ![k] = RemoveAt(@, i)]

(* Erase every entry of a key, or of the keys of a range, which may have   *)
(* none.                                                                   *)
EraseKeys(gone) ==
  /\ \A j, k \in gone : {i \in Keys : j <= i /\ i <= k} \subseteq gone
  /\ ret' = <<"erase", MapThenSumSet(LAMBDA k : Len(items[k]), gone)>>
  /\ items' = [k \in Keys |-> IF k \in gone THEN <<>> ELSE items[k]]

(* The node is laid out anew, or gives up the entries outside of a stretch *)
(* of it: those in front of some entry of one key, and those behind some   *)
(* entry of another.                                                       *)
Keep ==
  /\ ret' = <<"layout", 0>>
  /\ LET was == items
         is == items'
     IN \E low, high \in Keys :
          \A k \in Keys :
            IF k < low \/ k > high THEN is[k] = <<>>
            ELSE /\ low < k => IsPrefix(is[k], was[k])
                 /\ k < high => IsSuffix(is[k], was[k])
                 /\ \E i \in 0..Len(was[k]) - Len(is[k]) :
                      is[k] = SubSeq(was[k], i + 1, i + Len(is[k]))

Next ==
  \/ Refuse
  \/ Keep
  \/ \E k \in Keys : EraseOne(k)
  \/ \E k \in Keys : \E i \in DOMAIN items[k] : EraseEntry(k, i)
  \/ \E gone \in SUBSET Keys : EraseKeys(gone)
  \/ \E k \in Keys, p \in Payloads : Insert(k, p)

Spec == Init /\ [][Next]_<<items, ret>>
=============================================================================
