---------------------------- MODULE LeafWindows ----------------------------
(***************************************************************************)
(* The leaves of a built index and the windows they search: rebuild_       *)
(* routing() segments and calibrates them, every lookup that finds its key *)
(* widens or narrows the window it found it in (track_hit()), and          *)
(* ldz_partial_repair() segments the leaves with many large errors anew    *)
(* and splices the result in.                                              *)
(*                                                                         *)
(* Routing leads to the leaf that owns the key whatever the models above   *)
(* the leaves predict (LeafRouting), and the search of a window finds what *)
(* is in it (LeafSearch); here both are one step.  When lookup() repairs   *)
(* is DriftControl's business; here it may after every query.              *)
(***************************************************************************)
EXTENDS Segmentation, SequencesExt

CONSTANTS Arrays,        \* the arrays build() is called with
          NewKeys,       \* keys that flush_buffer() merges into keys_
          MaxKeys,       \* bound: the largest array
          Epsilon,       \* cfg_.epsilon
          TrackMisses,   \* cfg_.track_misses
          DecayEvery,    \* 128: queries between two decays of a window
          LdzThreshold,  \* 5: large errors that make a leaf hot
          MaxErrs        \* 65535: seg_errs saturates

ASSUME BoundsAssumption ==
  /\ MaxKeys \in Nat /\ DecayEvery \in Nat \ {0}
  /\ Epsilon \in 1..64 /\ TrackMisses \in BOOLEAN
  /\ LdzThreshold \in Nat \ {0} /\ MaxErrs \in Nat /\ MaxErrs >= LdzThreshold

IsArray(a) ==
  /\ \E n \in 0..MaxKeys : a \in [0..n-1 -> Nat]
  /\ \A i, j \in DOMAIN a : i <= j => a[i] <= a[j]

ASSUME KeysAssumption ==
  /\ \A a \in Arrays : IsArray(a) /\ a # <<>>
  /\ NewKeys \subseteq Nat

VARIABLES keys,        \* keys_
          leaves,      \* leaves_
          cached_eps,  \* cached_eps_
          queries,     \* queries_since_repair_, modulo DecayEvery
          short,       \* how doubles round, see Segmentation
          fresh        \* history: the leaves are as a full rebuild left them

vars == <<keys, leaves, cached_eps, queries, short, fresh>>

(* Before build().                                                         *)
Init ==
  /\ keys = <<>> /\ leaves = <<>> /\ cached_eps = 8 /\ queries = 0
  /\ short \in BOOLEAN
  /\ fresh = FALSE

-----------------------------------------------------------------------------
(* seg_keys_, kept in step with leaves_.                                   *)
seg_key(s) == keys[leaves[s].pos_lo]

(* The leaf a key is routed to: the last one that does not start after it, *)
(* the first for a key before all of them.                                 *)
Owner(k) ==
  Max({1} \cup {s \in DOMAIN leaves : seg_key(s) <= k})

(* The window around the prediction, and the positions in it at which the  *)
(* search may return the key.  It compares the key at the prediction       *)
(* first; and the position just past the window is returned, and compared, *)
(* when all keys of the window are smaller.                                *)
Center(k) == PredictBiased(leaves[Owner(k)], k, short)

Hits(k) ==
  LET l == leaves[Owner(k)]
      wlo == Max({l.pos_lo, Center(k) - l.seg_eps})
      past == Min({Center(k) + l.seg_eps + 1, l.pos_hi - 1})
  IN IF keys[Center(k)] = k
       THEN {Center(k)}
       ELSE {pos \in wlo..past : keys[pos] = k}

Stored == {keys[i] : i \in DOMAIN keys}
Findable == {k \in Stored : Hits(k) # {}}

-----------------------------------------------------------------------------
(* rebuild_routing() over the keys a, the epsilon search starting at eps.  *)
Rebuild(a, eps) ==
  /\ keys' = a
  /\ cached_eps' = ChooseEps(a, eps)
  /\ leaves' = BuildLeaves(a, cached_eps', short)
  /\ queries' = 0
  /\ fresh' = TRUE
  /\ UNCHANGED short

build == \E a \in Arrays : Rebuild(a, Epsilon)

(* flush_buffer() merges the buffered keys, each before the stored ones    *)
(* equal to it; one key here.                                              *)
Merge(a, k) ==
  LET at == Cardinality({i \in DOMAIN a : a[i] < k})
  IN [i \in 0..Size(a) |->
        IF i < at THEN a[i] ELSE IF i = at THEN k ELSE a[i-1]]

flush_buffer ==
  /\ keys # <<>> /\ Size(keys) < MaxKeys
  /\ \E k \in NewKeys : Rebuild(Merge(keys, k), cached_eps)

force_rebuild == keys # <<>> /\ Rebuild(keys, cached_eps)

-----------------------------------------------------------------------------
Slice(l) == [i \in 0..l.pos_hi-l.pos_lo-1 |-> keys[l.pos_lo + i]]
IsHot(l) == l.seg_errs >= LdzThreshold

(* Slip: the positions of the new segments stay relative to the slice.     *)
ResegmentLocal(l) ==
  CalibrateAll(pgm_build(Slice(l), cached_eps), Slice(l), short)

(* The segments of a leaf's slice, moved to their place in the array.  The *)
(* line is not moved with them.                                            *)
Resegment(l) ==
  LET segs == CalibrateAll(pgm_build(Slice(l), cached_eps), Slice(l), short)
  IN [s \in DOMAIN segs |->
        [segs[s] EXCEPT !.pos_lo = @ + l.pos_lo, !.pos_hi = @ + l.pos_lo]]

Halved(segs) == [s \in DOMAIN segs |-> [segs[s] EXCEPT !.seg_errs = @ \div 2]]

(* Slip: the leaves that are not hot are segmented anew as well.           *)
SpliceAll(segs) ==
  Halved(FlattenSeq([s \in DOMAIN segs |-> Resegment(segs[s])]))

(* Every hot leaf is replaced where it stands.                             *)
Splice(segs) ==
  Halved(FlattenSeq([s \in DOMAIN segs |->
           IF IsHot(segs[s]) THEN Resegment(segs[s]) ELSE <<segs[s]>>]))

(* ldz_partial_repair() of the leaves segs; a full rebuild if none is hot. *)
PartialRepair(segs) ==
  IF \E s \in DOMAIN segs : IsHot(segs[s])
    THEN /\ leaves' = Splice(segs)
         /\ queries' = 0
         /\ fresh' = FALSE
         /\ UNCHANGED <<keys, cached_eps, short>>
    ELSE Rebuild(keys, cached_eps)

force_repair == keys # <<>> /\ PartialRepair(leaves)

-----------------------------------------------------------------------------
(* Slip: a window shrinks at every query.                                  *)
TrackedEager(l, err, q) ==
  LET eps == IF err >= l.seg_eps THEN err + 4
             ELSE IF l.seg_eps > 1 THEN l.seg_eps - 1 ELSE l.seg_eps
  IN [l EXCEPT !.seg_eps = eps,
               !.seg_errs = IF err > eps \div 2 /\ @ < MaxErrs
                              THEN @ + 1 ELSE @]

(* Slip: a window of one shrinks.                                          *)
TrackedToNothing(l, err, q) ==
  LET eps == IF err >= l.seg_eps /\ err > 0 THEN err + 4
             ELSE IF q = 0 THEN l.seg_eps - 1 ELSE l.seg_eps
  IN [l EXCEPT !.seg_eps = eps,
               !.seg_errs = IF err > eps \div 2 /\ @ < MaxErrs
                              THEN @ + 1 ELSE @]

(* track_hit(): a key found err positions from the prediction by the q-th  *)
(* query.                                                                  *)
Tracked(l, err, q) ==
  LET eps == IF err >= l.seg_eps THEN err + 4
             ELSE IF l.seg_eps > 1 /\ q = 0 THEN l.seg_eps - 1 ELSE l.seg_eps
  IN [l EXCEPT !.seg_eps = eps,
               !.seg_errs = IF err > eps \div 2 /\ @ < MaxErrs
                              THEN @ + 1 ELSE @]

NextQuery == (queries + 1) % DecayEvery
Distance(a, b) == IF a >= b THEN a - b ELSE b - a

(* The leaves after a search for k: a hit is tracked in the leaf it is in. *)
Searched(k) ==
  IF Hits(k) = {}
    THEN {leaves}
    ELSE {[leaves EXCEPT
             ![Owner(k)] = Tracked(@, Distance(pos, Center(k)), NextQuery)] :
            pos \in Hits(k)}

(* model_lookup(); a miss counts as a query if misses are tracked.         *)
model_lookup(k) ==
  /\ keys # <<>>
  /\ leaves' \in Searched(k)
  /\ queries' = IF Hits(k) # {} \/ TrackMisses THEN NextQuery ELSE queries
  /\ fresh' = (fresh /\ Hits(k) = {})
  /\ UNCHANGED <<keys, cached_eps, short>>

(* lookup() goes on to repair the index if a detector asks for it.         *)
lookup(k) ==
  \/ model_lookup(k)
  \/ /\ keys # <<>>
     /\ \/ \E segs \in Searched(k) : PartialRepair(segs)
        \/ Rebuild(keys, cached_eps)

(* lookup_hint() never repairs.  With a hint that brackets the key it      *)
(* searches the leaf itself, which is the owner, and counts no miss.       *)
lookup_hint(k) ==
  \/ model_lookup(k)
  \/ keys # <<>> /\ Hits(k) = {} /\ UNCHANGED vars

Next ==
  \/ build \/ flush_buffer \/ force_rebuild \/ force_repair
  \/ \E k \in Stored \cup NewKeys : lookup(k) \/ lookup_hint(k)

Spec == Init /\ [][Next]_vars

-----------------------------------------------------------------------------
(* Type correctness: in particular a window is never empty.                *)
IsLeaf(l) ==
  /\ l.pos_lo \in 0..MaxKeys /\ l.pos_hi \in 1..MaxKeys
  /\ l.slope[1] \in Int /\ l.slope[2] \in Nat \ {0}
  /\ l.k0 \in Nat /\ l.i0 \in 0..MaxKeys
  /\ l.bias \in -MaxKeys..MaxKeys
  /\ l.seg_eps \in 1..MaxKeys + Epsilon + 4
  /\ l.seg_errs \in 0..MaxErrs

TypeOK ==
  /\ IsArray(keys)
  /\ \A s \in DOMAIN leaves : IsLeaf(leaves[s])
  /\ cached_eps \in 1..64 /\ queries \in 0..DecayEvery-1
  /\ short \in BOOLEAN /\ fresh \in BOOLEAN

(* However often leaves are segmented anew and spliced in, they cut the    *)
(* array into consecutive parts that are not empty.                        *)
LeavesTileKeys ==
  keys # <<>> =>
    /\ leaves # <<>>
    /\ leaves[1].pos_lo = 0 /\ leaves[Len(leaves)].pos_hi = Size(keys)
    /\ \A s \in DOMAIN leaves : leaves[s].pos_lo < leaves[s].pos_hi
    /\ \A s \in 1..Len(leaves)-1 : leaves[s].pos_hi = leaves[s+1].pos_lo

(* The line of a leaf passes within cached_eps_ of every key of the leaf,  *)
(* up to the rounding of doubles: for a leaf of a partial repair, of the   *)
(* key's position in the slice it was made from.  Keys equal to the first  *)
(* do not narrow the cone and may be farther.                              *)
LinesWithinEps ==
  \A s \in DOMAIN leaves :
    LET l == leaves[s]
        offset == l.pos_lo - l.i0
    IN \A i \in l.pos_lo..l.pos_hi-1 :
         keys # <<>> /\ keys[i] # keys[l.pos_lo] =>
           Distance(Line(l, keys[i], short) + offset, i)
             <= IF short THEN cached_eps + 1 ELSE cached_eps

(* After a full rebuild every stored key is found, if the epsilon search   *)
(* went down to two: the bias, which the windows are not calibrated for,   *)
(* is then small.                                                          *)
RebuiltFindsStored == fresh /\ cached_eps <= 2 => Findable = Stored

(* Before any hit moves a window, a built index finds every stored key.    *)
FreshFindsStored == fresh => Findable = Stored

(* A query loses no key: it can only widen a window, except when the       *)
(* windows decay, which sets the count to zero as repairs do.              *)
QueryLosesNoKey == [][queries' # 0 => Findable \subseteq Findable']_vars

(* A partial repair is local: the keys of leaves that are not hot are      *)
(* found after it if they were before.                                     *)
ColdKeys == {k \in Stored : ~IsHot(leaves[Owner(k)])}

RepairIsLocal ==
  [][force_repair /\ ~fresh' => Findable \cap ColdKeys \subseteq Findable']_vars

(* A partial repair loses no key.                                          *)
RepairLosesNoKey ==
  [][force_repair /\ ~fresh' => Findable \subseteq Findable']_vars
=============================================================================
