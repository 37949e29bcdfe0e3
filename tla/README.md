# A TLA+ model of the Neural Learned Index

This directory models `include/nli_index.hpp` (NLI v7.0) and the four indexes it
is compared with, BTree, RMI, PGM and ALEX with the vendored code behind the
last two, in TLA+. It checks them with TLC on small instances and proves the
most important properties of NLI, of the baselines and of ALEX's data nodes with
TLAPS for every value of the constants.
Line numbers below are those of `include/nli_index.hpp` unless another file is
named.

## 1. The system

The repository is a single-process C++17 library of ordered key/value indexes
and the programs that measure them. Everything is synchronous: there are no
threads, callbacks or messages, and nothing is persisted. What is hard is
state that outlives a call: buffers that hide or reveal older entries, windows
and thresholds that were measured on data that has changed since, counters and
detectors that several paths reset in different ways, and pointer arithmetic on
bounds that come out of a prediction.

| Component | State | Operations | Hard behaviour | Correct when |
|---|---|---|---|---|
| GIDB, the insert buffers | `hot_buf_`, `hot_size_`, `buf_`, `keys_`, `vals_` | `insert`, `lookup`, `lookup_hint`, `build`, `merge_hot_to_warm`, `flush_buffer` | entries move between three tiers inside one call; equal keys; builds over buffered entries | no entry is lost, doubled or hidden; staleness is bounded |
| Routing (SRLM, BREC, guards) | `roots_`, `root_keys_`, `seg_keys_`, `tight_root_eps_` | steps 1-4 of `model_lookup` | two predictions may be wrong by anything; unsigned indices at both ends | the leaf reached holds the key if any leaf does |
| Search in a leaf (CAR, ECS, BLB) | the window, the bracket | steps 5-7 of `model_lookup`, direct search of `lookup_hint` | raw pointers, doubling steps cut to a window | probes stay inside, covered keys are found, the search ends |
| Drift control (EWMA, PH, RCO, WSEWMA, LDZ) | `ewma_`, `ph_`, `saved_*`, `queries_since_repair_`, `seg_errs`, `repair_count_` | `track_hit`, the tracked miss, the alarm in `lookup`, `ldz_partial_repair`, `rebuild_routing`, `force_*` | alarms latched during a cooldown; five ways to rebuild, each with its own subset of save, restart, cooldown, count | repairs keep their distance, alarms are answered, the detector keeps its baseline |
| Segmentation and calibration | `leaves_`, `cached_eps_` | `pgm_build`, `root_build`, BTSC, AFR, SRLM fit | doubles; bias and window measured on different predictions | every stored key lies in its window |
| Adaptive windows | `seg_eps`, `bias` of each leaf | `track_hit`, re-segmentation in `ldz_partial_repair` | windows shrink while keys stay; local and global positions | stored keys stay findable |
| Baselines BTree, RMI, PGM, ALEX | arrays, trees, pending inserts | `build`, `insert`, `lookup` | pending inserts, counts and arrays that disagree; a rebuild that throws half way | no call loses an entry, stored keys are found |
| PGM-index (`pgm/`) | segments of each level | `build`, `search` | hulls updated in place, runs of equal keys, windows at both ends | segments are the longest, the window has the key |
| ALEX data node (`alex_nodes.h`) | gapped array, bitmap, thresholds | `insert`, `erase*`, `resize`, searches, `bulk_load*` | gaps carry keys that later operations must rewrite; shifts towards the closest gap; words of a bitmap | the array stays sorted, searches are exact, it is a sorted multimap |
| ALEX tree (`alex.h`, `alex_base.h`) | model nodes, linked data nodes, the key domain | `bulk_load`, `insert`, `erase*`, `find`, bounds, `clear` | splits and expansions redirect runs of pointers; merges repair two links and a path; boundaries are rounded | every key is reached, links and paths are exact |
| ALEX fanout tree (`alex_fanout_tree.h`) | none kept | three searches for a fanout | costs kept incrementally while nodes are merged | a fanout costs what it is taken to cost |
| Data sets and measuring (`common.hpp`) | none kept | generators, SOSD reader, timers | truncated files | - |
| Benchmarks and tests (`benchmark/`) | loop state | drivers | the drift benchmark reads `n_repairs()` as its detection signal | - |
| Figures, reports, downloads, build scripts | - | - | batch programs | - |

How they interact: `lookup` asks the hot buffer, the warm buffer and then
`model_lookup`, which routes the key to a leaf, searches the leaf's window and
reports the prediction error to `track_hit`; `track_hit` feeds the detectors,
and `lookup` then answers an alarm by repairing the leaves. `insert` fills the
buffers and, when the warm one is large enough, flushes it into the arrays,
which rebuilds everything and restarts the detectors. `lookup_hint` skips both
the buffers and the alarm. The benchmarks call all of these and read
`n_repairs()`. They call the baselines in the same way: the BTree and the RMI are
complete in their headers, `PGMIndex` keeps arrays beside a PGM-index it rebuilds
at every flush, and `ALEXIndex` hands every call to the vendored tree, whose data
nodes store the entries and whose splits ask the fanout tree how.

## 2. The modules

| Module | Models | State in the code |
|---|---|---|
| `IndexContract` | what a user may rely on: a multi-valued map whose pending entries hide committed ones | - (abstract) |
| `InsertBuffer` | GIDB: `build`, `insert`, `lookup`, `lookup_hint` | `hot` = `hot_buf_`, `buf` = `buf_`, `data` = `keys_`/`vals_`, with `hot_size`, `buf_size`, `n` kept separately as the code keeps them |
| `LeafSearch` | the window, `ecs_search`, `blb`; one action per loop iteration | `p`, `wlo`, `whi`, `step`, `base`, `len`, the position returned |
| `LeafRouting` | steps 1-4 of `model_lookup`; one action per loop iteration | `rlo`, `blb_lo`, `blb_hi`, `sidx` |
| `DriftControl` | detectors, cooldown, alarm, repairs, warm restart | `det` = `ewma_` and `ph_`, `saved`, `queries`, `seg_errs`, `repair_count` |
| `Segmentation` | `pgm_build`, BTSC, AFR as operators over small integer keys | the leaves, with `slope` as a fraction and `intercept` as the point `k0`, `i0` |
| `LeafWindows` | the leaves under `build`, flushes, lookups and repairs | `keys_`, `leaves_`, `cached_eps_`, `queries_since_repair_` |
| `Entries` | sorted arrays of entries | `KV`, `std::sort`, `std::unique`, `std::lower_bound` as the baselines use them |
| `BTreeBaseline` | `btree_index.hpp` | leaves, levels of inner nodes, `pending_inserts_`, `n_`, `height_` |
| `RmiBaseline` | `rmi_index.hpp` | `keys_`/`vals_`, the root line, `leaves_`, `pending_`, `n_` |
| `PgmBaseline` | `pgm_index.hpp` | `data_`/`vals_`, `inserts_`, `pgm_`, `size_` |
| `AlexBaseline` | `alex_index.hpp` | the number of entries of each key in `idx_`, `size_` |
| `Baselines` | the four under one history of calls | the four states side by side |
| `PiecewiseLinear` | `pgm/piecewise_linear_model.hpp`: hulls and segmentation | - (operators) |
| `PgmIndex` | `pgm/pgm_index.hpp`: levels, descent, window | - (operators) |
| `SortedMultimap` | what a data node of ALEX promises the tree | - (abstract) |
| `AlexDataNode` | `alex_nodes.h`: the gapped array | `node` = `key_slots_`, `payload_slots_` with `bitmap_`, `data_capacity_`, `num_keys_`, the thresholds; `num_inserts_` |
| `FanoutTree` | `alex_fanout_tree.h` | - (operators) |
| `AlexTree` | `alex.h`, `alex_base.h` | `tree` = the nodes and `root_node_`, `dom` = `istats_`, `num` = `stats_.num_keys`, `op` = the insert or load under way |
| `MC*` | instances for TLC | - |
| `Recursion` | induction, the existence of recursive functions, ranks, lines through points | - (lemmas) |
| `*Proofs` | theorems about the module of that name | - |

`InsertBuffer`. A sorted array is determined by the entries of each key in
array order, so each tier is a function from keys to sequences, and a merge is
concatenation key by key, in the order the code's comparison gives equal keys.
`std::sort` is not stable: the hot entries of one key reach the warm buffer in
any order. A value is the number of the insert that brought it, so that age
can be compared. `InsertMerge` is the whole of `insert` from line 552 on: the
merge, the new hot entry, the flush test and the flush. The model search
answers with any entry of the key; with `WindowsCover = FALSE` it may miss.

`LeafSearch` and `LeafRouting`. The predictions are floating-point lines.
Nothing is assumed of them but the clamp the code applies to their result, so
every property holds for every model, good or bad, and for every window and
root epsilon, calibrated or not. What depends on good windows is stated as such:
`SearchExact` speaks of keys inside the window, `ScansExact`
of owners inside theirs. Whether windows do cover the stored
keys is the subject of `LeafWindows`.

`DriftControl`. Errors are levels: a zero error, a low one, one above the
threshold. The EWMA of two levels is any level between them and zero only if
both are, as for a mean with weights 0.05 and 0.95; the Page-Hinkley sum may
pass its bound on any error that is not the lowest so far (on any other its
increment is at most `-ph_delta`). Whether an error is high for the leaf's
window is a nondeterministic choice, except that a zero error is high for no
window. `queries` is exact up to the cooldown and then kept modulo the sampling
interval, which is all the code looks at (`& 15`, `< REPAIR_COOLDOWN`). A key
found in a buffer returns before the model and the alarm, which is a step that
changes nothing. Ghost variables: `trigger` (what was true when the last
alarm was answered), `seen` (highest sample since the detectors restarted),
`age` (tracked queries since the segments were last rebuilt) and `repairs`.
The set of leaves is constant: a leaf that a partial repair splits keeps one
error count, 0, as all its pieces do.

`Segmentation` computes with integers. The cone compares fractions by cross
multiplication; a line is kept by its slope and the point it starts from, which is
what `intercept = i0 - slope * k0` (:311) says. In doubles the value of a line at
an exact integer may come out just below it, and `static_cast<int>` then drops a
position: `short` chooses whether this happens, for all keys of an index alike.
The code's tolerance of 1e-12 between slopes has no effect on small keys. The
leaves, biases and windows the module computes were compared with those of the
compiled code for 120 random arrays of up to 24 keys at two values of epsilon, and
are equal.

`LeafWindows` takes routing and the search of a window as one step each, which is
what `LeafRouting` and `LeafSearch` establish of them: a key is searched in the
last leaf that does not start after it, and found if it is in the window or just
past it. `lookup` may repair after any query (when it does is `DriftControl`'s
subject), `lookup_hint` never does. A repair replaces every hot leaf where it
stands by the segments of its slice; their positions are moved to the place of the
slice, their lines are not, as in the code. `fresh` is a history variable: no hit and no
partial repair since the last full rebuild. A flush merges one key. `use_btsc` is
on, as in every configuration but one of the ablation.

`BTreeBaseline`, `RmiBaseline`, `PgmBaseline`. Arrays are sequences of entries.
`std::sort` leaves equal keys in any order, so a flush that keeps the first of a
run keeps any; a value only tells a built entry from an inserted one. Lines are
exact fractions, with the choice of `Segmentation` for the cast; a read past the
array, or of a line before the first build, yields anything. `PgmBaseline` also has
the flush inside `lookup`, and the rebuild that throws when the last key is the
greatest of its type: `flush` has swapped in the merged arrays and emptied the
list by then (pgm_index.hpp:79-81).

`PiecewiseLinear` and `PgmIndex` follow the code step by step: the two hulls
with their start indices, the rectangle of extreme slopes, the extra point
behind a run of equal keys, and the sentinel segment at the end of each level.
Slopes are stored as floats: where an exact value is an integer, both that and
the integer below are possible. `make_segmentation_par` splits the work only
under OpenMP, which no build file turns on, so it is one call of
`make_segmentation`.

`AlexDataNode`. The linear model is used to lay entries out and to start a
search: a layout takes any nondecreasing function from keys to slots, a search
starts at any slot, so the properties hold for every model. The cost model
decides when an insert is refused (and the tree then splits or retrains); it
may refuse whenever the code asks it, every `CheckPeriod` inserts. The word
behind the bitmap in memory, which `get_next_filled_position` reads when it
starts at a capacity that is a multiple of 64 (alex_nodes.h:1517), has the bits
`StrayBits`: at most the first in `alex_node`, with which the answer is the end as it
should be, and another in `MCAlexDataNodeStray.cfg`. A place behind the end is kept as such
by the searches; a key that is read or erased there is any.

`AlexTree`. A data node is the bag of its keys, which is what `AlexDataNode`
justifies. An insert is several steps, as the loop in `insert` is: refused,
the parent is split, and it tries again. The costs that choose a fanout are any
of `CostPatterns`; the choice itself is the code's, in `FanoutTree`. A model node
has a `hair` for each key of `Rounded`: whether its line passes a hair below the
exact value there, through it or a hair above. A model is made with any hair, an expansion to the
left shifts the line and draws a new one (from `ShiftHairs`), one to the right keeps
the line. A hair tells when the key lies on a boundary of buckets: below it the
prediction is one bucket too low, and `get_leaf` then looks at the data node on the right
(`GoesRight`, alex.h:437), otherwise at the one on the left (`GoesLeft`, :424). A key
on a boundary may come to lie on either side of it when nodes are made, within what the
loops that account for off-by-one errors leave open (`InFront`). The cast of a
prediction to `int` yields the least one when none holds it, as on x86 (`AsInt`).
`level_` is left out: only its bounds for splitting upwards read it.

## 3. The runs

| Run | Instance | Shows |
|---|---|---|
| `gidb_contract` | 2 keys, `HOT_CAP` 2, ratio 3/2, 9 values, symmetric keys | the buffers refine `IndexContract`; counters match arrays; tiers are ordered by age; an answer is stale at most within its tier; the warm buffer stays below the ratio |
| `leaf_search` | all sorted arrays of up to 4 keys out of 3, one of 12 keys, every leaf, prediction, key and window up to 9 | probes stay in the window, covered keys are found, misses are insertion points, probes are logarithmic in the error, every search returns |
| `leaf_routing` | every two-level partition of 6 keys (distinct, in pairs, two runs), every prediction, root epsilon 2 and 3 | routing reaches a leaf that holds the key; the scan and the guards do what their windows promise |
| `drift_control` | 1 leaf, levels 0, 1, 4, warm-up 2 samples, sampling every 2, cooldown 4, six configurations | no alarm without a baseline, no baseline lost after an alarm, repairs spaced by a cooldown and all counted; a latched alarm is answered when the cooldown ends, unless a rebuild cleared it first |
| `alex_node` | 2 keys, 2 symmetric payloads, up to 4 entries in up to 6 slots, a cost check every 2 inserts | the gapped array keeps its structure, every search is exact from any start, `closest_gap` returns a closest gap, and the node refines `SortedMultimap` |
| `alex_tree` | 3 keys far above 0, up to 2 entries each and 3 in all, fanouts up to 4, five cost patterns | pointers, duplication factors and stretches of model nodes agree; every key is reached by `get_leaf` and lies in no other node; links, bounds and `find_last_no_greater_than` are exact; the costs kept while merging are the costs of the result |
| `baselines` | 8 arrays of up to 14 of 8 keys, 3 inserts of 2 keys (one the greatest of the type), a second build, 2 separators per node, epsilon 1 | no call loses or invents an entry; separators and windows lead to every stored key; the PGM's window is right for every key, and no segment could be longer |
| `leaf_windows` | three arrays of 8 or 9 keys, flushes up to 9, epsilon 4, decay every 2 queries, hot after 1 error | the leaves tile the array after every splice, lines keep within epsilon (and one, for rounding), a rebuild at epsilon 2 finds every key, only a decay or a repair loses one, and a partial repair harms no leaf it does not replace |

Runs that are expected to be violated, each a statement of a document or comment
that the code does not keep:

| Run | Statement | What happens |
|---|---|---|
| `leaf_windows_build` | :725 "tight guaranteed window", asan_test.cpp:96 all keys must be found after a build | with the default epsilon one of 60 keys is outside its window: the window was measured without the bias |
| `leaf_windows_repair` | :899 a repair patches the positions back | the lines stay relative to the slice, and keys found before are lost |
| `alex_clipped` | alex/alex.h:1484 keys of the outermost node are reassigned to the new data nodes that cover them | after an expansion to the left cut off at the least key, the next one to the right hands keys out in steps of the domain, which is narrower than the root: a key ends in a node it is not routed to |
| `alex_path` | alex/alex.h:395 the path `get_leaf` returns "ends with the data node's parent" | the bucket of an ancestor is corrected in a record that was popped (:497, :524), and the path ends where a model node hangs; `merge` then redirects a whole subtree |

Both of ALEX were confirmed with the compiled code. `alex_clipped`: one key is not found
any more, and `validate_structure` fails. `alex_path`: 300,000 keys in a bulk load, eight
inserts beyond 2^19 times the domain, `erase_one` of the former greatest key, and no other key
is found.

Seven more configurations are not among the runs of `PROJECT.json` and are
there to be run by hand; TLC finds each violated:

| Configuration of its module | Statement | What happens |
|---|---|---|
| `MCDriftNewDrift.cfg`, `RepairAnswersNewDrift` | README.md:116 the cooldown "prevents repair storms on gradual drift" | the restored mean is still above the threshold, so a stable index repairs again after every cooldown |
| `MCDriftZeroBaseline.cfg`, `EwmaFiresAboveBaseline` | README.md:92 the EWMA fires above 3x its baseline | with baseline 0 it never does |
| `MCDriftBlind.cfg`, `RepairKeepsBaseline` | :75 the EWMA is saved before a repair and restored after, which leaves no blind period | only `lookup` saves (:588): before the first answered alarm a forced repair, a flush or a build sends the detector back to its warm-up, later it restores an older state |
| `MCInsertBufferHint.cfg`, `HintFallbackIsFullLookup` | :532 "Fallback to full lookup" | `lookup_hint` never looks into the buffers |
| `MCAlexTreeFar.cfg`, `BoundsExact` | alex/alex.h:938 `lower_bound` returns "the first key no less than the input value" | the bucket of a key far beyond the domain fits no `int`; cast and cut off it is bucket 0 (:413), and the search starts in the first data node |
| `MCAlexDataNodeStray.cfg`, `FindsInRange` | alex/alex_nodes.h:1471 `find_lower` "Returns position in range [0, data_capacity]" | at a capacity that is a multiple of 64 and with the last slot filled, a greater key makes it read the word behind the bitmap (:1526), and a bit there yields a place behind the end |
| `MCDriftCount.cfg`, `RepairCountExact` | :842 the counter is of self-repairs | flushes count, and a partial repair without a worn leaf counts twice |

`MCAlexTreeFar.cfg` was confirmed with the compiled code: with a million dense keys
`lower_bound(2^62)` answers with a stored key. So was `MCAlexDataNodeStray.cfg`:
AddressSanitizer reports the read at capacity 64, and at capacity 128 the answer is 132.

One more, `MCAlexTreeRounded.cfg`, passes: the keys are 128, 160 and 192, of which 160 is rounded
with any hair, also after an expansion to the left. With one level of model nodes predictions that are a
bucket too low or just right are both put right by `get_leaf`, and its path ends at a
bucket that points to the data node (`EveryKeyReached`, `TraversalExact`, `PathEndsAtParent`).

Other differences between documents and code, plain enough to need no run:
either detector starts a repair, where README.md:88 asks for two of four; no
repair flushes the buffers (README.md:98); the warm buffer is bounded by the flush
ratio alone, not by 4,096 entries (README.md:101; `insert_buf_cap` is not read);
and rebuilt segments start with zero errors, where the header (:80) announces
halved counters. The models follow the code.

Bounds, and why they are enough:

- `HOT_CAP` 2 instead of 32: a full buffer needs two entries of one key, for the
  unstable sort, or of two keys; a third insert merges. 9 values allow a build,
  a merge without a flush, a flush, and a build over buffered entries in one behaviour.
- Arrays of up to 4 keys hold duplicates across both edges of a leaf and of a
  window; 12 keys allow three doublings in both directions.
- 6 keys give up to 6 leaves in up to 6 root segments, so that the guard loops
  walk several leaves both ways.
- Warm-up, sampling and cooldown of 2, 2 and 4 keep their order (the cooldown is a
  multiple of the sampling interval, as 2000 is of 16) and let the warm-up end
  both before and after a cooldown. `MaxCount` (2) caps the counters of repairs,
  where `RepairsAccounted` stays meaningful because both are capped alike;
  `MaxErrs` (2) stands for 65535.
- An array of 9 keys holds two or three leaves of several keys at epsilon 2, and a
  leaf that does not start at position 0, whose repair shows the difference
  between local and global positions; one error makes it hot, where the code
  waits for five. Epsilon 4 makes the epsilon search halve. The run of
  `leaf_windows_build` has the constants of the code, and its state, key by key,
  is the one the compiled index builds.

- 4 entries in 6 slots give runs of equal keys with gaps before, inside and
  behind them, shifts both ways, an expansion, a contraction and a split; words
  of the bitmap have two bits instead of 64, so that capacities are multiples of a
  word and shifts cross words; `ClosestGapIsClosest` also cuts the bitmap into words
  of four and of 64 bits, and searches every bitmap of 13 and 18 slots with up to
  three gaps.
- `alex_tree`: keys 128, 144 and 256 make the first expansions double without
  being cut off, put one key on a boundary, and let a data node be split, a parent be
  doubled for it, and neighbours be merged through up to three model nodes.
  `MaxCount` and `MaxTotal` bound the entries, `MinWidth` the depth: a data node
  of fewer key values is not split. 144 is the one key that may be rounded, once in the
  index, and `ShiftHairs` is 0: its hair is that of the bulk load or split that made the model.
  `IntMax` holds every bucket, so the cast is exact.
  The counters of keys outside the domain stop at a bound too (`CountsBounded`),
  since `clear` keeps them. `MCAlexTreeClipped.cfg` has keys close to 0 and one of the patterns.
- `MCAlexTreeRounded.cfg`: the domain of the lower two of 128, 160 and 192 is half of that of all
  three, so that a key lies where one expansion ends or a bulk load is halved, with a
  hair in either direction. One level of model nodes is where the path is right;
  `alex_path` has a root above the old one, which takes a key (256) further out.
  `MCAlexTreeFar.cfg` has an `IntMax` of 20 and a key (1000) whose bucket is above it; expansions by
  such a factor, which overflow an `int` in the code (:1371), are left out of every run.
- `baselines`: at 2 separators per node 14 keys make a tree of three levels; the
  arrays are, among clustered ones, the fewest keys found that give the
  PGM-index three levels or make a wrong turn of a hull visible. Three
  inserts cross every flush threshold and leave one waiting; one build over
  other entries shows what becomes of waiting inserts.

`CHECK_DEADLOCK FALSE` is set for `leaf_search` and `leaf_routing`, where a
search that has returned stops, and for `baselines`, where the bounds on builds
and inserts stop the callers.

Fairness. `leaf_search` assumes that the loop that runs goes on
(weak fairness of `Next`): sequential code does. `drift_control` assumes that
callers keep looking up stored keys that no buffer answers (weak fairness of
`Hit`); nothing else advances the counter the cooldown waits for, and a latched
alarm is indeed never answered if only buffered or hinted keys are looked up.

## 4. What is proved

All theorems hold for every value of the constants under the named assumptions of
the modules; TLC evaluates these on each run.

- `InsertBufferProofs`. The inductive invariant `IInv` is type correctness, the
  sizes, the order of the tiers, and that every stored value was handed out
  before the next one (without which the order of the tiers is not inductive: the
  new entry must be newer than all others). From it follow `SizesCorrect`,
  `TiersOrdered`, `WarmBounded`, `BoundedStaleness` and
  `BufferImplementsContract`, the refinement: each action of `InsertBuffer`
  maps to `Load`, `Put`, `Get`, `GetHinted` or a stutter of `IndexContract`.
  Assumed: finitely many keys, a positive `HOT_CAP`.
- `LeafSearchProofs`. `SearchInv` bounds the step by the window and brackets the
  key: everything of the window left of the bracket is smaller than the key,
  everything right of it greater or equal. It yields `ReadsStayInWindow`,
  `CoveredKeysFound` and `MissesAreInsertionPoints`, together `SearchIsExact`, for
  every sorted array, every leaf, every prediction and every window.
- `LeafRoutingProofs`. `RoutingInv` carries, through the root scan, that the
  owning root segment is not left of the scan, and through the guards, that the
  owning leaf is not left of the upward guard and not right of the downward one.
  It yields `TypeCorrect` (no subscript leaves its table),
  `OwnerHoldsEveryKey`, and `RootScanIsExact` and `GuardsCheckOnly`, together
  `ScansAreExact`.
- `DriftControlProofs`. `DriftInv` adds to the properties that the query counter
  and the age of the segments run together, and that the saved baseline is the
  one of the last alarm; without the second, `NeverBlindAgain` is not inductive
  across a repair. It yields `EwmaFiresOnBaseline`, `BaselineSurvives` (what an alarm was
  answered with is not lost again) and `RebuildsStartOver` (before that, every rebuild
  starts the warm-up again, against what the header says: `MCDriftBlind.cfg`),
  together `BaselineIsSound`, and `CooldownRespected` and `RepairsCounted`, together
  `RepairsAreAccounted`.

- `LeafSearchProofs`, cost: `CostInv` says how many reads are left. While the step
  doubles, its logarithm is the number of reads so far; a bracket leaves as many
  halvings as its size allows. `ReadsAreLogarithmic` follows with facts about the
  binary logarithm of the module (that it exists, is unique and grows with its argument).
- `LeafWindowsProofs`, the builder. `PgmBuildFits`: for every sorted array and epsilon,
  `pgm_build` yields consecutive segments, and there is one slope, the middle of the
  cone, with which the line of a segment passes within epsilon of all its keys that
  differ from the first. The invariant of the loop is `ConeOK`: the cone is exactly as wide as the
  keys since the start of the segment allow. `TruncateAbove`, `LineAtKey`, `PlainWindow` and
  `CalibratedWindow` take this to the position that is searched, through the
  cast, the clamp, the bias and the measured window.
- `LeafWindowsProofs`, the leaves. `WindowsInv` is: the array is sorted, the leaves tile it, and each
  leaf has a slope within the cone of its keys, a line that starts at or left of
  its first position (a repaired leaf keeps the line of its slice, :899), and a
  window that is not empty and no wider than the array allows. It is preserved by a rebuild
  (`PgmBuildFits`, and calibration keeps lines), by a hit or a decay (only windows and
  counts change), and by a splice (`Flattening` of the segments of hot and
  cold leaves tiles what the leaves tiled). From it follow `TypeCorrect`,
  `LeavesTile`, `LinesNear`, `QueriesLoseNoKey` and `RepairsAreLocal`. The last two compare
  a state with the next: a query moves one leaf's window, which then reaches
  what it reached; after a splice the owner of a key of a cold leaf is that leaf,
  at its new place. `RebuildsFindStored` needs `FreshInv`: as long as no hit and no partial repair
  happened the leaves are what `BuildLeaves` makes of the keys, so that
  `CalibratedWindow` applies to every leaf.
- `AlexDataNodeProofs`. The inductive invariant says that a node is in good order
  (`NodeOK`): each slot holds the key of the next entry at or behind it, or the
  sentinel (`Gapped`), the number of entries is the number of filled slots, and the threshold for expanding is at
  most the capacity, which is what leaves a gap for every insert. Each part of
  an operation is shown to keep it: a layout, an insert into a gap, a shift
  left or right, an erased run, a contraction. From it follow `TypeCorrect`,
  `StructureIsValid`, `SearchesAreExact` (doubling ends with a bracket, halving
  keeps it, from any slot) and `ClosestGapsAreFound`; `ClosestGapExact`, on which the latter and
  the insert rest, is stated for all bitmaps, word sizes and positions.
  `MultimapImplemented` is the refinement of `SortedMultimap`. An operation takes the
  entries it keeps to slots in the same order (`Carries`): a layout or an erasure
  nothing else (`Keeps`), an insert one entry more, behind those of its key
  (`Receives`). The items of a key, read from left to right, then change as the
  multimap says; the count an erasure returns is the sum over the keys erased.
  Assumed: finitely many keys and at least one, all below the sentinel. Whatever bits are
  set behind the bitmap: the theorems hold of every behaviour in which no node is reached
  whose last slot is an entry at the end of a word while a bit but the first is set there
  (`EndIsSafe`, which the code does not see to), and `SearchesAreExact` is an equivalence:
  in every other behaviour a search does end at a wrong place.
- `BaselinesProofs`. The inductive invariant `Inv` is, for each baseline, what its
  code relies on between two calls: the tree's leaves are those a bulk load makes
  of the stored entries, or the one leaf inserts have filled so far, and its levels
  are those `build` puts over the leaves (`BtInv`); the RMI's root and leaf models are
  those trained on the array (`RmiInv`); arrays are sorted and lists of waiting
  inserts short (`PgmInv`, `Waiting`); and `NothingLost`. Six arguments carry it:
  - Sorting and deduplication. `SortedByKey` ranks entries by key and place, and a
    ranking of a finite linear order is a bijection (`RankExists`, `Ranking`): a
    sort keeps the entries of each key, and a deduplication one entry of each.
    `EntriesKept` follows: every build, insert, flush and lookup of every baseline
    keeps what was put in, the rebuild of the PGM that throws included.
  - The search of the B+ tree. The levels over two leaves or more shrink until one node, the root, is left (`HasLevels`); a node's
    separators are the first keys below its children, so the child the
    descent takes covers the place of the key (`Leads`, `StepDown`), from the root
    to the leaf, by induction on the levels.
  - The window of the RMI. A line that rises is monotone after the cast, also if
    doubles fall short (`ValueMonotone`), so the leaf models cut the array into
    consecutive parts and a key is in the part of the model it is sent to (`LeafStarts`);
    `max_err` bounds the error at every first place of a key in the part
    (`WellTrained`), and the window around the clamped prediction has that place.
  - `std::lower_bound`. Each step of the loop keeps the place between its ends (`HalvedTo`) and at
    least halves what is left, and so it ends at the one lower bound
    (`LowerBoundsExact`).

  - The hulls of the PGM-index. `Spanned` says what they are for: each is a chain that
    turns one way (`Chain`), every point lies on its inner side (`Covers`), the ends
    that were cut off matter to no line that still fits, and the diagonals of the
    rectangle are the least and the greatest slope of a line through all intervals of
    epsilon, each from the touching points of both hulls (`Hulls`, `Fits`). Along a chain
    the slope to a point to its right gets better and then worse (`Tangent`), so the
    scan of `add_point` stops at the extreme one (`ExtremeTouches`); what wrapping drops
    is superfluous (`WrappingWraps`). So `Spanned` outlasts a point that is taken
    (`AboveHolds`, `BelowHolds`), and refutes the line of one that is refused
    (`OutsideRefutes`: by Helly's theorem three intervals suffice).
    `SegmentsLongest` follows by induction along the points fed (`Segmented`), whose keys ascend,
    repeated keys included (`PointsCharted`).
  - The window of the PGM-index. The line kept, with its rounded intercept, stays within
    epsilon of every point of its segment but for the casts (`SegmentFits`), and a key between
    two points has the rank of the second, one above the first's (`PlaceBetween`). So it predicts the
    place of any key from its start to the next line's, where the intercept of that line
    cuts it off (`SegmentTracks`); the extra segment and the sentinel do the same beyond the
    last (`LevelPredicts`). Of keys that all differ three in a row are covered, so a
    level has fewer segments than the one below, down to one (`SegmentStarts`,
    `LevelsStacked`). The scan of a level starts no later than at the
    segment it looks for (`ScanServes`); thus every segment the search passes starts no later
    than the key and, but for the last, ends behind it (`SearchServes`), and the window around what the last one
    predicts has the place (`WindowHasPlace`). `PgmIndexed`, an invariant beside `Inv`, ties the
    index to the array through builds, flushes and refusals; `WindowsExact` follows.

  From the second to the fourth follows `StoredKeysFound`, of the RMI as long as no insert
  waits (afterwards `n_` counts entries the array does not have, and the window may reach
  past it). `TypeCorrect` bounds leaves, nodes and lists. Assumed: finitely many natural keys not
  above the sentinel, data sets sorted by key as `build` asks for, at least one leaf model,
  an order of at least two, epsilons of at least one, and that no PGM-index is the missing one
  (`NoModelAssumption`: a null pointer).
- `Recursion` holds what these rest on. Induction needs no operator as a
  parameter here: every set of naturals that is not empty has a least element
  (from the well-founded order of the library), and the property is a set. The
  recursive functions of the modules, those in a LET included, are shown to exist by it
  (`Iteration`) before anything is said of their values; the same holds for the folds
  behind sums, maxima and the flattening of sequences. It also keeps the facts that name no
  component's operators: the ranks of a strict order, how far a point lies above a line, and
  sequences cut into consecutive parts.

Only model-checked:

- the liveness properties `Returns` and `AlarmAnswered`, which are out of the prover's
  reach, and the violations;
- the tree of ALEX, `AlexTree`: its model nodes, traversals and fanouts are built by
  recursive operators, of which the provers are told nothing. What a data node
  promises to the tree is proved.

## 5. Not modelled

Values other than as identities, prefetches, memory sizes, error statistics
(`mean_abs_error`, `last_trigger_*`), the additive mode of the EWMA
(`ewma_sensitivity`, 0 in every configuration), the root level of the index
(`root_build`, the SRLM fit and BREC: correctness does not depend on them, as
`LeafRouting` shows), undefined behaviour of a hint into
the leaves of an emptied index, and keys at the precision of a double.

Of ALEX: splitting upwards and `best_split_propagation` (only
policy 2 does it; the policy is 1, alex/alex.h:140, and nothing here sets another), copying, assigning and swapping
an index, reverse iterators, statistics, allocators and the estimates of costs
themselves; `find_last_no_greater_than` is modelled, its read of a slot of an empty
first node is not; expansions by a factor that no `int` holds, keys that a double does not
hold, and predictions that are off by more than a hair at a boundary. In the baselines casts
fall one position short for all keys of an index alike, not for one key and another not. Of the PGM-index: floating-point keys, segmentation in parallel and
the file formats. Generators, file readers, timers and scripts are I/O; the
benchmarks keep no state but their results, and their calls are among the
histories the modules allow.

## 6. Plan

Written, in this order: `IndexContract` and `InsertBuffer`, what a user sees;
`LeafSearch` and `LeafRouting`, the query path for any prediction;
`DriftControl`, repairs; `Segmentation` and `LeafWindows`, which stored keys are
found; the four baselines, the PGM-index and ALEX behind them.

Left:

1. `ModelLookup`: `LeafRouting` and `LeafSearch` composed into a lookup that
   implements "found iff stored in the window"; refinement proved.
2. `NLIIndex`: `InsertBuffer` and `DriftControl` composed, flushes driving the
   restarts.
3. The root level, with `tight_root_eps_`, which BREC measures where the models are
   exact (:820): how far the guards walk.
4. Splitting upwards in ALEX.

Theorems still worth proving: the refinement of `ModelLookup`; and the invariants of the tree of ALEX, once its
recursive operators are written as functions over the depth of a node, as the levels of the
PGM-index and `std::lower_bound` are in `PgmIndex` and `RmiBaseline`.
