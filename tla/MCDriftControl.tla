--------------------------- MODULE MCDriftControl ---------------------------
(* Instances of DriftControl for TLC, with the configurations the factory  *)
(* functions of nli_index.hpp and the benchmarks use.                      *)
EXTENDS DriftControl

Nli == [drift_detection |-> TRUE, use_rco |-> TRUE, perform_repair |-> TRUE,
        selective_repair |-> TRUE, track_misses |-> FALSE]

MCConfigs ==
  {Nli,
   [Nli EXCEPT !.track_misses = TRUE],
   [Nli EXCEPT !.use_rco = FALSE],
   [Nli EXCEPT !.selective_repair = FALSE],
   [Nli EXCEPT !.use_rco = FALSE, !.selective_repair = FALSE, !.perform_repair = FALSE],
   [Nli EXCEPT !.use_rco = FALSE, !.selective_repair = FALSE, !.drift_detection = FALSE]}

DefaultConfig == {Nli}
=============================================================================
