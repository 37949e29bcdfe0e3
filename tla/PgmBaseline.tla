---------------------------- MODULE PgmBaseline ----------------------------
(***************************************************************************)
(* nli::PGMIndex, the adapter that keeps sorted arrays of keys and values  *)
(* beside a PGM-index of the keys.  Inserts wait until there are enough,   *)
(* or until the next lookup, and are then merged into the arrays.          *)
(*                                                                         *)
(* The PGM-index refuses arrays that end with the greatest key of the      *)
(* type.  The exception leaves the adapter with the new arrays and the     *)
(* old index.                                                              *)
(***************************************************************************)
EXTENDS Entries, PgmIndex

CONSTANTS FlushMin,     \* inserts wait up to this number (1000 in the code)
          FlushShare,   \* or up to one in so many stored keys (20)
          NoModel

ASSUME FlushAssumption == FlushMin \in Nat /\ FlushShare \in Nat \ {0}

ASSUME NoModelAssumption ==
  NoModel \notin
    [n : Nat, first_key : Nat,
     levels : Seq(Seq([key : Nat, slope : [dx : Int, dy : Int], intercept : Int]))]

VARIABLES pgm_data,      \* data_ and vals_
          pgm_inserts,   \* inserts_
          pgm_model,     \* pgm_
          pgm_size       \* size_

pgm_vars == <<pgm_data, pgm_inserts, pgm_model, pgm_size>>

PgmInit ==
  /\ pgm_data = <<>> /\ pgm_inserts = <<>>
  /\ pgm_model = NoModel /\ pgm_size = 0

KeySequence(s) == [i \in DOMAIN s |-> s[i].key]
Refused(data) == data # <<>> /\ data[Len(data)].key = Sentinel

(* rebuild(), which throws instead when the data is refused.               *)
Rebuild(data) ==
  pgm_model' = IF Refused(data) THEN pgm_model ELSE BuildPgm(KeySequence(data))

(* build().                                                                *)
PgmBuild(data) ==
  IF data = <<>> THEN UNCHANGED pgm_vars
  ELSE /\ pgm_data' = data
       /\ Rebuild(data)
       /\ pgm_size' = IF Refused(data) THEN pgm_size ELSE Len(data)
       /\ UNCHANGED pgm_inserts

(* flush(): stored entries come before inserted ones of the same key.      *)
PgmFlush(inserts) ==
  LET merged == SortedByKey(pgm_data \o inserts)
  IN /\ pgm_data' = merged
     /\ pgm_inserts' = <<>>
     /\ Rebuild(merged)

(* lookup(), the step it takes before it answers.                          *)
PgmLookupFlush ==
  IF pgm_inserts = <<>> THEN UNCHANGED pgm_vars
  ELSE PgmFlush(pgm_inserts) /\ UNCHANGED pgm_size

(* The answers of lookup() over arrays and an index.  The array is read    *)
(* at the end of the window too, unless that is its own end.               *)
PgmAnswer(data, model, k) ==
  IF model = NoModel THEN {{}}
  ELSE {LET hi == Min({w.hi, Len(data)})
            i == Max({w.lo, Min({hi, LowerBoundOf(data, k)})}) + 1
        IN IF i <= Len(data) /\ data[i].key = k THEN {data[i]} ELSE {} : w \in Search(model, k)}

(* insert().                                                               *)
PgmInsert(e) ==
  LET inserts == Append(pgm_inserts, e)
  IN /\ pgm_size' = pgm_size + 1
     /\ IF Len(inserts) > Max({FlushMin, Len(pgm_data) \div FlushShare})
          THEN PgmFlush(inserts)
          ELSE pgm_inserts' = inserts /\ UNCHANGED <<pgm_data, pgm_model>>

PgmHeld == KeysOf(pgm_data) \cup KeysOf(pgm_inserts)
=============================================================================
