--------------------------- MODULE IndexContract ---------------------------
(***************************************************************************)
(* What a user of the index may rely on, whatever the index does inside.   *)
(* A key may be inserted more than once and every entry is kept, so the    *)
(* index promises a set of values per key.  Two sets are told apart:       *)
(* committed entries, which the learned model can find, and pending ones,  *)
(* which an insert has buffered and no flush has moved yet.                *)
(***************************************************************************)
CONSTANTS Keys,      \* the keys a caller uses
          Values,    \* the values a caller stores
          Miss,      \* the answer "not found"
          NoCall,    \* ret before the first call and after calls without an answer
          MayMiss    \* TRUE: the model search may overlook a committed entry

VARIABLES pending, committed, ret

contractVars == <<pending, committed, ret>>

Nothing == [k \in Keys |-> {}]

ContractTypeOK ==
  /\ pending \in [Keys -> SUBSET Values]
  /\ committed \in [Keys -> SUBSET Values]

ContractInit ==
  /\ pending = Nothing
  /\ committed = Nothing
  /\ ret = NoCall

(* Building replaces the committed entries and says nothing to the pending *)
(* ones: they stay in front of whatever was built.                         *)
Load ==
  /\ committed' \in [Keys -> SUBSET Values]
  /\ ret' = [op |-> "build"]
  /\ UNCHANGED pending

(* An insert keeps every entry there was and adds its own.  It either      *)
(* leaves the new entry pending or commits all pending entries at once.    *)
Put(k, v) ==
  LET held == [pending EXCEPT ![k] = @ \cup {v}] IN
  /\ ret' = NoCall
  /\ \/ /\ pending' = held
        /\ UNCHANGED committed
     \/ /\ pending' = Nothing
        /\ committed' = [q \in Keys |-> committed[q] \cup held[q]]

(* The model search answers with some committed entry of the key.          *)
ModelAnswers(k) ==
  committed[k] \cup (IF MayMiss \/ committed[k] = {} THEN {Miss} ELSE {})

(* A pending entry is never overlooked, and hides the committed ones.      *)
Answers(k) == IF pending[k] # {} THEN pending[k] ELSE ModelAnswers(k)

Get(k) ==
  /\ \E a \in Answers(k) : ret' = [op |-> "lookup", key |-> k, val |-> a]
  /\ UNCHANGED <<pending, committed>>

(* A hinted search is a search of the model alone.                         *)
GetHinted(k) ==
  /\ \E a \in ModelAnswers(k) : ret' = [op |-> "lookup_hint", key |-> k, val |-> a]
  /\ UNCHANGED <<pending, committed>>

ContractNext ==
  \/ Load
  \/ \E k \in Keys : Get(k) \/ GetHinted(k)
  \/ \E k \in Keys, v \in Values : Put(k, v)

ContractSpec == ContractInit /\ [][ContractNext]_contractVars
=============================================================================
