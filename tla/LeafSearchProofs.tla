-------------------------- MODULE LeafSearchProofs --------------------------
(***************************************************************************)
(* The search of a leaf is right for every sorted array, prediction and    *)
(* window: its probes stay in the window, a key of the window is found,    *)
(* and a miss is the place where the key would stand.                      *)
(***************************************************************************)
EXTENDS LeafSearch, Recursion

Window == wlo..whi-1

(* The input of a search, as the caller hands it over.                     *)
InputOK ==
  /\ arr \in Arrays /\ key \in QueryKeys /\ eps \in 0..MaxEps
  /\ klo \in Nat /\ khi \in Nat /\ p \in Nat
  /\ klo <= p /\ p < khi /\ klo \in DOMAIN arr /\ khi - 1 \in DOMAIN arr

(* What the probes have shown: right of p, the last probe that was too     *)
(* small; left of p, the last one that was too large.                      *)
ProbeInv ==
  /\ pc = "right" => /\ step >= 1
                     /\ p + step \div 2 < whi
                     /\ arr[p + step \div 2] < key
  /\ pc = "left"  => /\ step >= 1
                     /\ step \div 2 < p - wlo
                     /\ arr[p - step \div 2] > key

(* The bracket of blb() lies in the window; everything left of it is       *)
(* smaller than the key, unless the bracket starts on the key, and nothing *)
(* right of it is.                                                         *)
BracketInv ==
  pc = "halve" =>
    /\ wlo <= base /\ 1 <= len /\ base + len <= whi
    /\ arr[base] # key => \A i \in Window : i < base => arr[i] < key
    /\ \A i \in Window : base + len <= i => arr[i] >= key

ResultInv ==
  pc = "done" =>
    /\ wlo <= pos /\ pos <= whi
    /\ ~Found => \A i \in Window : /\ i < pos => arr[i] < key
                                   /\ i >= pos => arr[i] > key

(* The inductive invariant.                                                *)
SearchInv == TypeOK /\ ProbeInv /\ BracketInv /\ ResultInv

-----------------------------------------------------------------------------
LEMMA HalfFacts ==
  /\ \A s \in Nat : /\ s \div 2 \in Nat
                    /\ 2 * (s \div 2) <= s
                    /\ s <= 2 * (s \div 2) + 1
  /\ \A s \in Nat : (2 * s) \div 2 = s
  /\ 1 \div 2 = 0
OBVIOUS

(* The prediction is in its window and the window in the leaf.             *)
LEMMA WindowFacts ==
  ASSUME InputOK
  PROVE  /\ wlo \in Nat /\ whi \in Nat /\ key \in Int
         /\ klo <= wlo /\ wlo <= p /\ p < whi /\ whi <= khi
         /\ \A i \in klo..khi-1 : i \in DOMAIN arr /\ arr[i] \in Int
         /\ Window \subseteq klo..khi-1
         /\ \A i, j \in Window : i <= j => arr[i] <= arr[j]
<1>1. eps \in Nat /\ key \in Int
  BY QueryAssumption DEF InputOK
<1>2. /\ wlo \in Nat /\ whi \in Nat
      /\ klo <= wlo /\ wlo <= p /\ p < whi /\ whi <= khi
  BY <1>1 DEF InputOK, wlo, whi, Lesser
<1>3. \A i \in klo..khi-1 : i \in DOMAIN arr /\ arr[i] \in Int
  BY ArraysAssumption DEF InputOK
<1>4. Window \subseteq klo..khi-1
  BY <1>2 DEF Window, InputOK
<1>5. \A i, j \in Window : i <= j => arr[i] <= arr[j]
  BY <1>3, <1>4, ArraysAssumption DEF InputOK, Sorted
<1>. QED  BY <1>1, <1>2, <1>3, <1>4, <1>5

LEMMA InvGivesInput ==
  ASSUME TypeOK
  PROVE  InputOK
BY DEF TypeOK, InputOK

(* No step changes what is searched, so the window stays where it is.      *)
LEMMA WindowStays ==
  ASSUME UNCHANGED input
  PROVE  /\ wlo' = wlo /\ whi' = whi /\ Window' = Window
         /\ InputOK <=> InputOK'
<1>1. arr' = arr /\ key' = key /\ klo' = klo /\ khi' = khi /\ p' = p /\ eps' = eps
  BY DEF input
<1>2. wlo' = wlo /\ whi' = whi
  BY <1>1 DEF wlo, whi, Lesser
<1>. QED  BY <1>1, <1>2 DEF Window, InputOK

-----------------------------------------------------------------------------
(* The inductive step, one lemma per action.                               *)
LEMMA InitInv == Init => SearchInv
<1>. SUFFICES ASSUME Init PROVE SearchInv
  OBVIOUS
<1>1. PICK last \in DOMAIN arr : klo <= last /\ khi = last + 1
  BY DEF Init
<1>2. /\ arr \in Arrays /\ klo \in Nat /\ last \in Nat /\ p \in klo..khi-1
      /\ klo \in DOMAIN arr /\ khi - 1 = last
  BY <1>1, ArraysAssumption DEF Init
<1>3. TypeOK
  BY <1>1, <1>2 DEF Init, TypeOK
<1>. QED  BY <1>3 DEF Init, SearchInv, ProbeInv, BracketInv, ResultInv

LEMMA CenterInv ==
  ASSUME SearchInv, Center
  PROVE  SearchInv'
<1>. USE InvGivesInput, WindowFacts, WindowStays DEF SearchInv
<1>1. InputOK /\ UNCHANGED input /\ p \in Window
  BY DEF Center, Window, TypeOK
<1>2. /\ arr' = arr /\ key' = key /\ klo' = klo /\ khi' = khi /\ p' = p /\ eps' = eps
  BY <1>1 DEF input
<1>3. CASE arr[p] = key /\ Return(p)
  <2>1. Found'
    BY <1>1, <1>2, <1>3 DEF Found, Return, InputOK
  <2>2. TypeOK'
    BY <1>1, <1>2, <1>3 DEF Return, Center, TypeOK
  <2>. QED  BY <1>1, <1>2, <1>3, <2>1, <2>2
            DEF Return, ProbeInv, BracketInv, ResultInv
<1>4. CASE arr[p] > key /\ p = wlo /\ Return(wlo)
  <2>1. TypeOK'
    BY <1>1, <1>2, <1>4 DEF Return, Center, TypeOK
  <2>2. \A i \in Window : wlo <= i /\ arr[i] > key
    BY <1>1, <1>4 DEF Window
  <2>3. ResultInv'
    BY <1>1, <1>2, <1>4, <2>2 DEF Return, ResultInv, Window
  <2>. QED  BY <1>4, <2>1, <2>3 DEF Return, ProbeInv, BracketInv
<1>5. CASE /\ arr[p] < key \/ (arr[p] > key /\ p # wlo)
           /\ pc' = IF arr[p] < key THEN "right" ELSE "left"
           /\ step' = 1
           /\ UNCHANGED <<base, len, pos>>
  <2>1. TypeOK'
    BY <1>1, <1>2, <1>5 DEF Center, TypeOK
  <2>2. step' \div 2 = 0
    BY <1>5, HalfFacts
  <2>3. ProbeInv'
    BY <1>1, <1>2, <1>5, <2>2 DEF ProbeInv, InputOK
  <2>. QED  BY <1>5, <2>1, <2>3 DEF BracketInv, ResultInv
<1>. QED  BY <1>3, <1>4, <1>5 DEF Center

LEMMA ProbeKeepsInv ==
  ASSUME SearchInv, Probe
  PROVE  SearchInv'
<1>. USE InvGivesInput, WindowFacts, WindowStays DEF SearchInv
<1>1. InputOK /\ UNCHANGED input /\ step \in Nat
  BY DEF Probe, TypeOK
<1>2. /\ arr' = arr /\ key' = key /\ klo' = klo /\ khi' = khi /\ p' = p /\ eps' = eps
  BY <1>1 DEF input
<1>3. step' = 2 * step /\ step' \div 2 = step /\ pc' = pc
  BY <1>1, HalfFacts DEF Probe
<1>4. TypeOK'
  BY <1>1, <1>2, <1>3 DEF Probe, TypeOK
<1>5. ProbeInv'
  BY <1>1, <1>2, <1>3 DEF ProbeInv, Probe, BeyondRight, BeyondLeft, InputOK
<1>. QED  BY <1>3, <1>4, <1>5 DEF Probe, BracketInv, ResultInv

LEMMA BracketKeepsInv ==
  ASSUME SearchInv, Bracket
  PROVE  SearchInv'
<1>. USE InvGivesInput, WindowFacts, WindowStays DEF SearchInv
<1>1. InputOK /\ UNCHANGED input /\ step \in Nat /\ pc' = "halve"
  BY DEF Bracket, TypeOK
<1>2. /\ arr' = arr /\ key' = key /\ klo' = klo /\ khi' = khi /\ p' = p /\ eps' = eps
  BY <1>1 DEF input
<1> DEFINE half == step \div 2
<1>3. half \in Nat /\ 2 * half <= step /\ step <= 2 * half + 1
  BY <1>1, HalfFacts
<1>4. /\ wlo \in Nat /\ whi \in Nat /\ p \in Nat /\ wlo <= p /\ p < whi
      /\ \A i, j \in Window : i <= j => arr[i] <= arr[j]
      /\ \A i \in Window : arr[i] \in Int
      /\ key \in Int
  BY <1>1 DEF InputOK
<1>5. /\ base' \in Nat /\ len' \in Int
      /\ wlo <= base' /\ 1 <= len' /\ base' + len' <= whi
      /\ arr[base'] # key => \A i \in Window : i < base' => arr[i] < key
      /\ \A i \in Window : base' + len' <= i => arr[i] >= key
  <2>1. CASE pc = "right"
    <3>1. ~BeyondRight /\ base' = p + half /\ len' = Lesser(p + step + 1, whi) - base'
      BY <2>1 DEF Bracket
    <3>2. step >= 1 /\ base' < whi /\ arr[base'] < key /\ base' \in Window
      BY <1>3, <1>4, <2>1, <3>1 DEF ProbeInv, Window
    <3>3. /\ base' \in Nat /\ len' \in Int
          /\ wlo <= base' /\ 1 <= len' /\ base' + len' <= whi
          /\ base' + len' = Lesser(p + step + 1, whi)
      BY <1>1, <1>3, <1>4, <3>1, <3>2 DEF Lesser
    <3>4. \A i \in Window : i < base' => arr[i] < key
      BY <1>4, <3>2 DEF Window
    <3>5. ASSUME NEW i \in Window, base' + len' <= i
          PROVE  arr[i] >= key
      <4>a. i \in Int /\ wlo <= i /\ i < whi
        BY <1>4 DEF Window
      <4>b. Lesser(p + step + 1, whi) <= i
        BY <3>3, <3>5
      <4>c. p + step < whi /\ p + step <= i
        BY <1>1, <1>4, <4>a, <4>b DEF Lesser
      <4>1. p + step < whi /\ p + step <= i /\ p + step \in Window
        BY <1>1, <1>4, <4>c DEF Window
      <4>2. arr[p + step] >= key
        BY <1>4, <3>1, <4>1 DEF BeyondRight
      <4>. QED  BY <1>4, <4>1, <4>2
    <3>. QED  BY <3>3, <3>4, <3>5
  <2>2. CASE pc = "left"
    <3>1. /\ ~BeyondLeft
          /\ base' = IF step >= p - wlo THEN wlo ELSE p - step
          /\ len' = Lesser(p - half + 1, whi) - base'
      BY <2>2 DEF Bracket
    <3>2. step >= 1 /\ half < p - wlo /\ arr[p - half] > key
      BY <2>2 DEF ProbeInv
    <3>3. p - half \in Window /\ Lesser(p - half + 1, whi) = p - half + 1
      BY <1>3, <1>4, <3>2 DEF Window, Lesser
    <3>4. /\ base' \in Nat /\ len' \in Int
          /\ wlo <= base' /\ 1 <= len' /\ base' + len' <= whi
          /\ base' + len' = p - half + 1
      <4>1. CASE step >= p - wlo
        BY <1>1, <1>3, <1>4, <3>1, <3>2, <3>3, <4>1
      <4>2. CASE ~(step >= p - wlo)
        BY <1>1, <1>3, <1>4, <3>1, <3>2, <3>3, <4>2
      <4>. QED  BY <4>1, <4>2
    <3>5. arr[base'] # key => \A i \in Window : i < base' => arr[i] < key
      <4>1. CASE step >= p - wlo
        BY <1>4, <3>1, <4>1 DEF Window
      <4>2. CASE step < p - wlo
        <5>1. base' = p - step /\ base' \in Window
          BY <1>1, <1>4, <3>1, <4>2 DEF Window
        <5>2. arr[base'] <= key
          BY <1>4, <3>1, <4>2, <5>1 DEF BeyondLeft
        <5>. QED  BY <1>4, <5>1, <5>2 DEF Window
      <4>. QED  BY <1>1, <1>4, <4>1, <4>2
    <3>6. \A i \in Window : base' + len' <= i => arr[i] >= key
      <4>. SUFFICES ASSUME NEW i \in Window, base' + len' <= i
                    PROVE  arr[i] >= key
        OBVIOUS
      <4>a. i \in Int
        BY <1>4 DEF Window
      <4>b. p - half + 1 <= i
        BY <3>4
      <4>1. p - half <= i
        BY <1>3, <1>4, <4>a, <4>b
      <4>. QED  BY <1>4, <3>2, <3>3, <4>1
    <3>. QED  BY <3>4, <3>5, <3>6
  <2>. QED  BY <2>1, <2>2 DEF Bracket
<1>6. TypeOK'
  <2>1. reads' \in Nat /\ step' \in Nat /\ pos' \in Nat
    BY DEF Bracket, TypeOK
  <2>. QED  BY <1>1, <1>2, <1>5, <2>1 DEF TypeOK
<1>7. BracketInv'
  BY <1>1, <1>2, <1>5 DEF BracketInv
<1>. QED  BY <1>1, <1>6, <1>7 DEF ProbeInv, ResultInv

LEMMA HalveKeepsInv ==
  ASSUME SearchInv, Halve
  PROVE  SearchInv'
<1>. USE InvGivesInput, WindowFacts, WindowStays DEF SearchInv
<1>1. /\ InputOK /\ UNCHANGED input /\ pc = "halve" /\ pc' = "halve"
      /\ len > 1 /\ len \in Int /\ base \in Nat
  BY DEF Halve, TypeOK
<1>2. /\ arr' = arr /\ key' = key /\ klo' = klo /\ khi' = khi /\ p' = p /\ eps' = eps
  BY <1>1 DEF input
<1> DEFINE half == len \div 2
           mid == base + half
<1>3. half \in Nat /\ 1 <= half /\ 2 * half <= len
  BY <1>1, HalfFacts
<1>4. /\ wlo \in Nat /\ whi \in Nat /\ key \in Int
      /\ \A i, j \in Window : i <= j => arr[i] <= arr[j]
      /\ \A i \in Window : arr[i] \in Int
  BY <1>1
<1>5. /\ wlo <= base /\ base + len <= whi
      /\ arr[base] # key => \A i \in Window : i < base => arr[i] < key
      /\ \A i \in Window : base + len <= i => arr[i] >= key
  BY <1>1 DEF BracketInv
<1>6. mid \in Window
  BY <1>1, <1>3, <1>4, <1>5 DEF Window
<1>7. base' = (IF arr[mid] < key THEN mid ELSE base) /\ len' = len - half
  BY DEF Halve
<1>8. /\ base' \in Nat /\ len' \in Int
      /\ wlo <= base' /\ 1 <= len' /\ base' + len' <= whi
      /\ arr[base'] # key => \A i \in Window : i < base' => arr[i] < key
      /\ \A i \in Window : base' + len' <= i => arr[i] >= key
  <2>1. CASE arr[mid] < key
    <3>1. base' = mid /\ base' + len' = base + len
      BY <1>1, <1>3, <1>7, <2>1
    <3>2. \A i \in Window : i < mid => arr[i] < key
      BY <1>4, <1>6, <2>1 DEF Window
    <3>3. /\ base' \in Nat /\ len' \in Int
          /\ wlo <= base' /\ 1 <= len' /\ base' + len' <= whi
      BY <1>1, <1>3, <1>4, <1>5, <1>7, <3>1
    <3>. QED  BY <1>5, <3>1, <3>2, <3>3
  <2>2. CASE ~(arr[mid] < key)
    <3>1. base' = base /\ len' = len - half
      BY <1>7, <2>2
    <3>2. /\ base' \in Nat /\ len' \in Int
          /\ wlo <= base' /\ 1 <= len' /\ base' + len' <= whi
      BY <1>1, <1>3, <1>4, <1>5, <3>1
    <3>3. ASSUME NEW i \in Window, base' + len' <= i
          PROVE  arr[i] >= key
      <4>1. mid <= i
        BY <1>1, <1>3, <1>4, <3>1, <3>3 DEF Window
      <4>. QED  BY <1>4, <1>6, <2>2, <4>1
    <3>. QED  BY <1>5, <3>1, <3>2, <3>3
  <2>. QED  BY <2>1, <2>2
<1>9. TypeOK'
  <2>1. reads' \in Nat /\ step' \in Nat /\ pos' \in Nat
    BY DEF Halve, TypeOK
  <2>. QED  BY <1>1, <1>2, <1>8, <2>1 DEF TypeOK
<1>10. BracketInv'
  BY <1>1, <1>2, <1>8 DEF BracketInv
<1>. QED  BY <1>1, <1>9, <1>10 DEF ProbeInv, ResultInv

LEMMA FinishKeepsInv ==
  ASSUME SearchInv, Finish
  PROVE  SearchInv'
<1>. USE InvGivesInput, WindowFacts, WindowStays DEF SearchInv
<1>1. /\ InputOK /\ UNCHANGED input /\ pc = "halve" /\ pc' = "done"
      /\ len \in Int /\ base \in Nat /\ len <= 1
      /\ pos' = IF arr[base] < key THEN base + 1 ELSE base
  BY DEF Finish, Return, TypeOK
<1>2. /\ arr' = arr /\ key' = key /\ klo' = klo /\ khi' = khi /\ p' = p /\ eps' = eps
  BY <1>1 DEF input
<1>3. /\ wlo \in Nat /\ whi \in Nat /\ key \in Int /\ whi <= khi /\ khi \in Nat
      /\ \A i, j \in Window : i <= j => arr[i] <= arr[j]
      /\ \A i \in Window : arr[i] \in Int
  BY <1>1 DEF InputOK
<1>4. /\ len = 1 /\ wlo <= base /\ base + 1 <= whi
      /\ arr[base] # key => \A i \in Window : i < base => arr[i] < key
      /\ \A i \in Window : base + 1 <= i => arr[i] >= key
  BY <1>1 DEF BracketInv
<1>5. base \in Window
  BY <1>1, <1>3, <1>4 DEF Window
<1>6. pos' \in Nat /\ wlo <= pos' /\ pos' <= whi
  BY <1>1, <1>3, <1>4
<1>7. ASSUME ~Found', NEW i \in Window
      PROVE  (i < pos' => arr[i] < key) /\ (i >= pos' => arr[i] > key)
  <2>1. ~(pos' < khi /\ arr[pos'] = key)
    BY <1>2, <1>7 DEF Found
  <2>2. CASE arr[base] < key
    <3>1. pos' = base + 1
      BY <1>1, <2>2
    <3>2. i < pos' => arr[i] < key
      BY <1>1, <1>3, <1>5, <2>2, <3>1 DEF Window
    <3>3. i >= pos' => arr[i] > key
      <4>. SUFFICES ASSUME i >= pos' PROVE arr[i] > key
        OBVIOUS
      <4>1. pos' \in Window /\ arr[pos'] >= key /\ arr[pos'] <= arr[i]
        BY <1>1, <1>3, <1>4, <3>1 DEF Window
      <4>2. arr[pos'] # key
        BY <1>3, <2>1, <4>1 DEF Window
      <4>. QED  BY <1>3, <4>1, <4>2
    <3>. QED  BY <3>2, <3>3
  <2>3. CASE ~(arr[base] < key)
    <3>1. pos' = base
      BY <1>1, <2>3
    <3>2. arr[base] > key
      BY <1>3, <1>4, <1>5, <2>1, <2>3, <3>1 DEF Window
    <3>3. i < pos' => arr[i] < key
      BY <1>3, <1>4, <1>5, <3>1, <3>2
    <3>4. i >= pos' => arr[i] > key
      BY <1>1, <1>3, <1>5, <3>1, <3>2
    <3>. QED  BY <3>3, <3>4
  <2>. QED  BY <2>2, <2>3
<1>8. TypeOK'
  <2>1. /\ reads' \in Nat /\ step' \in Nat /\ len' \in Int /\ base' \in Nat
    BY DEF Finish, Return, TypeOK
  <2>. QED  BY <1>1, <1>2, <1>6, <2>1 DEF TypeOK
<1>9. ResultInv'
  BY <1>1, <1>2, <1>6, <1>7 DEF ResultInv
<1>. QED  BY <1>1, <1>8, <1>9 DEF ProbeInv, BracketInv

-----------------------------------------------------------------------------
(* The invariant holds in every state of every search.                     *)
THEOREM InductiveInvariant == Spec => []SearchInv
<1>1. Init => SearchInv
  BY InitInv
<1>2. SearchInv /\ [Next]_vars => SearchInv'
  <2>. SUFFICES ASSUME SearchInv, [Next]_vars PROVE SearchInv'
    OBVIOUS
  <2>1. CASE Next
    BY <2>1, CenterInv, ProbeKeepsInv, BracketKeepsInv, HalveKeepsInv,
       FinishKeepsInv DEF Next
  <2>2. CASE UNCHANGED vars
    <3>1. /\ UNCHANGED input /\ pc' = pc /\ step' = step /\ base' = base
          /\ len' = len /\ pos' = pos /\ reads' = reads
      BY <2>2 DEF vars, input
    <3>2. TypeOK'
      BY <2>2 DEF SearchInv, TypeOK, vars
    <3>3. wlo' = wlo /\ whi' = whi /\ Window' = Window /\ Found' = Found
      BY <3>1, WindowStays DEF input, Found
    <3>. QED  BY <3>1, <3>2, <3>3
              DEF SearchInv, ProbeInv, BracketInv, ResultInv, input
  <2>. QED  BY <2>1, <2>2
<1>. QED  BY <1>1, <1>2, PTL DEF Spec

(* The variables keep their types: the prediction stays in the leaf and    *)
(* the bracket of blb() on positions.                                      *)
THEOREM TypeCorrect == Spec => []TypeOK
<1>1. SearchInv => TypeOK
  BY DEF SearchInv
<1>. QED  BY <1>1, InductiveInvariant, PTL

(* The pointer arithmetic of ecs_search() and blb() never leaves the       *)
(* window, nor the caller's last test the leaf.                            *)
THEOREM ReadsStayInWindow == Spec => []ReadsInWindow
<1>1. SearchInv => ReadsInWindow
  <2>. SUFFICES ASSUME SearchInv PROVE ReadsInWindow
    OBVIOUS
  <2>1. /\ wlo \in Nat /\ whi \in Nat /\ klo <= wlo /\ wlo <= p /\ p < whi /\ whi <= khi
        /\ klo \in Nat /\ khi \in Nat /\ p \in Nat /\ step \in Nat
        /\ base \in Nat /\ len \in Int /\ pos \in Nat
    BY InvGivesInput, WindowFacts DEF SearchInv, TypeOK
  <2>2. CASE pc = "center"
    BY <2>1, <2>2 DEF ReadsInWindow, NextRead
  <2>3. CASE pc = "right"
    BY <2>1, <2>3 DEF ReadsInWindow, NextRead
  <2>4. CASE pc = "left"
    BY <2>1, <2>4 DEF ReadsInWindow, NextRead
  <2>5. CASE pc = "halve"
    <3>1. wlo <= base /\ 1 <= len /\ base + len <= whi
      BY <2>5 DEF SearchInv, BracketInv
    <3>2. NextRead = IF len > 1 THEN base + len \div 2 ELSE base
      BY <2>5 DEF NextRead
    <3>3. len \div 2 \in Nat /\ 2 * (len \div 2) <= len
      BY <2>1, <3>1, HalfFacts
    <3>. QED  BY <2>1, <2>5, <3>1, <3>2, <3>3 DEF ReadsInWindow
  <2>6. CASE pc = "done"
    <3>1. wlo <= pos /\ pos <= whi
      BY <2>6 DEF SearchInv, ResultInv
    <3>. QED  BY <2>1, <2>6, <3>1 DEF ReadsInWindow, NextRead
  <2>. QED  BY <2>2, <2>3, <2>4, <2>5, <2>6 DEF SearchInv, TypeOK
<1>. QED  BY <1>1, InductiveInvariant, PTL

(* A key that is stored in the window is found, wherever the model's       *)
(* prediction fell.                                                        *)
THEOREM CoveredKeysFound == Spec => []CoveredKeyFound
<1>1. SearchInv => CoveredKeyFound
  <2>. SUFFICES ASSUME SearchInv, pc = "done", ~Found,
                       NEW i \in wlo..whi-1, arr[i] = key
                PROVE  FALSE
    BY DEF CoveredKeyFound
  <2>1. i \in Window /\ i \in Int /\ pos \in Nat /\ key \in Int
    BY InvGivesInput, WindowFacts DEF Window, SearchInv, TypeOK
  <2>2. (i < pos => arr[i] < key) /\ (i >= pos => arr[i] > key)
    BY <2>1 DEF SearchInv, ResultInv
  <2>. QED  BY <2>1, <2>2
<1>. QED  BY <1>1, InductiveInvariant, PTL

(* A miss is the place in the window where the key would stand.            *)
THEOREM MissesAreInsertionPoints == Spec => []MissIsInsertionPoint
<1>1. SearchInv => MissIsInsertionPoint
  <2>. SUFFICES ASSUME SearchInv, pc = "done", ~Found
                PROVE  /\ wlo <= pos /\ pos <= whi
                       /\ \A i \in wlo..whi-1 : IF i < pos THEN arr[i] < key
                                                           ELSE arr[i] > key
    BY DEF MissIsInsertionPoint
  <2>1. wlo \in Nat /\ whi \in Nat /\ pos \in Nat
    BY InvGivesInput, WindowFacts DEF SearchInv, TypeOK
  <2>. QED  BY <2>1 DEF SearchInv, ResultInv, Window
<1>. QED  BY <1>1, InductiveInvariant, PTL

(* Searching a window is exact, for every array, prediction and window.    *)
THEOREM SearchIsExact == Spec => []SearchExact
BY CoveredKeysFound, MissesAreInsertionPoints, PTL DEF SearchExact

-----------------------------------------------------------------------------
(* The logarithm follows its recursive definition and grows.               *)
IsLog(h, m) ==
  /\ h \in [0..m -> Nat]
  /\ \A k \in 0..m : h[k] = IF k <= 1 THEN 0 ELSE 1 + h[k \div 2]

LEMMA LogUpTo == \A m \in Nat : \E h : IsLog(h, m)
<1> DEFINE T == {m \in Nat : \E h : IsLog(h, m)}
<1>1. 0 \in T
  <2> DEFINE h == [k \in 0..0 |-> 0]
  <2>1. IsLog(h, 0)
    BY DEF IsLog
  <2> QED BY <2>1
<1>2. ASSUME NEW m \in Nat, m \in T PROVE m + 1 \in T
  <2>1. PICK h : IsLog(h, m)
    BY <1>2
  <2> DEFINE v == IF m + 1 <= 1 THEN 0 ELSE 1 + h[(m + 1) \div 2]
             g == [k \in 0..m+1 |-> IF k = m + 1 THEN v ELSE h[k]]
  <2>2. (m + 1) \div 2 \in 0..m
    OBVIOUS
  <2>3. v \in Nat
    BY <2>1, <2>2 DEF IsLog
  <2>4. g \in [0..m+1 -> Nat] /\ g[m + 1] = v /\ \A k \in 0..m : g[k] = h[k]
    BY <2>1, <2>3 DEF IsLog
  <2> HIDE DEF g
  <2>5. ASSUME NEW k \in 0..m+1
        PROVE  g[k] = IF k <= 1 THEN 0 ELSE 1 + g[k \div 2]
    <3>1. k > 1 => k \div 2 \in 0..m
      OBVIOUS
    <3>2. CASE k = m + 1
      BY <2>2, <2>4, <3>2
    <3>3. CASE k # m + 1
      <4>1. k \in 0..m /\ (k > 1 => k \div 2 \in 0..m)
        BY <3>1, <3>3
      <4> QED BY <2>1, <2>4, <4>1 DEF IsLog
    <3> QED BY <3>2, <3>3
  <2>6. IsLog(g, m + 1)
    BY <2>4, <2>5 DEF IsLog
  <2> QED BY <2>6
<1>3. Nat \subseteq T
  <2> HIDE DEF T
  <2> QED BY <1>1, <1>2, Induction
<1> QED BY <1>3

LEMMA LogUnique ==
  \A k \in Nat : \A m, n \in Nat : \A g, h :
    IsLog(g, m) /\ IsLog(h, n) /\ k <= m /\ k <= n => g[k] = h[k]
<1> DEFINE T == {k \in Nat : \A m, n \in Nat : \A g, h :
                   IsLog(g, m) /\ IsLog(h, n) /\ k <= m /\ k <= n => g[k] = h[k]}
<1>1. ASSUME NEW k \in Nat, \A x \in 0..k-1 : x \in T PROVE k \in T
  <2>1. ASSUME NEW m \in Nat, NEW n \in Nat, NEW g, NEW h,
               IsLog(g, m), IsLog(h, n), k <= m, k <= n
        PROVE  g[k] = h[k]
    <3>1. k \in 0..m /\ k \in 0..n
      BY <2>1
    <3>2. /\ g[k] = IF k <= 1 THEN 0 ELSE 1 + g[k \div 2]
          /\ h[k] = IF k <= 1 THEN 0 ELSE 1 + h[k \div 2]
      BY <2>1, <3>1 DEF IsLog
    <3>3. ASSUME k > 1 PROVE g[k \div 2] = h[k \div 2]
      <4>1. k \div 2 \in 0..k-1 /\ k \div 2 <= m /\ k \div 2 <= n
        BY <2>1, <3>3
      <4>2. k \div 2 \in T
        BY <1>1, <4>1
      <4> QED BY <2>1, <4>1, <4>2
    <3> QED BY <3>2, <3>3
  <2> QED BY <2>1
<1>2. Nat \subseteq T
  <2> HIDE DEF T
  <2> QED BY <1>1, StrongInduction
<1> QED BY <1>2

LEMMA LogFacts ==
  /\ Log2 \in [Nat -> Nat]
  /\ \A k \in Nat : Log2[k] = IF k <= 1 THEN 0 ELSE 1 + Log2[k \div 2]
<1> DEFINE upTo(k) == CHOOSE h : IsLog(h, k)
           g == [k \in Nat |-> upTo(k)[k]]
           Equation(f) == f = [k \in Nat |-> IF k <= 1 THEN 0 ELSE 1 + f[k \div 2]]
<1>1. \A k \in Nat : IsLog(upTo(k), k)
  BY LogUpTo
<1>2. \A k \in Nat : g[k] = upTo(k)[k]
  OBVIOUS
<1>3. DOMAIN g = Nat
  OBVIOUS
<1> HIDE DEF g, upTo
<1>4. ASSUME NEW k \in Nat
      PROVE  g[k] \in Nat /\ g[k] = IF k <= 1 THEN 0 ELSE 1 + g[k \div 2]
  <2>1. k \in 0..k /\ upTo(k) \in [0..k -> Nat]
    BY <1>1 DEF IsLog
  <2>2. /\ upTo(k)[k] \in Nat
        /\ upTo(k)[k] = IF k <= 1 THEN 0 ELSE 1 + upTo(k)[k \div 2]
    BY <1>1, <2>1 DEF IsLog
  <2>3. ASSUME k > 1 PROVE upTo(k)[k \div 2] = g[k \div 2]
    <3>1. k \div 2 \in Nat /\ k \div 2 <= k
      OBVIOUS
    <3>2. upTo(k)[k \div 2] = upTo(k \div 2)[k \div 2]
      BY <1>1, <3>1, LogUnique
    <3> QED BY <1>2, <3>1, <3>2
  <2> QED BY <1>2, <2>2, <2>3
<1>5. g = [k \in Nat |-> g[k]]
  <2>1. g = [k \in Nat |-> upTo(k)[k]]
    BY DEF g
  <2> QED BY <2>1
<1>6. Equation(g)
  BY <1>4, <1>5
<1>7. Equation(Log2)
  <2>1. Log2 = CHOOSE f : Equation(f)
    BY DEF Log2
  <2> HIDE DEF Equation
  <2> QED BY <1>6, <2>1
<1> DEFINE T == {k \in Nat : Log2[k] \in Nat}
<1>8. \A k \in Nat : Log2[k] = IF k <= 1 THEN 0 ELSE 1 + Log2[k \div 2]
  BY <1>7
<1>9. ASSUME NEW k \in Nat, \A x \in 0..k-1 : x \in T PROVE k \in T
  <2>1. k > 1 => k \div 2 \in 0..k-1
    OBVIOUS
  <2>2. k > 1 => Log2[k \div 2] \in Nat
    BY <1>9, <2>1
  <2> QED BY <1>8, <2>2
<1>10. Nat \subseteq T
  <2> HIDE DEF T
  <2> QED BY <1>9, StrongInduction
<1>11. Log2 = [k \in Nat |-> Log2[k]]
  BY <1>7
<1> QED BY <1>8, <1>10, <1>11

LEMMA LogGrows ==
  ASSUME NEW m \in Nat, NEW n \in Nat, m <= n
  PROVE  Log2[m] \in Nat /\ Log2[n] \in Nat /\ Log2[m] <= Log2[n]
<1> DEFINE T == {k \in Nat : \A x \in 0..k : Log2[x] <= Log2[k]}
<1>1. \A k \in Nat : Log2[k] \in Nat
  BY LogFacts
<1>2. ASSUME NEW k \in Nat, \A x \in 0..k-1 : x \in T PROVE k \in T
  <2>1. ASSUME NEW x \in 0..k PROVE Log2[x] <= Log2[k]
    <3>1. CASE x <= 1
      <4>1. Log2[x] = 0
        BY <3>1, LogFacts
      <4> QED BY <1>1, <4>1
    <3>2. CASE x > 1
      <4>1. x \div 2 \in 0..k \div 2 /\ k \div 2 \in 0..k-1 /\ k > 1
        BY <3>2
      <4>2. Log2[x \div 2] <= Log2[k \div 2]
        BY <1>2, <4>1
      <4>3. /\ Log2[x] = 1 + Log2[x \div 2] /\ Log2[k] = 1 + Log2[k \div 2]
            /\ Log2[x \div 2] \in Nat /\ Log2[k \div 2] \in Nat
        BY <3>2, <4>1, LogFacts
      <4> QED BY <4>2, <4>3
    <3> QED BY <3>1, <3>2
  <2> QED BY <2>1
<1>3. Nat \subseteq T
  <2> HIDE DEF T
  <2> QED BY <1>2, StrongInduction
<1> QED BY <1>1, <1>3

-----------------------------------------------------------------------------
(* Halvings until a bracket of n positions is down to one.                 *)
Halvings(n) == IF n <= 1 THEN 0 ELSE 1 + Log2[n - 1]

(* What a bracket after probes at distance up to s may cost.               *)
Budget(s) == 2 + Log2[s] + (IF s = 1 THEN 1 ELSE Log2[s])

(* The reads so far follow the distance of the last probe, and the place   *)
(* of the key is no nearer to p than half of it.                           *)
CostInv ==
  /\ pc = "center" => reads = 0
  /\ pc \in {"right", "left"} =>
       /\ reads = 1 + Log2[step]
       /\ step = 1 \/ 2 * (step \div 2) = step
  /\ pc = "halve" =>
       /\ step >= 1
       /\ reads + Halvings(len) <= Budget(step)
       /\ base >= p + step \div 2 \/ base + len <= p - step \div 2 + 1
  /\ LogarithmicReads

LEMMA HalvingsDrop ==
  ASSUME NEW n \in Nat, n > 1
  PROVE  /\ Halvings(n - n \div 2) \in Nat
         /\ Halvings(n) = 1 + Halvings(n - n \div 2)
<1>1. /\ n - n \div 2 \in Nat /\ (n - n \div 2) - 1 = (n - 1) \div 2
      /\ n - 1 \in Nat /\ n \div 2 \in Nat
  OBVIOUS
<1>2. CASE n = 2
  <2>1. Log2[1] = 0 /\ n - n \div 2 = 1 /\ n - 1 = 1
    BY <1>2, LogFacts
  <2> QED BY <1>2, <2>1 DEF Halvings
<1>3. CASE n > 2
  <2>1. Log2[n - 1] = 1 + Log2[(n - 1) \div 2] /\ Log2[(n - 1) \div 2] \in Nat
    <3>1. ~(n - 1 <= 1) /\ (n - 1) \div 2 \in Nat
      BY <1>3
    <3> QED BY <1>1, <3>1, LogFacts
  <2>2. n - n \div 2 > 1
    BY <1>3
  <2> HIDE DEF Halvings
  <2>3. Halvings(n - n \div 2) = 1 + Log2[(n - 1) \div 2]
    BY <1>1, <2>2 DEF Halvings
  <2>4. Halvings(n) = 1 + Log2[n - 1]
    BY DEF Halvings
  <2> QED BY <2>1, <2>3, <2>4
<1> QED BY <1>2, <1>3

(* Brackets are not longer than the last distance but half of it, and one. *)
LEMMA HalvingsBound ==
  ASSUME NEW s \in Nat \ {0}, NEW n \in Int, n <= s - s \div 2 + 1, s = 1 \/ 2 * (s \div 2) = s
  PROVE  Halvings(n) \in Nat /\ Halvings(n) <= IF s = 1 THEN 1 ELSE Log2[s]
<1>1. Log2[1] = 0 /\ Log2[0] = 0 /\ Log2[s] \in Nat
  BY LogFacts
<1>2. CASE n <= 1
  BY <1>1, <1>2 DEF Halvings
<1>3. CASE n > 1 /\ s = 1
  <2>1. n = 2
    BY <1>3
  <2> QED BY <1>1, <1>3, <2>1 DEF Halvings
<1>4. CASE n > 1 /\ s # 1
  <2> DEFINE h == s \div 2
             m == n - 1
  <2>1. h \in Nat /\ m \in Nat /\ m <= h
    BY <1>4
  <2>2. Log2[s] = 1 + Log2[h]
    BY <1>4, LogFacts
  <2> HIDE DEF h, m
  <2>3. Log2[m] \in Nat /\ Log2[h] \in Nat /\ Log2[m] <= Log2[h]
    BY <2>1, LogGrows
  <2>4. Halvings(n) = 1 + Log2[m]
    BY <1>4 DEF Halvings, m
  <2> QED BY <1>4, <2>2, <2>3, <2>4
<1> QED BY <1>2, <1>3, <1>4

LEMMA SearchFacts ==
  ASSUME SearchInv
  PROVE  /\ InputOK /\ wlo \in Nat /\ whi \in Nat /\ p \in Nat /\ p < whi /\ wlo <= p
         /\ step \in Nat /\ base \in Nat /\ len \in Int /\ pos \in Nat /\ reads \in Nat
         /\ pc \in {"right", "left"} => step \in Nat \ {0}
         /\ pc = "halve" => len >= 1
BY InvGivesInput, WindowFacts DEF SearchInv, TypeOK, ProbeInv, BracketInv

LEMMA CenterCost ==
  ASSUME SearchInv, CostInv, Center
  PROVE  CostInv'
<1>1. Log2[1] = 0
  BY LogFacts
<1>2. reads' = 1 /\ p' = p /\ p \in Nat
  BY SearchFacts DEF Center, CostInv, input
<1>3. CASE pc' = "done" /\ pos' = p
  <2>1. Distance' = 0
    BY <1>2, <1>3 DEF Distance
  <2>2. LogarithmicReads'
    BY <1>1, <1>2, <2>1 DEF LogarithmicReads
  <2> QED BY <1>3, <2>2 DEF CostInv
<1>4. CASE pc' \in {"right", "left"} /\ step' = 1
  BY <1>1, <1>2, <1>4 DEF CostInv, LogarithmicReads
<1>5. \/ pc' = "done" /\ pos' = p
      \/ pc' \in {"right", "left"} /\ step' = 1
  BY DEF Center, Return
<1> QED BY <1>3, <1>4, <1>5

LEMMA ProbeCost ==
  ASSUME SearchInv, CostInv, Probe
  PROVE  CostInv'
<1>1. /\ step \in Nat \ {0} /\ reads = 1 + Log2[step] /\ pc \in {"right", "left"}
  BY SearchFacts DEF Probe, CostInv
<1>2. step' = 2 * step /\ reads' = reads + 1 /\ pc' = pc
  BY DEF Probe
<1>3. (2 * step) \div 2 = step /\ ~(2 * step <= 1) /\ 2 * step \in Nat
  BY <1>1
<1>4. Log2[2 * step] = 1 + Log2[step] /\ Log2[step] \in Nat
  BY <1>1, <1>3, LogFacts
<1> QED BY <1>1, <1>2, <1>3, <1>4 DEF CostInv, LogarithmicReads

LEMMA BracketCost ==
  ASSUME SearchInv, CostInv, Bracket
  PROVE  CostInv'
<1>1. /\ step \in Nat \ {0} /\ reads = 1 + Log2[step]
      /\ step = 1 \/ 2 * (step \div 2) = step
      /\ pc' = "halve" /\ step' = step /\ p' = p
  BY SearchFacts DEF Bracket, CostInv, input
<1>2. /\ p \in Nat /\ wlo \in Nat /\ whi \in Nat /\ wlo <= p /\ reads \in Nat
      /\ step \div 2 \in Nat /\ Log2[step] \in Nat
  BY <1>1, SearchFacts, HalfFacts, LogFacts
<1>3. reads' <= reads + 1 /\ reads' \in Nat
  BY <1>2 DEF Bracket
<1>4. /\ len' \in Int /\ base' \in Int /\ len' <= step - step \div 2 + 1
      /\ base' >= p + step \div 2 \/ base' + len' <= p - step \div 2 + 1
  <2>1. CASE pc = "right"
    <3>1. /\ base' = p + step \div 2
          /\ len' = Lesser(p + step + 1, whi) - base'
      BY <2>1 DEF Bracket
    <3> QED BY <1>1, <1>2, <3>1 DEF Lesser
  <2>2. CASE pc = "left"
    <3>1. /\ base' = IF step >= p - wlo THEN wlo ELSE p - step
          /\ len' = Lesser(p - step \div 2 + 1, whi) - base'
      BY <2>2 DEF Bracket
    <3>2. base' \in Int /\ base' >= p - step
      BY <1>1, <1>2, <3>1
    <3>3. Lesser(p - step \div 2 + 1, whi) \in Int /\
          Lesser(p - step \div 2 + 1, whi) <= p - step \div 2 + 1
      BY <1>2 DEF Lesser
    <3> QED BY <1>1, <1>2, <3>1, <3>2, <3>3
  <2> QED BY <2>1, <2>2 DEF Bracket
<1>5. /\ Halvings(len') \in Nat
      /\ Halvings(len') <= IF step = 1 THEN 1 ELSE Log2[step]
  <2> DEFINE n == len'
  <2>1. n \in Int /\ n <= step - step \div 2 + 1
    BY <1>4
  <2> HIDE DEF n
  <2>2. Halvings(n) \in Nat /\ Halvings(n) <= IF step = 1 THEN 1 ELSE Log2[step]
    BY <1>1, <2>1, HalvingsBound
  <2> QED BY <2>2 DEF n
<1>6. reads' + Halvings(len') <= Budget(step)
  <2> HIDE DEF Halvings
  <2> QED BY <1>1, <1>2, <1>3, <1>5 DEF Budget
<1>7. reads' + Halvings(len)' <= Budget(step)'
  BY <1>1, <1>6 DEF Halvings, Budget
<1> QED BY <1>1, <1>4, <1>7 DEF CostInv, LogarithmicReads

LEMMA HalveCost ==
  ASSUME SearchInv, CostInv, Halve
  PROVE  CostInv'
<1> DEFINE half == len \div 2
<1>1. /\ pc = "halve" /\ pc' = "halve" /\ len > 1 /\ step' = step /\ p' = p
      /\ base' = (IF arr[base + half] < key THEN base + half ELSE base)
      /\ len' = len - half /\ reads' = reads + 1
  BY DEF Halve, input
<1>2. /\ p \in Nat /\ reads \in Nat /\ base \in Nat /\ len \in Nat
      /\ step \in Nat /\ half \in Nat /\ step \div 2 \in Nat
  <2>1. p \in Nat /\ reads \in Nat /\ base \in Nat /\ len \in Nat /\ step \in Nat
    BY <1>1, SearchFacts
  <2> QED BY <2>1
<1>3. /\ step >= 1 /\ reads + Halvings(len) <= Budget(step)
      /\ base >= p + step \div 2 \/ base + len <= p - step \div 2 + 1
  BY <1>1 DEF CostInv
<1>4. Halvings(len - half) \in Nat /\ Halvings(len) = 1 + Halvings(len - half)
  BY <1>1, <1>2, HalvingsDrop
<1> HIDE DEF half
<1>5. reads' + Halvings(len') <= Budget(step)
  <2> DEFINE x == Halvings(len - half)
             y == Halvings(len)
             z == Budget(step)
  <2>1. x \in Nat /\ y = 1 + x /\ reads + y <= z
    BY <1>3, <1>4
  <2>2. reads' + Halvings(len') = reads + 1 + x
    BY <1>1
  <2> HIDE DEF x, y, z
  <2>3. reads + 1 + x = reads + y
    BY <1>2, <2>1
  <2> QED BY <2>1, <2>2, <2>3 DEF z
<1>6. base' >= p + step \div 2 \/ base' + len' <= p - step \div 2 + 1
  BY <1>1, <1>2, <1>3
<1>7. reads' + Halvings(len)' <= Budget(step)'
  BY <1>1, <1>5 DEF Halvings, Budget
<1> QED BY <1>1, <1>3, <1>6, <1>7 DEF CostInv, LogarithmicReads

LEMMA FinishCost ==
  ASSUME SearchInv, CostInv, Finish
  PROVE  CostInv'
<1>1. /\ pc = "halve" /\ pc' = "done" /\ len <= 1 /\ reads' = reads + 1 /\ p' = p
      /\ pos' = (IF arr[base] < key THEN base + 1 ELSE base)
  BY DEF Finish, Return, input
<1>2. /\ p \in Nat /\ reads \in Nat /\ base \in Nat /\ len = 1 /\ step \in Nat
      /\ step \div 2 \in Nat
  <2>1. p \in Nat /\ reads \in Nat /\ base \in Nat /\ len \in Int /\ len >= 1 /\ step \in Nat
    BY <1>1, SearchFacts
  <2> QED BY <1>1, <2>1
<1>3. /\ step >= 1 /\ reads <= Budget(step)
      /\ base >= p + step \div 2 \/ base + 1 <= p - step \div 2 + 1
  BY <1>1, <1>2 DEF CostInv, Halvings
<1> DEFINE d == Distance'
<1>4. d = IF pos' >= p THEN pos' - p ELSE p - pos'
  BY <1>1 DEF Distance
<1> HIDE DEF d
<1>5. d \in Nat /\ step \div 2 <= d + 1
  BY <1>1, <1>2, <1>3, <1>4
<1>6. /\ Log2[step \div 2] \in Nat /\ Log2[d + 1] \in Nat
      /\ Log2[step \div 2] <= Log2[d + 1]
  BY <1>2, <1>5, LogGrows
<1>7. Log2[step] = IF step <= 1 THEN 0 ELSE 1 + Log2[step \div 2]
  BY <1>2, LogFacts
<1>8. reads + 1 <= 2 * Log2[d + 1] + 5
  BY <1>2, <1>3, <1>6, <1>7 DEF Budget
<1>9. LogarithmicReads'
  BY <1>1, <1>8 DEF LogarithmicReads, d
<1> QED BY <1>1, <1>9 DEF CostInv

(* The number of keys a search compares grows with the logarithm of the    *)
(* error of the prediction, not with the window or the leaf.               *)
THEOREM ReadsAreLogarithmic == Spec => []LogarithmicReads
<1>1. Init => CostInv
  BY DEF Init, CostInv, LogarithmicReads
<1>2. SearchInv /\ CostInv /\ [Next]_vars => CostInv'
  <2>. SUFFICES ASSUME SearchInv, CostInv, [Next]_vars PROVE CostInv'
    OBVIOUS
  <2>1. CASE Next
    BY <2>1, CenterCost, ProbeCost, BracketCost, HalveCost, FinishCost DEF Next
  <2>2. CASE UNCHANGED vars
    BY <2>2 DEF vars, CostInv, LogarithmicReads, Distance, Halvings, Budget
  <2>. QED  BY <2>1, <2>2
<1>3. CostInv => LogarithmicReads
  BY DEF CostInv
<1>. QED  BY <1>1, <1>2, <1>3, InductiveInvariant, PTL DEF Spec
=============================================================================
