--------------------------- MODULE SetContainsProofs ---------------------------
(***************************************************************************)
(* Proofs about SetContains, for any set of ranges in order.               *)
(***************************************************************************)
EXTENDS SetContains, TLAPS

(* What remains to be searched is part of the ranges, and if the character *)
(* is in any range, it is in one of these.                                 *)
Remaining == index..(index + size - 1)
IInv ==
  /\ index \in Nat
  /\ size \in Nat \ {0}
  /\ index + size <= len
  /\ result \in {"none", "contained", "missing"}
  /\ result = "none" => \A i \in 0..(len - 1) : Covers(i) => i \in Remaining
  /\ result = "contained" => Contained
  /\ result = "missing" => ~Contained

LEMMA HalfBounds ==
  ASSUME NEW n \in Nat, n > 1
  PROVE  n \div 2 \in Nat /\ 0 < n \div 2 /\ n \div 2 < n /\ n \div 2 <= n - n \div 2
BY SMT

LEMMA InitIInv == ASSUME InOrder, Init PROVE IInv
BY DEF InOrder, Init, IInv, Remaining

LEMMA HalveIInv == ASSUME InOrder, IInv, Halve PROVE IInv'
<1> DEFINE h == size \div 2
<1>1. h \in Nat /\ 0 < h /\ h < size /\ h <= size - h BY HalfBounds DEF IInv, Halve
<1>2. Half = h /\ Mid = index + h BY DEF Half, Mid
<1> HIDE DEF h
<1>3. Mid \in 0..(len - 1) BY <1>1, <1>2 DEF IInv, InOrder
<1>4. CASE Covers(Mid) BY <1>3, <1>4 DEF IInv, Halve, Contained, Remaining, Covers
<1>5. CASE ~Covers(Mid) /\ lookahead > ranges[Mid].end
  <2>1. index' = Mid /\ size' = size - h /\ result' = "none" BY <1>2, <1>5 DEF Halve
  <2>2. ASSUME NEW i \in 0..(len - 1), Covers(i) PROVE i >= Mid
    <3>1. i < Mid => ranges[i].end < ranges[Mid].start BY <1>3 DEF InOrder
    <3>2. ranges[Mid].start <= ranges[Mid].end BY <1>3 DEF InOrder
    <3>3. ranges[i].end \in Int /\ ranges[Mid].start \in Int /\ ranges[Mid].end \in Int /\ lookahead \in Int
      BY <1>3 DEF InOrder
    <3> QED BY <1>3, <1>5, <2>2, <3>1, <3>2, <3>3 DEF Covers
  <2>3. ASSUME NEW i \in 0..(len - 1), Covers(i) PROVE i \in index..(index + size - 1)
    BY <2>3 DEF IInv, Halve, Remaining
  <2>4. ASSUME NEW i \in 0..(len - 1), Covers(i) PROVE i \in index'..(index' + size' - 1)
    BY <1>1, <1>2, <2>1, <2>2, <2>3, <2>4 DEF IInv
  <2> QED BY <1>1, <1>2, <2>1, <2>4 DEF IInv, Remaining, Covers
<1>6. CASE ~Covers(Mid) /\ ~(lookahead > ranges[Mid].end)
  <2>1. index' = index /\ size' = size - h /\ result' = "none" BY <1>2, <1>6 DEF Halve
  <2>2. ASSUME NEW i \in 0..(len - 1), Covers(i) PROVE i < Mid
    <3>1. i > Mid => ranges[Mid].end < ranges[i].start BY <1>3 DEF InOrder
    <3>2. ranges[i].start \in Int /\ ranges[Mid].start \in Int /\ ranges[Mid].end \in Int /\ lookahead \in Int
      BY <1>3 DEF InOrder
    <3> QED BY <1>3, <1>6, <2>2, <3>1, <3>2 DEF Covers
  <2>3. ASSUME NEW i \in 0..(len - 1), Covers(i) PROVE i \in index..(index + size - 1)
    BY <2>3 DEF IInv, Halve, Remaining
  <2>4. ASSUME NEW i \in 0..(len - 1), Covers(i) PROVE i \in index'..(index' + size' - 1)
    BY <1>1, <1>2, <2>1, <2>2, <2>3, <2>4 DEF IInv
  <2>5. index' \in Nat /\ size' \in Nat \ {0} /\ index' + size' <= len BY <1>1, <2>1 DEF IInv, InOrder
  <2> QED BY <2>1, <2>4, <2>5 DEF IInv, Remaining, Covers
<1> QED BY <1>4, <1>5, <1>6

LEMMA CheckLastIInv == ASSUME InOrder, IInv, CheckLast PROVE IInv'
<1>1. size = 1 /\ index \in 0..(len - 1) BY DEF InOrder, IInv, CheckLast
<1>2. ASSUME NEW i \in 0..(len - 1), Covers(i) PROVE i = index
  BY <1>1, <1>2 DEF IInv, CheckLast, Remaining
<1>3. CASE Covers(index) BY <1>1, <1>3 DEF IInv, CheckLast, Contained, Remaining, Covers
<1>4. CASE ~Covers(index)
  <2>1. ~Contained BY <1>2, <1>4 DEF Contained
  <2> QED BY <1>4, <2>1 DEF IInv, CheckLast, Contained, Remaining, Covers
<1> QED BY <1>3, <1>4

LEMMA SpecIInv == ASSUME InOrder PROVE Spec => []IInv
<1>1. ASSUME IInv, [Halve \/ CheckLast]_vars PROVE IInv'
  <2>1. CASE Halve BY <1>1, <2>1, HalveIInv
  <2>2. CASE CheckLast BY <1>1, <2>2, CheckLastIInv
  <2>3. CASE UNCHANGED vars BY <1>1, <2>3 DEF vars, IInv, Remaining, Contained, Covers
  <2> QED BY <1>1, <2>1, <2>2, <2>3
<1> QED BY InitIInv, <1>1, PTL DEF Spec

(* set_contains says that a character is in a set exactly if it is: for    *)
(* any number of ranges, any ranges in order, and any character.           *)
THEOREM SearchFindsWhatIsThere == ASSUME InOrder PROVE Spec => []FindsWhatIsThere
<1>1. IInv => FindsWhatIsThere BY DEF IInv, FindsWhatIsThere
<1> QED BY SpecIInv, <1>1, PTL

(* The search of set_contains comes to an end: every step answers or       *)
(* leaves fewer ranges, and never none.                                    *)
THEOREM SearchNarrows == ASSUME InOrder PROVE Spec => Narrows
<1>1. ASSUME IInv, [Halve \/ CheckLast]_vars
      PROVE  [result' # "none" \/ (0 < size' /\ size' < size)]_vars
  <2>1. CASE Halve
    <3>1. Half \in Nat /\ 0 < Half /\ Half < size BY <1>1, <2>1, HalfBounds DEF IInv, Halve, Half
    <3> QED BY <1>1, <2>1, <3>1 DEF IInv, Halve
  <2>2. CASE CheckLast BY <2>2 DEF CheckLast
  <2> QED BY <1>1, <2>1, <2>2
<1> QED BY SpecIInv, <1>1, PTL DEF Spec, Narrows
===============================================================================
