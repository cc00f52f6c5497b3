---------------------------- MODULE TextEditsProofs ----------------------------
(***************************************************************************)
(* Proofs about TextEdits, for texts of any length.                        *)
(***************************************************************************)
EXTENDS TextEdits, SequenceTheorems, FiniteSetTheorems, WellFoundedInduction, TLAPS

(* The first p bytes of both texts are the same, and the last s; these do  *)
(* not overlap.                                                            *)
Stays(one, two, p, s) ==
  /\ one \in Seq(Byte) /\ two \in Seq(Byte)
  /\ p \in Nat /\ s \in Nat
  /\ p + s <= Len(one) /\ p + s <= Len(two)
  /\ \A i \in 1..p : one[i] = two[i]
  /\ \A i \in 1..s : one[Len(one) - s + i] = two[Len(two) - s + i]

PrefixIsWhole == Between(old, prefix)
SuffixIsWhole == Between(old, Len(old) - suffix)

IInv ==
  /\ Stays(old, new, prefix, suffix)
  /\ old \in Texts
  /\ Utf8(old) /\ Utf8(new)
  /\ at \in {"request", "prefix", "whole prefix", "suffix", "whole suffix", "edit"}
  /\ at \in {"request", "prefix", "whole prefix"} => suffix = 0
  /\ at = "request" => prefix = 0
  /\ at \in {"suffix", "whole suffix", "edit"} => PrefixIsWhole
  /\ at = "edit" => SuffixIsWhole

-------------------------------------------------------------------------------
(* What the loops do to the parts that stay.                               *)

LEMMA NothingStays == ASSUME NEW one \in Seq(Byte), NEW two \in Seq(Byte) PROVE Stays(one, two, 0, 0)
BY DEF Stays

LEMMA LongerPrefix ==
  ASSUME NEW one, NEW two, NEW p, Stays(one, two, p, 0),
         p < Len(one), p < Len(two), one[p + 1] = two[p + 1]
  PROVE  Stays(one, two, p + 1, 0)
BY DEF Stays

LEMMA ShorterPrefix ==
  ASSUME NEW one, NEW two, NEW p, NEW s, Stays(one, two, p, s), p > 0
  PROVE  Stays(one, two, p - 1, s)
BY DEF Stays

LEMMA LongerSuffix ==
  ASSUME NEW one, NEW two, NEW p, NEW s, Stays(one, two, p, s),
         s < Len(one) - p, s < Len(two) - p, one[Len(one) - s] = two[Len(two) - s]
  PROVE  Stays(one, two, p, s + 1)
<1>1. ASSUME NEW i \in 1..(s + 1) PROVE one[Len(one) - (s + 1) + i] = two[Len(two) - (s + 1) + i]
  <2>1. CASE i = 1 BY <2>1 DEF Stays
  <2>2. CASE i # 1
    <3>1. i - 1 \in 1..s BY <2>2 DEF Stays
    <3>2. one[Len(one) - s + (i - 1)] = two[Len(two) - s + (i - 1)] BY <3>1 DEF Stays
    <3> QED BY <3>2 DEF Stays
  <2> QED BY <2>1, <2>2
<1> QED BY <1>1 DEF Stays

LEMMA ShorterSuffix ==
  ASSUME NEW one, NEW two, NEW p, NEW s, Stays(one, two, p, s), s > 0
  PROVE  Stays(one, two, p, s - 1)
<1>1. ASSUME NEW i \in 1..(s - 1) PROVE one[Len(one) - (s - 1) + i] = two[Len(two) - (s - 1) + i]
  <2>1. i + 1 \in 1..s BY DEF Stays
  <2>2. one[Len(one) - s + (i + 1)] = two[Len(two) - s + (i + 1)] BY <2>1 DEF Stays
  <2> QED BY <2>2 DEF Stays
<1> QED BY <1>1 DEF Stays

LEMMA UncutPrefix ==
  ASSUME Stays(old, new, prefix, suffix), ~PrefixCuts PROVE PrefixIsWhole
BY DEF Stays, PrefixCuts, PrefixIsWhole, Between

LEMMA UncutSuffix ==
  ASSUME Stays(old, new, prefix, suffix), ~SuffixCuts PROVE SuffixIsWhole
BY DEF Stays, SuffixCuts, SuffixIsWhole, Between

-------------------------------------------------------------------------------
LEMMA InitIInv == ASSUME Init PROVE IInv
<1>1. /\ old \in Texts /\ old \in Seq(Byte) /\ Utf8(old)
      /\ new = old /\ prefix = 0 /\ suffix = 0 /\ at = "request"
  BY TextsAssumption, Zenon DEF Init
<1>2. Stays(old, new, prefix, suffix) BY <1>1, NothingStays, Zenon
<1> QED BY <1>1, <1>2, Zenon DEF IInv

LEMMA ReconcileIInv == ASSUME IInv, Reconcile PROVE IInv'
<1>1. /\ new' \in Seq(Byte) /\ Utf8(new)'
      /\ old' = old /\ prefix' = 0 /\ suffix' = 0 /\ at' = "prefix"
      /\ old \in Texts /\ old \in Seq(Byte) /\ Utf8(old)
  BY TextsAssumption, Zenon DEF IInv, Reconcile
<1>2. Stays(old', new', prefix', suffix') BY <1>1, NothingStays, Zenon
<1>3. Utf8(old)' BY <1>1, Zenon DEF Utf8
<1> QED BY <1>1, <1>2, <1>3, Zenon DEF IInv

LEMMA TextsStay ==
  ASSUME IInv, UNCHANGED <<old, new>> PROVE /\ (old \in Texts)' /\ Utf8(old)' /\ Utf8(new)'
BY Zenon DEF IInv, Utf8

LEMMA GrowPrefixIInv == ASSUME IInv, GrowPrefix PROVE IInv'
<1>1. suffix = 0 /\ at = "prefix" /\ UNCHANGED <<old, new, suffix>> BY Zenon DEF IInv, GrowPrefix
<1>2. (old \in Texts)' /\ Utf8(old)' /\ Utf8(new)' BY <1>1, TextsStay, Zenon
<1>3. CASE SamePrefix
  <2>1. prefix' = prefix + 1 /\ at' = "prefix" BY <1>1, <1>3, Zenon DEF GrowPrefix
  <2>2. Stays(old, new, prefix, 0) BY <1>1, Zenon DEF IInv
  <2>3. Stays(old, new, prefix + 1, 0) BY <1>3, <2>2, LongerPrefix, Zenon DEF SamePrefix
  <2> QED BY <1>1, <1>2, <2>1, <2>3, Zenon DEF IInv
<1>4. CASE ~SamePrefix
  <2>1. UNCHANGED prefix /\ at' = "whole prefix" BY <1>1, <1>4, Zenon DEF GrowPrefix
  <2> QED BY <1>1, <1>2, <2>1, Zenon DEF IInv
<1> QED BY <1>3, <1>4

LEMMA ShrinkPrefixIInv == ASSUME IInv, ShrinkPrefix PROVE IInv'
<1>1. suffix = 0 /\ at = "whole prefix" /\ UNCHANGED <<old, new, suffix>> BY Zenon DEF IInv, ShrinkPrefix
<1>2. (old \in Texts)' /\ Utf8(old)' /\ Utf8(new)' BY <1>1, TextsStay, Zenon
<1>3. Stays(old, new, prefix, suffix) BY Zenon DEF IInv
<1>4. CASE PrefixCuts
  <2>1. prefix' = prefix - 1 /\ at' = "whole prefix" BY <1>1, <1>4, Zenon DEF ShrinkPrefix
  <2>2. Stays(old, new, prefix - 1, suffix) BY <1>3, <1>4, ShorterPrefix, Zenon DEF PrefixCuts
  <2> QED BY <1>1, <1>2, <2>1, <2>2, Zenon DEF IInv
<1>5. CASE ~PrefixCuts
  <2>1. UNCHANGED prefix /\ at' = "suffix" BY <1>1, <1>5, Zenon DEF ShrinkPrefix
  <2>2. PrefixIsWhole BY <1>3, <1>5, UncutPrefix
  <2>3. PrefixIsWhole' BY <1>1, <2>1, <2>2, Zenon DEF PrefixIsWhole, Between
  <2> QED BY <1>1, <1>2, <1>3, <2>1, <2>3, Zenon DEF IInv
<1> QED BY <1>4, <1>5

LEMMA GrowSuffixIInv == ASSUME IInv, GrowSuffix PROVE IInv'
<1>1. at = "suffix" /\ UNCHANGED <<old, new, prefix>> BY Zenon DEF GrowSuffix
<1>2. (old \in Texts)' /\ Utf8(old)' /\ Utf8(new)' BY <1>1, TextsStay, Zenon
<1>3. Stays(old, new, prefix, suffix) /\ PrefixIsWhole BY <1>1, Zenon DEF IInv
<1>4. PrefixIsWhole' BY <1>1, <1>3, Zenon DEF PrefixIsWhole, Between
<1>5. CASE SameSuffix
  <2>1. suffix' = suffix + 1 /\ at' = "suffix" BY <1>1, <1>5, Zenon DEF GrowSuffix
  <2>2. Stays(old, new, prefix, suffix + 1) BY <1>3, <1>5, LongerSuffix, Zenon DEF SameSuffix
  <2> QED BY <1>1, <1>2, <1>4, <2>1, <2>2, Zenon DEF IInv
<1>6. CASE ~SameSuffix
  <2>1. UNCHANGED suffix /\ at' = "whole suffix" BY <1>1, <1>6, Zenon DEF GrowSuffix
  <2> QED BY <1>1, <1>2, <1>3, <1>4, <2>1, Zenon DEF IInv
<1> QED BY <1>5, <1>6

LEMMA ShrinkSuffixIInv == ASSUME IInv, ShrinkSuffix PROVE IInv'
<1>1. at = "whole suffix" /\ UNCHANGED <<old, new, prefix>> BY Zenon DEF ShrinkSuffix
<1>2. (old \in Texts)' /\ Utf8(old)' /\ Utf8(new)' BY <1>1, TextsStay, Zenon
<1>3. Stays(old, new, prefix, suffix) /\ PrefixIsWhole BY <1>1, Zenon DEF IInv
<1>4. PrefixIsWhole' BY <1>1, <1>3, Zenon DEF PrefixIsWhole, Between
<1>5. CASE SuffixCuts
  <2>1. suffix' = suffix - 1 /\ at' = "whole suffix" BY <1>1, <1>5, Zenon DEF ShrinkSuffix
  <2>2. Stays(old, new, prefix, suffix - 1) BY <1>3, <1>5, ShorterSuffix, Zenon DEF SuffixCuts
  <2> QED BY <1>1, <1>2, <1>4, <2>1, <2>2, Zenon DEF IInv
<1>6. CASE ~SuffixCuts
  <2>1. UNCHANGED suffix /\ at' = "edit" BY <1>1, <1>6, Zenon DEF ShrinkSuffix
  <2>2. SuffixIsWhole BY <1>3, <1>6, UncutSuffix
  <2>3. SuffixIsWhole' BY <1>1, <2>1, <2>2, Zenon DEF SuffixIsWhole, Between
  <2> QED BY <1>1, <1>2, <1>3, <1>4, <2>1, <2>3, Zenon DEF IInv
<1> QED BY <1>5, <1>6

LEMMA SpecIInv == Spec => []IInv
<1>1. ASSUME IInv, [Next]_vars PROVE IInv'
  <2>1. CASE Reconcile BY <1>1, <2>1, ReconcileIInv
  <2>2. CASE GrowPrefix BY <1>1, <2>2, GrowPrefixIInv
  <2>3. CASE ShrinkPrefix BY <1>1, <2>3, ShrinkPrefixIInv
  <2>4. CASE GrowSuffix BY <1>1, <2>4, GrowSuffixIInv
  <2>5. CASE ShrinkSuffix BY <1>1, <2>5, ShrinkSuffixIInv
  <2>6. CASE UNCHANGED vars BY <1>1, <2>6, Zenon DEF vars, IInv, Utf8, PrefixIsWhole, SuffixIsWhole, Between
  <2> QED BY <1>1, <2>1, <2>2, <2>3, <2>4, <2>5, <2>6 DEF Next, MinimalEdit, Send
<1> QED BY InitIInv, <1>1, PTL DEF Spec

(* The parts that stay never overlap: neither in the text of the document  *)
(* nor in the new one (minimalEdit).                                       *)
THEOREM TextEditsTypeOK == Spec => []TypeOK
<1>1. IInv => TypeOK BY DEF IInv, Stays, TypeOK
<1> QED BY SpecIInv, <1>1, PTL

-------------------------------------------------------------------------------
(* Where a text of whole characters may be cut, another one may be cut if  *)
(* they are the same up to there.                                          *)
LEMMA StartOfCharacter ==
  ASSUME NEW text \in Seq(Byte), Utf8(text), NEW i \in 1..Len(text), RuneStart(text[i])
  PROVE  /\ i + Width(text[i]) - 1 <= Len(text)
         /\ \A j \in (i + 1)..(i + Width(text[i]) - 1) : ~RuneStart(text[j])
<1>1. PICK start \in 1..i :
        /\ i <= start + Width(text[start]) - 1 /\ start + Width(text[start]) - 1 <= Len(text)
        /\ \A j \in (start + 1)..(start + Width(text[start]) - 1) : ~RuneStart(text[j])
  BY DEF Utf8
<1>2. Width(text[start]) \in Nat BY DEF Width
<1>3. start = i BY <1>1, <1>2
<1> QED BY <1>1, <1>3

LEMMA SameCut ==
  ASSUME NEW one \in Seq(Byte), Utf8(one), NEW two \in Seq(Byte), Utf8(two),
         NEW k \in Nat, k <= Len(one), k <= Len(two),
         \A i \in 1..k : one[i] = two[i],
         Between(one, k)
  PROVE  Between(two, k)
<1> SUFFICES ASSUME k \in 1..(Len(two) - 1), ~RuneStart(two[k + 1]) PROVE FALSE
  BY DEF Between
<1>1. PICK start \in 1..(k + 1) : RuneStart(two[start]) /\ k + 1 <= start + Width(two[start]) - 1
  BY DEF Utf8
<1>2. start \in 1..k BY <1>1
<1>3. one[start] = two[start] /\ RuneStart(one[start]) BY <1>1, <1>2
<1>4. /\ start + Width(one[start]) - 1 <= Len(one)
      /\ \A j \in (start + 1)..(start + Width(one[start]) - 1) : ~RuneStart(one[j])
  BY <1>2, <1>3, StartOfCharacter
<1>5. Width(one[start]) \in Nat BY DEF Width
<1>6. k + 1 <= Len(one) /\ ~RuneStart(one[k + 1]) BY <1>1, <1>2, <1>3, <1>4, <1>5
<1> QED BY <1>6 DEF Between

LEMMA FirstByte == ASSUME NEW text \in Seq(Byte), Utf8(text), Len(text) > 0 PROVE RuneStart(text[1])
BY DEF Utf8

(* The edit cuts no character in either text, whatever bytes the texts     *)
(* have in common (the loops with utf8.RuneStart in minimalEdit).          *)
THEOREM EditsKeepCharacters == Spec => []EditKeepsCharacters
<1>1. ASSUME IInv PROVE EditKeepsCharacters
  <2> SUFFICES ASSUME at = "edit"
               PROVE  /\ Between(old, prefix) /\ Between(old, Len(old) - suffix)
                      /\ Between(new, prefix) /\ Between(new, Len(new) - suffix)
    BY Zenon DEF EditKeepsCharacters
  <2>1. Stays(old, new, prefix, suffix) /\ Utf8(old) /\ Utf8(new) BY <1>1, Zenon DEF IInv
  <2>2. Between(old, prefix) /\ Between(old, Len(old) - suffix)
    BY <1>1, Zenon DEF IInv, PrefixIsWhole, SuffixIsWhole
  <2>3. Between(new, prefix)
    <3>1. /\ old \in Seq(Byte) /\ new \in Seq(Byte) /\ prefix \in Nat
          /\ prefix <= Len(old) /\ prefix <= Len(new)
          /\ \A i \in 1..prefix : old[i] = new[i]
      BY <2>1 DEF Stays
    <3> QED BY <2>1, <2>2, <3>1, SameCut, Zenon
  <2>4. ASSUME Len(new) - suffix \in 1..(Len(new) - 1) PROVE RuneStart(new[Len(new) - suffix + 1])
    <3>1. /\ suffix \in Nat /\ suffix > 0 /\ suffix <= Len(old) /\ Len(old) \in Nat
          /\ old \in Seq(Byte)
      BY <2>1, <2>4 DEF Stays
    <3>2. new[Len(new) - suffix + 1] = old[Len(old) - suffix + 1] BY <2>1, <3>1 DEF Stays
    <3>3. CASE suffix = Len(old)
      <4>1. RuneStart(old[1]) BY <2>1, <3>1, <3>3, FirstByte
      <4> QED BY <3>1, <3>2, <3>3, <4>1
    <3>4. CASE suffix # Len(old)
      <4>1. Len(old) - suffix \in 1..(Len(old) - 1) BY <3>1, <3>4
      <4>2. RuneStart(old[Len(old) - suffix + 1]) BY <2>2, <4>1, Zenon DEF Between
      <4> QED BY <3>2, <4>2
    <3> QED BY <3>3, <3>4
  <2> QED BY <2>2, <2>3, <2>4, Zenon DEF Between
<1> QED BY SpecIInv, <1>1, PTL

(* What stays and what is new in between, one after the other. *)
LEMMA Joined ==
  ASSUME NEW one, NEW two, NEW p, NEW s, Stays(one, two, p, s)
  PROVE  two = SubSeq(one, 1, p) \o SubSeq(two, p + 1, Len(two) - s) \o SubSeq(one, Len(one) - s + 1, Len(one))
<1> DEFINE first == SubSeq(one, 1, p)
           middle == SubSeq(two, p + 1, Len(two) - s)
           last == SubSeq(one, Len(one) - s + 1, Len(one))
<1>1. /\ one \in Seq(Byte) /\ two \in Seq(Byte) /\ p \in Nat /\ s \in Nat
      /\ Len(one) \in Nat /\ Len(two) \in Nat
      /\ p + s <= Len(one) /\ p + s <= Len(two)
  BY DEF Stays
<1>2. first \in Seq(Byte) /\ Len(first) = p /\ \A i \in 1..p : first[i] = two[i]
  BY <1>1 DEF Stays
<1>3. /\ middle \in Seq(Byte) /\ Len(middle) = Len(two) - s - p
      /\ \A i \in 1..(Len(two) - s - p) : middle[i] = two[p + i]
  BY <1>1
<1>4. last \in Seq(Byte) /\ Len(last) = s /\ \A i \in 1..s : last[i] = two[Len(two) - s + i]
  BY <1>1 DEF Stays
<1> HIDE DEF first, middle, last
<1> DEFINE start == first \o middle
<1> DEFINE n == Len(two)
           m == Len(two) - s
<1>5. /\ n \in Nat /\ m \in Nat /\ p \in Nat /\ s \in Nat /\ p <= m /\ n = m + s
      /\ Len(middle) = m - p /\ Len(first) = p /\ Len(last) = s
      /\ \A i \in 1..p : first[i] = two[i]
      /\ \A i \in 1..(m - p) : middle[i] = two[p + i]
      /\ \A i \in 1..s : last[i] = two[m + i]
  BY <1>1, <1>2, <1>3, <1>4
<1>6. /\ start \in Seq(Byte) /\ Len(start) = Len(first) + Len(middle)
      /\ \A i \in 1..(Len(first) + Len(middle)) :
           start[i] = IF i <= Len(first) THEN first[i] ELSE middle[i - Len(first)]
  BY <1>2, <1>3, ConcatProperties
<1> DEFINE joined == start \o last
<1>7. /\ joined \in Seq(Byte) /\ Len(joined) = Len(start) + Len(last)
      /\ \A i \in 1..(Len(start) + Len(last)) :
           joined[i] = IF i <= Len(start) THEN start[i] ELSE last[i - Len(start)]
  <2> HIDE DEF start
  <2>1. start \in Seq(Byte) /\ last \in Seq(Byte) BY <1>4, <1>6
  <2> QED BY <2>1, ConcatProperties, Zenon
<1>8. n = Len(two) BY DEF n
<1> HIDE DEF n, m, start, joined
<1>9. Len(start) = m /\ Len(joined) = n BY <1>5, <1>6, <1>7
<1>10. ASSUME NEW i \in 1..m PROVE start[i] = two[i]
  <2>1. CASE i <= p BY <1>5, <1>6, <2>1
  <2>2. CASE p < i
    <3>1. i - p \in 1..(m - p) /\ p + (i - p) = i BY <1>5, <2>2
    <3>2. middle[i - p] = two[i] BY <1>5, <3>1
    <3> QED BY <1>5, <1>6, <2>2, <3>2
  <2> QED BY <1>5, <2>1, <2>2
<1>11. ASSUME NEW i \in 1..n PROVE joined[i] = two[i]
  <2>1. CASE i <= m
    <3>1. start[i] = two[i] BY <1>5, <1>10, <2>1
    <3> QED BY <1>5, <1>7, <1>9, <2>1, <3>1
  <2>2. CASE m < i
    <3>1. i - m \in 1..s /\ m + (i - m) = i BY <1>5, <2>2
    <3>2. last[i - m] = two[i] BY <1>5, <3>1
    <3> QED BY <1>5, <1>7, <1>9, <2>2, <3>2
  <2> QED BY <1>5, <2>1, <2>2
<1>12. two = joined
  <2>1. two \in Seq(Byte) /\ joined \in Seq(Byte) /\ Len(joined) = Len(two) BY <1>1, <1>7, <1>8, <1>9
  <2>2. \A i \in 1..Len(two) : joined[i] = two[i] BY <1>8, <1>11
  <2> QED BY <2>1, <2>2, SeqEqual
<1> QED BY <1>12 DEF joined, start, first, middle, last

(* The edit turns the text of the document into the new one, byte for byte *)
(* (minimalEdit).                                                          *)
THEOREM EditsGiveNewText == Spec => []EditGivesNewText
<1>1. IInv => EditGivesNewText BY Joined, Zenon DEF IInv, EditGivesNewText, NewText
<1> QED BY SpecIInv, <1>1, PTL
-------------------------------------------------------------------------------
(* No other edit leaves more of the text alone. First the loops: no cut    *)
(* between characters that they could have chosen is beyond theirs.        *)

SameStart(one, two, p) == p <= Len(one) /\ p <= Len(two) /\ \A i \in 1..p : one[i] = two[i]
SameEnd(one, two, s) ==
  s <= Len(one) /\ s <= Len(two) /\ \A i \in 1..s : one[Len(one) - s + i] = two[Len(two) - s + i]

LongestStart(one, two, q) ==
  \A p \in Nat : SameStart(one, two, p) /\ Between(one, p) => p <= q
LongestEnd(one, two, q, t) ==
  \A s \in Nat :
    SameEnd(one, two, s) /\ s <= Len(one) - q /\ s <= Len(two) - q /\ Between(one, Len(one) - s) => s <= t

LEMMA NoLongerStart ==
  ASSUME NEW one, NEW two, NEW q, NEW t, Stays(one, two, q, t),
         ~(q < Len(one) /\ q < Len(two) /\ one[q + 1] = two[q + 1])
  PROVE  LongestStart(one, two, q)
BY DEF LongestStart, SameStart, Stays

LEMMA CutStart ==
  ASSUME NEW one \in Seq(Byte), NEW two, NEW q \in Nat, LongestStart(one, two, q),
         q > 0, q < Len(one), ~RuneStart(one[q + 1])
  PROVE  LongestStart(one, two, q - 1)
<1>1. ~Between(one, q) BY DEF Between
<1> QED BY <1>1 DEF LongestStart

LEMMA NoLongerEnd ==
  ASSUME NEW one, NEW two, NEW q, NEW t, Stays(one, two, q, t),
         ~(t < Len(one) - q /\ t < Len(two) - q /\ one[Len(one) - t] = two[Len(two) - t])
  PROVE  LongestEnd(one, two, q, t)
<1> SUFFICES ASSUME NEW s \in Nat, SameEnd(one, two, s), s <= Len(one) - q, s <= Len(two) - q, s > t
             PROVE  FALSE
  BY DEF LongestEnd, Stays
<1>1. /\ t \in Nat /\ q \in Nat /\ Len(one) \in Nat /\ Len(two) \in Nat
      /\ s - t \in 1..s /\ Len(one) - s + (s - t) = Len(one) - t /\ Len(two) - s + (s - t) = Len(two) - t
  BY DEF Stays
<1>2. one[Len(one) - t] = two[Len(two) - t] BY <1>1 DEF SameEnd
<1> QED BY <1>1, <1>2

LEMMA CutEnd ==
  ASSUME NEW one \in Seq(Byte), Utf8(one), NEW two, NEW q, NEW t \in Nat, LongestEnd(one, two, q, t),
         t > 0, t <= Len(one), ~RuneStart(one[Len(one) - t + 1])
  PROVE  LongestEnd(one, two, q, t - 1)
<1>1. t # Len(one) BY FirstByte
<1>2. ~Between(one, Len(one) - t) BY <1>1 DEF Between
<1> QED BY <1>2 DEF LongestEnd

Longest ==
  /\ at \in {"whole prefix", "suffix", "whole suffix", "edit"} => LongestStart(old, new, prefix)
  /\ at \in {"whole suffix", "edit"} => LongestEnd(old, new, prefix, suffix)

LEMMA SpecLongest == Spec => []Longest
<1>1. Init => Longest BY Zenon DEF Init, Longest
<1>2. ASSUME IInv, Longest, [Next]_vars PROVE Longest'
  <2>1. Stays(old, new, prefix, suffix) /\ Utf8(old) BY <1>2, Zenon DEF IInv
  <2>2. /\ old \in Seq(Byte) /\ prefix \in Nat /\ suffix \in Nat /\ suffix <= Len(old)
    BY <2>1 DEF Stays
  <2>3. CASE Reconcile BY <2>3, Zenon DEF Reconcile, Longest
  <2>4. CASE GrowPrefix
    <3>1. CASE SamePrefix BY <2>4, <3>1, Zenon DEF GrowPrefix, Longest
    <3>2. CASE ~SamePrefix
      <4>1. LongestStart(old, new, prefix) BY <2>1, <3>2, NoLongerStart, Zenon DEF SamePrefix
      <4>2. UNCHANGED <<old, new, prefix>> /\ at' = "whole prefix" BY <2>4, <3>2, Zenon DEF GrowPrefix
      <4> QED BY <4>1, <4>2, Zenon DEF Longest
    <3> QED BY <3>1, <3>2
  <2>5. CASE ShrinkPrefix
    <3>1. LongestStart(old, new, prefix) BY <1>2, <2>5, Zenon DEF ShrinkPrefix, Longest
    <3>2. CASE PrefixCuts
      <4>1. LongestStart(old, new, prefix - 1) BY <2>2, <3>1, <3>2, CutStart, Zenon DEF PrefixCuts
      <4>2. UNCHANGED <<old, new>> /\ prefix' = prefix - 1 /\ at' = "whole prefix"
        BY <2>5, <3>2, Zenon DEF ShrinkPrefix
      <4> QED BY <4>1, <4>2, Zenon DEF Longest
    <3>3. CASE ~PrefixCuts
      <4>1. UNCHANGED <<old, new, prefix>> /\ at' = "suffix" BY <2>5, <3>3, Zenon DEF ShrinkPrefix
      <4> QED BY <3>1, <4>1, Zenon DEF Longest
    <3> QED BY <3>2, <3>3
  <2>6. CASE GrowSuffix
    <3>1. LongestStart(old, new, prefix) BY <1>2, <2>6, Zenon DEF GrowSuffix, Longest
    <3>2. UNCHANGED <<old, new, prefix>> BY <2>6, Zenon DEF GrowSuffix
    <3>3. CASE SameSuffix BY <2>6, <3>1, <3>2, <3>3, Zenon DEF GrowSuffix, Longest
    <3>4. CASE ~SameSuffix
      <4>1. LongestEnd(old, new, prefix, suffix) BY <2>1, <3>4, NoLongerEnd, Zenon DEF SameSuffix
      <4>2. UNCHANGED suffix /\ at' = "whole suffix" BY <2>6, <3>4, Zenon DEF GrowSuffix
      <4> QED BY <3>1, <3>2, <4>1, <4>2, Zenon DEF Longest
    <3> QED BY <3>3, <3>4
  <2>7. CASE ShrinkSuffix
    <3>1. LongestStart(old, new, prefix) /\ LongestEnd(old, new, prefix, suffix)
      BY <1>2, <2>7, Zenon DEF ShrinkSuffix, Longest
    <3>2. UNCHANGED <<old, new, prefix>> BY <2>7, Zenon DEF ShrinkSuffix
    <3>3. CASE SuffixCuts
      <4>1. LongestEnd(old, new, prefix, suffix - 1)
        BY <2>1, <2>2, <3>1, <3>3, CutEnd, Zenon DEF SuffixCuts
      <4>2. suffix' = suffix - 1 /\ at' = "whole suffix" BY <2>7, <3>3, Zenon DEF ShrinkSuffix
      <4> QED BY <3>1, <3>2, <4>1, <4>2, Zenon DEF Longest
    <3>4. CASE ~SuffixCuts
      <4>1. UNCHANGED suffix /\ at' = "edit" BY <2>7, <3>4, Zenon DEF ShrinkSuffix
      <4> QED BY <3>1, <3>2, <4>1, Zenon DEF Longest
    <3> QED BY <3>3, <3>4
  <2>8. CASE UNCHANGED vars BY <1>2, <2>8, Zenon DEF vars, Longest
  <2> QED BY <1>2, <2>3, <2>4, <2>5, <2>6, <2>7, <2>8 DEF Next, MinimalEdit, Send
<1> QED BY <1>1, <1>2, SpecIInv, PTL DEF Spec

(* Taking more of the end, and less of the start, never pays: where a cut  *)
(* leaves an end that would overlap the start, all of the shorter text     *)
(* stays.                                                                  *)
LEMMA NothingLonger ==
  ASSUME NEW one \in Seq(Byte), NEW two \in Seq(Byte), Utf8(one), Utf8(two),
         NEW q, NEW t, Stays(one, two, q, t), Between(one, q),
         LongestStart(one, two, q), LongestEnd(one, two, q, t),
         NEW p \in Nat, NEW s \in Nat, p + s <= Len(one), p + s <= Len(two),
         SameStart(one, two, p), SameEnd(one, two, s), Between(one, p), Between(one, Len(one) - s)
  PROVE  p + s <= q + t
<1>1. /\ q \in Nat /\ t \in Nat /\ q + t <= Len(one) /\ q + t <= Len(two)
      /\ Len(one) \in Nat /\ Len(two) \in Nat /\ p <= q
  BY DEF Stays, LongestStart
<1>2. CASE s <= Len(one) - q /\ s <= Len(two) - q
  BY <1>1, <1>2 DEF LongestEnd
<1>3. ASSUME NEW r \in Nat, r < s, r <= Len(one) - q, r <= Len(two) - q,
             r = Len(one) - q \/ r = Len(two) - q
      PROVE  p + s <= q + t
  <2>1. SameEnd(one, two, r)
    <3>1. ASSUME NEW i \in 1..r PROVE one[Len(one) - r + i] = two[Len(two) - r + i]
      <4>1. /\ s - r + i \in 1..s
            /\ Len(one) - s + (s - r + i) = Len(one) - r + i
            /\ Len(two) - s + (s - r + i) = Len(two) - r + i
        BY <1>1, <1>3
      <4> QED BY <4>1 DEF SameEnd
    <3> QED BY <1>1, <1>3, <3>1 DEF SameEnd
  <2>2. Between(one, Len(one) - r)
    <3>1. CASE r = Len(one) - q BY <1>1, <3>1
    <3>2. CASE r = Len(two) - q /\ r > 0
      <4>1. one[Len(one) - r + 1] = two[q + 1]
        <5>1. 1 \in 1..r /\ Len(two) - r + 1 = q + 1 BY <1>1, <3>2
        <5> QED BY <2>1, <5>1 DEF SameEnd
      <4>2. RuneStart(two[q + 1])
        <5>1. CASE q = 0 BY <1>1, <3>2, <5>1, FirstByte
        <5>2. CASE q > 0
          <6>1. \A i \in 1..q : one[i] = two[i] BY DEF Stays
          <6>2. Between(two, q) BY <1>1, <6>1, SameCut
          <6> QED BY <1>1, <3>2, <5>2, <6>2 DEF Between
        <5> QED BY <1>1, <5>1, <5>2
      <4> QED BY <4>1, <4>2 DEF Between
    <3>3. CASE r = 0 BY <1>1, <3>3 DEF Between
    <3> QED BY <1>3, <3>1, <3>2, <3>3
  <2>3. r <= t BY <1>3, <2>1, <2>2 DEF LongestEnd
  <2> QED BY <1>1, <1>3, <2>3
<1>4. CASE ~(s <= Len(one) - q /\ s <= Len(two) - q)
  <2>1. CASE Len(one) <= Len(two)
    <3>1. Len(one) - q \in Nat /\ Len(one) - q < s /\ Len(one) - q <= Len(two) - q BY <1>1, <1>4, <2>1
    <3> QED BY <1>3, <3>1
  <2>2. CASE Len(two) <= Len(one)
    <3>1. Len(two) - q \in Nat /\ Len(two) - q < s /\ Len(two) - q <= Len(one) - q BY <1>1, <1>4, <2>2
    <3> QED BY <1>3, <3>1
  <2> QED BY <1>1, <2>1, <2>2
<1> QED BY <1>2, <1>4

LEMMA SameParts ==
  ASSUME NEW one \in Seq(Byte), NEW two \in Seq(Byte), NEW p \in Nat, NEW s \in Nat,
         p <= Len(one), p <= Len(two), s <= Len(one), s <= Len(two)
  PROVE  /\ SubSeq(one, 1, p) = SubSeq(two, 1, p) => SameStart(one, two, p)
         /\ SubSeq(one, Len(one) - s + 1, Len(one)) = SubSeq(two, Len(two) - s + 1, Len(two))
              => SameEnd(one, two, s)
<1>1. /\ \A i \in 1..p : SubSeq(one, 1, p)[i] = one[i]
      /\ \A i \in 1..p : SubSeq(two, 1, p)[i] = two[i]
  OBVIOUS
<1>2. /\ \A i \in 1..s : SubSeq(one, Len(one) - s + 1, Len(one))[i] = one[Len(one) - s + i]
      /\ \A i \in 1..s : SubSeq(two, Len(two) - s + 1, Len(two))[i] = two[Len(two) - s + i]
  OBVIOUS
<1>3. ASSUME SubSeq(one, 1, p) = SubSeq(two, 1, p) PROVE SameStart(one, two, p)
  BY <1>1, <1>3, Zenon DEF SameStart
<1>4. ASSUME SubSeq(one, Len(one) - s + 1, Len(one)) = SubSeq(two, Len(two) - s + 1, Len(two))
      PROVE  SameEnd(one, two, s)
  BY <1>2, <1>4, Zenon DEF SameEnd
<1> QED BY <1>3, <1>4

(* "Touching as little of the text as possible" (minimalEdit): of all edits*)
(* that cut no character, none leaves more of the text alone.              *)
THEOREM EditsAreMinimal == Spec => []EditIsMinimal
<1>1. ASSUME IInv, Longest PROVE EditIsMinimal
  <2> SUFFICES ASSUME at = "edit", NEW p \in 0..Len(old), NEW s \in 0..Len(old), Stay(p, s)
               PROVE  p + s <= prefix + suffix
    BY Zenon DEF EditIsMinimal
  <2>1. Stays(old, new, prefix, suffix) /\ Utf8(old) /\ Utf8(new) /\ Between(old, prefix)
    BY <1>1, Zenon DEF IInv, PrefixIsWhole
  <2>2. old \in Seq(Byte) /\ new \in Seq(Byte) /\ p \in Nat /\ s \in Nat
    BY <2>1 DEF Stays
  <2>3. /\ p + s <= Len(old) /\ p + s <= Len(new) /\ Between(old, p) /\ Between(old, Len(old) - s)
        /\ SubSeq(old, 1, p) = SubSeq(new, 1, p)
        /\ SubSeq(old, Len(old) - s + 1, Len(old)) = SubSeq(new, Len(new) - s + 1, Len(new))
    BY Zenon DEF Stay
  <2>4. p <= Len(old) /\ p <= Len(new) /\ s <= Len(old) /\ s <= Len(new)
    BY <2>2, <2>3
  <2>5. SameStart(old, new, p) /\ SameEnd(old, new, s)
    BY <2>2, <2>3, <2>4, SameParts, Zenon
  <2>6. LongestStart(old, new, prefix) /\ LongestEnd(old, new, prefix, suffix)
    BY <1>1, Zenon DEF Longest
  <2> QED BY <2>1, <2>2, <2>3, <2>5, <2>6, NothingLonger, Zenon
<1> QED BY SpecIInv, SpecLongest, <1>1, PTL

-------------------------------------------------------------------------------
(* Numbers and sets of numbers. *)

(* A set of natural numbers that is not empty has a least element. *)
LEMMA Least ==
  ASSUME NEW S \in SUBSET Nat, S # {}
  PROVE  \E m \in S : \A k \in S : m <= k
<1> DEFINE R == OpToRel(<, Nat)
<1>1. IsWellFoundedOn(R, Nat) BY NatLessThanWellFounded
<1>2. \E x \in S : \A y \in S : ~(<<y, x>> \in R) BY <1>1, WFMin
<1>3. \A x, y \in Nat : x < y => <<x, y>> \in R BY DEF OpToRel
<1> HIDE DEF R
<1>4. PICK x \in S : \A y \in S : ~(<<y, x>> \in R) BY <1>2
<1>5. \A y \in S : ~(y < x) BY <1>3, <1>4
<1> QED BY <1>5

LEMMA MinIsLeast ==
  ASSUME NEW S \in SUBSET Nat, S # {}
  PROVE  Min(S) \in S /\ \A k \in S : Min(S) <= k
BY Least DEF Min

LEMMA MaxIsGreatest ==
  ASSUME NEW S \in SUBSET Nat, S # {}, NEW n \in Nat, \A k \in S : k <= n
  PROVE  Max(S) \in S /\ \A k \in S : k <= Max(S)
<1> DEFINE D == {n - k : k \in S}
<1>0. \A k \in S : k \in Nat OBVIOUS
<1>1. D \in SUBSET Nat /\ D # {}
  <2>1. \A d \in D : d \in Nat BY <1>0
  <2> QED BY <2>1
<1>2. PICK m \in D : \A d \in D : m <= d BY <1>1, Least
<1>3. PICK top \in S : m = n - top BY <1>2
<1>4. \A k \in S : k <= top BY <1>2, <1>3
<1> QED BY <1>4 DEF Max

LEMMA LesserOfTwo ==
  ASSUME NEW a \in Nat, NEW b \in Nat
  PROVE  Min({a, b}) = IF a <= b THEN a ELSE b
<1>1. Min({a, b}) \in {a, b} /\ \A k \in {a, b} : Min({a, b}) <= k BY MinIsLeast
<1> QED BY <1>1

(* How many elements are below one of them tells which one it is. *)
LEMMA CountBelow ==
  ASSUME NEW S \in SUBSET Nat, NEW s \in S, NEW t \in S,
         Cardinality({l \in S : l < s}) = Cardinality({l \in S : l < t})
  PROVE  s = t
<1>0. \A l \in S : l \in Nat OBVIOUS
<1>1. ASSUME NEW a \in S, NEW b \in S, a < b
      PROVE  Cardinality({l \in S : l < a}) < Cardinality({l \in S : l < b})
  <2> DEFINE A == {l \in S : l < a}
             B == {l \in S : l < b}
  <2>1. IsFiniteSet(B)
    <3>1. IsFiniteSet(0..b) BY FS_Interval
    <3>2. \A l \in B : l \in 0..b BY <1>0
    <3>3. B \in SUBSET (0..b) BY <3>2, Zenon
    <3> QED BY <3>1, <3>3, FS_Subset
  <2>2. A \in SUBSET B /\ a \in B /\ a \notin A
    <3>1. \A l \in A : l \in B BY <1>0, <1>1
    <3>2. A \in SUBSET B BY <3>1, Zenon
    <3> QED BY <1>0, <1>1, <3>2
  <2> HIDE DEF A, B
  <2>3. IsFiniteSet(A) /\ Cardinality(A) <= Cardinality(B) /\ (Cardinality(B) = Cardinality(A) => B = A)
    BY <2>1, <2>2, FS_Subset
  <2>4. Cardinality(A) \in Nat /\ Cardinality(B) \in Nat BY <2>1, <2>3, FS_CardinalityType
  <2>5. Cardinality(A) < Cardinality(B) BY <2>2, <2>3, <2>4
  <2> QED BY <2>5 DEF A, B
<1>2. Cardinality({l \in S : l < s}) \in Nat
  <2>1. IsFiniteSet(0..s) BY FS_Interval
  <2>2. \A l \in {k \in S : k < s} : l \in 0..s BY <1>0
  <2>3. {l \in S : l < s} \in SUBSET (0..s) BY <2>2, Zenon
  <2> QED BY <2>1, <2>3, FS_Subset, FS_CardinalityType
<1>3. s < t \/ t < s \/ s = t OBVIOUS
<1> QED BY <1>1, <1>2, <1>3

-------------------------------------------------------------------------------
(* How many UTF-16 units the characters between two places take.           *)
Starts(text, a, b) == {i \in (a + 1)..b : RuneStart(text[i])}
Wide(text, a, b) == {i \in (a + 1)..b : RuneStart(text[i]) /\ Width(text[i]) = 4}
UnitsIn(text, a, b) == Cardinality(Starts(text, a, b)) + Cardinality(Wide(text, a, b))

LEMMA FiniteParts ==
  ASSUME NEW text, NEW a \in Nat, NEW b \in Nat
  PROVE  /\ IsFiniteSet(Starts(text, a, b)) /\ IsFiniteSet(Wide(text, a, b))
         /\ Cardinality(Starts(text, a, b)) \in Nat /\ Cardinality(Wide(text, a, b)) \in Nat
<1>1. IsFiniteSet((a + 1)..b) BY FS_Interval
<1>2. Starts(text, a, b) \in SUBSET ((a + 1)..b) /\ Wide(text, a, b) \in SUBSET ((a + 1)..b)
  BY DEF Starts, Wide
<1>3. IsFiniteSet(Starts(text, a, b)) /\ IsFiniteSet(Wide(text, a, b)) BY <1>1, <1>2, FS_Subset
<1> QED BY <1>3, FS_CardinalityType

LEMMA UnitsAreNat ==
  ASSUME NEW text, NEW a \in Nat, NEW b \in Nat PROVE UnitsIn(text, a, b) \in Nat
BY FiniteParts DEF UnitsIn

LEMMA NoUnits == ASSUME NEW text, NEW a \in Nat PROVE UnitsIn(text, a, a) = 0
<1>1. Starts(text, a, a) = {} /\ Wide(text, a, a) = {} BY DEF Starts, Wide
<1> QED BY <1>1, FS_EmptySet DEF UnitsIn

LEMMA UnitsAdd ==
  ASSUME NEW text, NEW a \in Nat, NEW b \in Nat, NEW c \in Nat, a <= b, b <= c
  PROVE  UnitsIn(text, a, c) = UnitsIn(text, a, b) + UnitsIn(text, b, c)
<1>1. ASSUME NEW S, NEW T, IsFiniteSet(S), IsFiniteSet(T), S \cap T = {}
      PROVE  Cardinality(S \union T) = Cardinality(S) + Cardinality(T)
  <2>1. Cardinality(S \cup T) = Cardinality(S) + Cardinality(T) - Cardinality(S \cap T)
    BY <1>1, FS_Union
  <2>2. Cardinality(S) \in Nat /\ Cardinality(T) \in Nat BY <1>1, FS_CardinalityType
  <2>3. Cardinality(S \cap T) = 0 BY <1>1, FS_EmptySet
  <2> QED BY <2>1, <2>2, <2>3
<1>2. /\ Starts(text, a, c) = Starts(text, a, b) \union Starts(text, b, c)
      /\ Starts(text, a, b) \cap Starts(text, b, c) = {}
  BY DEF Starts
<1>3. /\ Wide(text, a, c) = Wide(text, a, b) \union Wide(text, b, c)
      /\ Wide(text, a, b) \cap Wide(text, b, c) = {}
  BY DEF Wide
<1>4. /\ Cardinality(Starts(text, a, c)) = Cardinality(Starts(text, a, b)) + Cardinality(Starts(text, b, c))
      /\ Cardinality(Wide(text, a, c)) = Cardinality(Wide(text, a, b)) + Cardinality(Wide(text, b, c))
  BY <1>1, <1>2, <1>3, FiniteParts
<1> HIDE <1>2, <1>3
<1> QED BY <1>4, FiniteParts DEF UnitsIn

LEMMA UnitsOfOne ==
  ASSUME NEW text, NEW a \in Nat
  PROVE  UnitsIn(text, a, a + 1) =
           IF ~RuneStart(text[a + 1]) THEN 0 ELSE IF Width(text[a + 1]) = 4 THEN 2 ELSE 1
<1>1. Starts(text, a, a + 1) = IF RuneStart(text[a + 1]) THEN {a + 1} ELSE {}
  BY DEF Starts
<1>2. Wide(text, a, a + 1) = IF RuneStart(text[a + 1]) /\ Width(text[a + 1]) = 4 THEN {a + 1} ELSE {}
  BY DEF Wide
<1>3. Cardinality({}) = 0 /\ Cardinality({a + 1}) = 1 BY FS_EmptySet, FS_Singleton
<1> QED BY <1>1, <1>2, <1>3 DEF UnitsIn

(* The more text, the more units, and more with each character. *)
LEMMA UnitsGrow ==
  ASSUME NEW text, NEW a \in Nat, NEW b \in Nat, NEW c \in Nat, a <= b, b <= c
  PROVE  /\ UnitsIn(text, a, b) <= UnitsIn(text, a, c)
         /\ b < c /\ RuneStart(text[b + 1]) => UnitsIn(text, a, b) < UnitsIn(text, a, c)
         /\ b < c /\ RuneStart(text[c]) => UnitsIn(text, a, b) < UnitsIn(text, a, c)
<1>1. UnitsIn(text, a, c) = UnitsIn(text, a, b) + UnitsIn(text, b, c) BY UnitsAdd
<1>2. UnitsIn(text, a, b) \in Nat /\ UnitsIn(text, b, c) \in Nat BY UnitsAreNat
<1>3. ASSUME b < c, RuneStart(text[b + 1]) PROVE UnitsIn(text, b, c) > 0
  <2>1. UnitsIn(text, b, c) = UnitsIn(text, b, b + 1) + UnitsIn(text, b + 1, c) BY <1>3, UnitsAdd
  <2>2. UnitsIn(text, b, b + 1) \in {1, 2} BY <1>3, UnitsOfOne
  <2> QED BY <2>1, <2>2, UnitsAreNat
<1>4. ASSUME b < c, RuneStart(text[c]) PROVE UnitsIn(text, b, c) > 0
  <2>1. UnitsIn(text, b, c) = UnitsIn(text, b, c - 1) + UnitsIn(text, c - 1, c) BY <1>4, UnitsAdd
  <2>2. UnitsIn(text, c - 1, (c - 1) + 1) \in {1, 2} BY <1>4, UnitsOfOne
  <2>3. UnitsIn(text, b, c - 1) \in Nat BY <1>4, UnitsAreNat
  <2> QED BY <2>1, <2>2, <2>3
<1> QED BY <1>1, <1>2, <1>3, <1>4

-------------------------------------------------------------------------------
(* Characters of a text, and places between them.                          *)
Whole(text, k) == k \in 0..Len(text) /\ Between(text, k)

LEMMA Widths == ASSUME NEW b PROVE Width(b) \in 1..4
BY DEF Width

LEMMA AfterCharacter ==
  ASSUME NEW text \in Seq(Byte), Utf8(text), NEW i \in 1..Len(text), RuneStart(text[i])
  PROVE  Whole(text, i + Width(text[i]) - 1)
<1> DEFINE end == i + Width(text[i]) - 1
<1>1. Width(text[i]) \in 1..4 BY Widths
<1>2. end \in i..Len(text) /\ \A j \in (i + 1)..end : ~RuneStart(text[j])
  BY <1>1, StartOfCharacter
<1> HIDE DEF end
<1>3. ASSUME end \in 1..(Len(text) - 1), ~RuneStart(text[end + 1]) PROVE FALSE
  <2>1. PICK start \in 1..(end + 1) :
          /\ RuneStart(text[start])
          /\ end + 1 <= start + Width(text[start]) - 1
          /\ \A j \in (start + 1)..(start + Width(text[start]) - 1) : ~RuneStart(text[j])
    BY <1>3 DEF Utf8
  <2>2. Width(text[start]) \in 1..4 BY Widths
  <2>3. start # end + 1 BY <1>3, <2>1
  <2>4. ~(start \in (i + 1)..end) BY <1>2, <2>1
  <2>5. ~(start < i) BY <1>2, <2>1, <2>2
  <2>6. start # i BY <2>1, <2>2 DEF end
  <2> QED BY <1>2, <2>3, <2>4, <2>5, <2>6
<1>4. Whole(text, end) BY <1>2, <1>3 DEF Whole, Between
<1> QED BY <1>4 DEF end

LEMMA CharacterBefore ==
  ASSUME NEW text \in Seq(Byte), Utf8(text), NEW k, Whole(text, k), k > 0
  PROVE  \E i \in 1..k :
           /\ RuneStart(text[i])
           /\ i + Width(text[i]) - 1 = k
           /\ \A j \in (i + 1)..k : ~RuneStart(text[j])
<1>1. k \in 1..Len(text) BY DEF Whole
<1>2. PICK i \in 1..k :
        /\ RuneStart(text[i])
        /\ k <= i + Width(text[i]) - 1 /\ i + Width(text[i]) - 1 <= Len(text)
        /\ \A j \in (i + 1)..(i + Width(text[i]) - 1) : ~RuneStart(text[j])
  BY <1>1 DEF Utf8
<1>3. Width(text[i]) \in 1..4 BY Widths
<1>4. k = i + Width(text[i]) - 1 BY <1>1, <1>2, <1>3 DEF Whole, Between
<1> QED BY <1>2, <1>4

LEMMA Ascii == ASSUME NEW b \in Byte, b < 128 PROVE RuneStart(b) /\ Width(b) = 1
BY DEF Byte, RuneStart, Width

(* After a byte of ASCII, a line break for example, the next character starts. *)
LEMMA AfterAscii ==
  ASSUME NEW text \in Seq(Byte), Utf8(text), NEW i \in 1..Len(text), text[i] < 128
  PROVE  RuneStart(text[i]) /\ Whole(text, i)
<1>1. text[i] \in Byte BY ElementOfSeq
<1>2. RuneStart(text[i]) /\ Width(text[i]) = 1 BY <1>1, Ascii
<1>3. Whole(text, i + 1 - 1) BY <1>2, AfterCharacter
<1> QED BY <1>2, <1>3

-------------------------------------------------------------------------------
(* In a slice that cuts no character, utf16.RuneLen is what it is for the  *)
(* characters of the text.                                                 *)
LEMMA UnitsOfWhole ==
  ASSUME NEW text \in Seq(Byte), Utf8(text), NEW to, Whole(text, to), NEW i \in 1..to
  PROVE  UnitsOf(text, i, to) =
           IF ~RuneStart(text[i]) THEN 0 ELSE IF Width(text[i]) = 4 THEN 2 ELSE 1
<1> DEFINE before == {j \in 1..i : RuneStart(text[j])}
<1>1. to \in 1..Len(text) /\ i \in 1..Len(text) BY DEF Whole
<1>2. PICK start \in 1..i :
        /\ RuneStart(text[start])
        /\ i <= start + Width(text[start]) - 1 /\ start + Width(text[start]) - 1 <= Len(text)
        /\ \A j \in (start + 1)..(start + Width(text[start]) - 1) : ~RuneStart(text[j])
  BY <1>1 DEF Utf8
<1>3. Width(text[start]) \in 1..4 BY Widths
<1>4. Max(before) = start
  <2>1. before \in SUBSET Nat /\ before # {} /\ \A j \in before : j <= i BY <1>2
  <2>2. i \in Nat OBVIOUS
  <2> HIDE DEF before
  <2>3. Max(before) \in before /\ \A j \in before : j <= Max(before) BY <2>1, <2>2, MaxIsGreatest
  <2>4. start \in before BY <1>2 DEF before
  <2>5. Max(before) \in 1..i /\ RuneStart(text[Max(before)]) BY <2>3 DEF before
  <2>6. start <= Max(before) BY <2>3, <2>4
  <2>7. ~(Max(before) \in (start + 1)..(start + Width(text[start]) - 1)) BY <1>2, <2>5
  <2> QED BY <1>2, <1>3, <2>5, <2>6, <2>7
<1>5. start + Width(text[start]) - 1 <= to BY <1>1, <1>2, <1>3 DEF Whole, Between
<1>6. UnitsOf(text, i, to) = IF i # start THEN 0 ELSE IF Width(text[i]) = 4 THEN 2 ELSE 1
  BY <1>1, <1>3, <1>4, <1>5 DEF UnitsOf
<1>7. RuneStart(text[i]) <=> i = start BY <1>2, <1>3
<1> QED BY <1>6, <1>7

LEMMA UnitsOfStarts ==
  ASSUME NEW text \in Seq(Byte), Utf8(text), NEW to, Whole(text, to), NEW bytes \in SUBSET (1..to)
  PROVE  Units(text, bytes, to) =
           Cardinality({i \in bytes : RuneStart(text[i])})
             + Cardinality({i \in bytes : RuneStart(text[i]) /\ Width(text[i]) = 4})
<1>1. ASSUME NEW i \in bytes
      PROVE  /\ UnitsOf(text, i, to) >= 1 <=> RuneStart(text[i])
             /\ UnitsOf(text, i, to) >= 2 <=> RuneStart(text[i]) /\ Width(text[i]) = 4
  BY UnitsOfWhole
<1>2. {i \in bytes : UnitsOf(text, i, to) >= 1} = {i \in bytes : RuneStart(text[i])} BY <1>1
<1>3. {i \in bytes : UnitsOf(text, i, to) >= 2} = {i \in bytes : RuneStart(text[i]) /\ Width(text[i]) = 4} BY <1>1
<1> QED BY <1>2, <1>3, Zenon DEF Units

LEMMA WholeSlice ==
  ASSUME NEW text \in Seq(Byte), Utf8(text), NEW from \in Nat, NEW to, Whole(text, to)
  PROVE  Utf16Len(text, from, to) = UnitsIn(text, from, to)
<1>1. (from + 1)..to \in SUBSET (1..to) BY DEF Whole
<1> QED BY <1>1, UnitsOfStarts, Zenon DEF Utf16Len, UnitsIn, Starts, Wide

(* The character before a place takes one unit or two. *)
LEMMA UnitsOfLast ==
  ASSUME NEW text \in Seq(Byte), NEW i \in Nat, i > 0, NEW k \in Nat, i <= k,
         RuneStart(text[i]), \A j \in (i + 1)..k : ~RuneStart(text[j])
  PROVE  UnitsIn(text, i - 1, k) \in {1, 2}
<1>1. UnitsIn(text, i - 1, k) = UnitsIn(text, i - 1, i) + UnitsIn(text, i, k) BY UnitsAdd
<1>2. UnitsIn(text, i - 1, (i - 1) + 1) \in {1, 2} BY UnitsOfOne
<1>3. Starts(text, i, k) = {} /\ Wide(text, i, k) = {} BY DEF Starts, Wide
<1>4. UnitsIn(text, i, k) = 0 BY <1>3, FS_EmptySet DEF UnitsIn
<1> QED BY <1>1, <1>2, <1>4

-------------------------------------------------------------------------------
(* Lines.                                                                  *)
Line(text, start) == Cardinality({l \in LineStarts(text) : l < start})

LEMMA LineBreaks ==
  ASSUME NEW text \in Seq(Byte), Utf8(text), NEW i \in 1..Len(text), text[i] \in {CR, LF}
  PROVE  RuneStart(text[i]) /\ Whole(text, i)
BY AfterAscii DEF CR, LF

LEMMA StartsOfLines ==
  ASSUME NEW text \in Seq(Byte)
  PROVE  LineStarts(text) \in SUBSET Nat /\ 0 \in LineStarts(text) /\ \A l \in LineStarts(text) : l <= Len(text)
<1>1. \A l \in LineStarts(text) : l \in Nat /\ l <= Len(text) BY DEF LineStarts
<1> QED BY <1>1, Zenon DEF LineStarts

LEMMA EndOfLine ==
  ASSUME NEW text \in Seq(Byte), NEW start \in LineStarts(text)
  PROVE  /\ LineEnd(text, start) \in start..Len(text)
         /\ \A j \in (start + 1)..LineEnd(text, start) : text[j] # LF
         /\ LineEnd(text, start) # Len(text) => text[LineEnd(text, start) + 1] \in {CR, LF}
<1> DEFINE ends == {k \in start..(Len(text) - 1) : text[k + 1] = LF} \union {Len(text)}
           end == Min(ends)
<1>1. start \in 0..Len(text) BY DEF LineStarts
<1>2. ends \in SUBSET Nat /\ ends # {}
  <2>1. \A k \in ends : k \in Nat BY <1>1
  <2> QED BY <2>1
<1>3. end \in ends /\ \A k \in ends : end <= k
  <2> HIDE DEF ends
  <2> QED BY <1>2, MinIsLeast
<1>4. LineEnd(text, start) = IF end > start /\ text[end] = CR THEN end - 1 ELSE end
  BY DEF LineEnd
<1>5. end \in start..Len(text) /\ (end = Len(text) \/ text[end + 1] = LF) BY <1>1, <1>3
<1>6. ASSUME NEW j \in (start + 1)..end PROVE text[j] # LF
  <2>1. (j - 1) \notin ends
    <3> HIDE DEF ends, end
    <3> QED BY <1>1, <1>3, <1>5
  <2>2. j - 1 \in start..(Len(text) - 1) /\ (j - 1) + 1 = j BY <1>1, <1>5
  <2> QED BY <2>1, <2>2
<1> HIDE DEF end
<1> QED BY <1>1, <1>4, <1>5, <1>6 DEF CR, LF

LEMMA LinesAreWhole ==
  ASSUME NEW text \in Seq(Byte), Utf8(text), NEW start \in LineStarts(text)
  PROVE  Whole(text, start) /\ Whole(text, LineEnd(text, start))
<1>1. start \in 0..Len(text) /\ (start = 0 \/ text[start] = LF) BY DEF LineStarts
<1>2. Whole(text, start)
  <2>1. CASE start = 0 BY <1>1, <2>1 DEF Whole, Between
  <2>2. CASE start # 0 BY <1>1, <2>2, LineBreaks
  <2> QED BY <2>1, <2>2
<1>3. Whole(text, LineEnd(text, start))
  <2> DEFINE end == LineEnd(text, start)
  <2>1. end \in 0..Len(text) /\ (end # Len(text) => text[end + 1] \in {CR, LF}) BY <1>1, EndOfLine
  <2> HIDE DEF end
  <2>2. ASSUME end \in 1..(Len(text) - 1) PROVE RuneStart(text[end + 1])
    <3>1. end + 1 \in 1..Len(text) /\ text[end + 1] \in {CR, LF} BY <2>1, <2>2
    <3> QED BY <3>1, LineBreaks
  <2>3. Whole(text, end) BY <2>1, <2>2 DEF Whole, Between
  <2> QED BY <2>3 DEF end
<1> QED BY <1>2, <1>3

(* The line of an offset is the one whose start is the last before it. *)
LEMMA PositionOf ==
  ASSUME NEW text \in Seq(Byte), Utf8(text), NEW k, Whole(text, k),
         NEW start \in LineStarts(text), start <= k, \A l \in LineStarts(text) : l <= k => l <= start
  PROVE  Position(text, k) = Place(Line(text, start), UnitsIn(text, start, k))
<1> DEFINE starts == {l \in LineStarts(text) : l <= k}
           below == {l \in LineStarts(text) : l < start}
<1>1. /\ LineStarts(text) \in SUBSET Nat /\ start \in Nat /\ k \in Nat /\ \A l \in LineStarts(text) : l \in Nat
  BY StartsOfLines DEF Whole
<1>2. Max(starts) = start
  <2>1. starts \in SUBSET Nat /\ starts # {} /\ \A l \in starts : l <= k BY <1>1
  <2>2. start \in starts /\ \A l \in starts : l <= start BY <1>1
  <2>3. \A l \in starts : l \in Nat BY <1>1
  <2> HIDE DEF starts
  <2>4. Max(starts) \in starts /\ \A l \in starts : l <= Max(starts) BY <1>1, <2>1, MaxIsGreatest
  <2> QED BY <2>2, <2>3, <2>4
<1>3. Cardinality(starts) - 1 = Cardinality(below)
  <2>1. starts = below \union {start} /\ start \notin below
    <3>1. \A l : l \in starts <=> l \in below \/ l = start BY <1>1
    <3>2. start \notin below BY <1>1
    <3> HIDE DEF starts, below
    <3> QED BY <3>1, <3>2
  <2>2. IsFiniteSet(below)
    <3>1. \A l \in below : l \in 0..start BY <1>1
    <3>2. below \in SUBSET (0..start) BY <3>1, Zenon
    <3>3. IsFiniteSet(0..start) BY <1>1, FS_Interval
    <3> QED BY <3>2, <3>3, FS_Subset
  <2> HIDE DEF starts, below
  <2>3. Cardinality(starts) = Cardinality(below) + 1 BY <2>1, <2>2, FS_AddElement
  <2>4. Cardinality(below) \in Nat BY <2>2, FS_CardinalityType
  <2> QED BY <2>3, <2>4
<1>4. Utf16Len(text, start, k) = UnitsIn(text, start, k) BY <1>1, WholeSlice
<1>5. Position(text, k) = Place(Cardinality(starts) - 1, Utf16Len(text, Max(starts), k))
  BY DEF Position
<1> QED BY <1>2, <1>3, <1>4, <1>5, Zenon DEF Line

LEMMA PositionInLine ==
  ASSUME NEW text \in Seq(Byte), Utf8(text), NEW start \in LineStarts(text),
         NEW k \in start..LineEnd(text, start), Whole(text, k)
  PROVE  Position(text, k) = Place(Line(text, start), UnitsIn(text, start, k))
<1>1. start \in 0..Len(text) /\ LineEnd(text, start) \in start..Len(text) BY EndOfLine DEF LineStarts
<1>2. ASSUME NEW l \in LineStarts(text), l <= k, start < l PROVE FALSE
  <2>1. l \in 1..Len(text) /\ text[l] = LF BY <1>1, <1>2 DEF LineStarts
  <2>2. l \in (start + 1)..LineEnd(text, start) BY <1>1, <1>2, <2>1
  <2> QED BY <2>1, <2>2, EndOfLine
<1>3. start <= k BY <1>1
<1>4. \A l \in LineStarts(text) : l <= k => l <= start BY <1>1, <1>2, StartsOfLines
<1> QED BY <1>3, <1>4, PositionOf

LEMMA OffsetInLine ==
  ASSUME NEW text \in Seq(Byte), NEW start \in LineStarts(text), NEW c
  PROVE  Offset(text, Place(Line(text, start), c)) = Utf16ToByte(text, start, LineEnd(text, start), c)
<1> DEFINE line == Line(text, start)
           starts == {k \in LineStarts(text) : Line(text, k) = line}
<1>1. LineStarts(text) \in SUBSET Nat BY StartsOfLines
<1>2. start \in starts OBVIOUS
<1>3. ASSUME NEW k \in starts PROVE k = start BY <1>1, <1>3, CountBelow DEF Line
<1>4. starts = {start} BY <1>2, <1>3
<1>5. Max({start}) = start BY DEF Max
<1>6. starts = {k \in LineStarts(text) : Cardinality({l \in LineStarts(text) : l < k}) = line} BY Zenon DEF Line
<1> HIDE DEF line, starts
<1>7. starts # {} /\ Max(starts) = start BY <1>4, <1>5
<1>8. Place(line, c).line = line /\ Place(line, c).character = c BY DEF Place
<1>9. Offset(text, Place(line, c)) =
        IF starts = {} THEN Len(text)
        ELSE Utf16ToByte(text, Max(starts), LineEnd(text, Max(starts)), c)
  BY <1>6, <1>8, Zenon DEF Offset
<1> QED BY <1>7, <1>9 DEF line

LEMMA OffsetOfPlace ==
  ASSUME NEW text \in Seq(Byte), NEW line, NEW c, Offset(text, Place(line, c)) # Len(text)
  PROVE  \E start \in LineStarts(text) :
           Offset(text, Place(line, c)) = Utf16ToByte(text, start, LineEnd(text, start), c)
<1> DEFINE starts == {k \in LineStarts(text) : Cardinality({l \in LineStarts(text) : l < k}) = line}
<1>1. Place(line, c).line = line BY DEF Place
<1>2. starts # {} BY <1>1, Zenon DEF Offset
<1>3. PICK start \in starts : TRUE BY <1>2
<1>4. start \in LineStarts(text) /\ line = Line(text, start) BY <1>3 DEF Line
<1> QED BY <1>4, OffsetInLine

-------------------------------------------------------------------------------
(* Places in a line, between characters. *)
Places(text, start) == Runes(text, start, LineEnd(text, start)) \union {LineEnd(text, start)}

LEMMA PlacesAreWhole ==
  ASSUME NEW text \in Seq(Byte), Utf8(text), NEW start \in LineStarts(text), NEW k \in Places(text, start)
  PROVE  k \in start..LineEnd(text, start) /\ Whole(text, k)
<1> DEFINE end == LineEnd(text, start)
<1>1. start \in 0..Len(text) /\ end \in start..Len(text) BY EndOfLine DEF LineStarts
<1>2. Whole(text, end) BY LinesAreWhole
<1>3. k \in Runes(text, start, end) \/ k = end BY DEF Places
<1> HIDE DEF end
<1>4. CASE k \in Runes(text, start, end)
  <2>1. k \in start..(end - 1) /\ RuneStart(text[k + 1]) BY <1>1, <1>4 DEF Runes
  <2> QED BY <1>1, <2>1 DEF Whole, Between, end
<1>5. CASE k = end BY <1>1, <1>2, <1>5 DEF end
<1> QED BY <1>3, <1>4, <1>5

(* utf16ToByte finds the first place with at least so many units before it.*)
LEMMA Utf16ToByteFinds ==
  ASSUME NEW text \in Seq(Byte), Utf8(text), NEW start \in LineStarts(text), NEW units
  PROVE  LET end == LineEnd(text, start)
             found == Utf16ToByte(text, start, end, units)
         IN /\ found \in Places(text, start)
            /\ found # end => UnitsIn(text, start, found) >= units
            /\ \A k \in Runes(text, start, end) : UnitsIn(text, start, k) >= units => found <= k
            /\ found <= end
<1> DEFINE end == LineEnd(text, start)
           enough == {k \in Runes(text, start, end) : Utf16Len(text, start, k) >= units} \union {end}
           found == Min(enough)
<1>1. start \in Nat /\ end \in Nat BY EndOfLine DEF LineStarts
<1>2. \A k \in Places(text, start) : k \in Nat /\ Utf16Len(text, start, k) = UnitsIn(text, start, k)
  <2>1. ASSUME NEW k \in Places(text, start) PROVE k \in Nat /\ Utf16Len(text, start, k) = UnitsIn(text, start, k)
    <3>1. k \in start..end /\ Whole(text, k) BY PlacesAreWhole
    <3> QED BY <1>1, <3>1, WholeSlice
  <2> QED BY <2>1
<1>3. enough \subseteq Places(text, start) /\ end \in enough BY DEF Places
<1>4. enough \in SUBSET Nat /\ enough # {} BY <1>2, <1>3
<1>5. found = Utf16ToByte(text, start, end, units) BY Zenon DEF Utf16ToByte
<1>6. found \in enough /\ \A k \in enough : found <= k
  <2> HIDE DEF enough
  <2> QED BY <1>4, MinIsLeast
<1>7. Runes(text, start, end) \subseteq Places(text, start) BY DEF Places
<1> HIDE DEF found
<1>8. found \in Places(text, start) /\ found <= end BY <1>3, <1>6, Zenon
<1>9. found # end => UnitsIn(text, start, found) >= units BY <1>2, <1>6, <1>8
<1>10. \A k \in Runes(text, start, end) : UnitsIn(text, start, k) >= units => found <= k
  BY <1>2, <1>6, <1>7
<1> QED BY <1>5, <1>8, <1>9, <1>10, Zenon

(* position and offset are inverse to each other. *)
LEMMA ThereAndBack ==
  ASSUME NEW text \in Seq(Byte), Utf8(text), NEW start \in LineStarts(text), NEW k \in Places(text, start)
  PROVE  Offset(text, Position(text, k)) = k
<1> DEFINE end == LineEnd(text, start)
           units == UnitsIn(text, start, k)
           found == Utf16ToByte(text, start, end, units)
<1>1. start \in Nat /\ end \in Nat /\ k \in start..end /\ Whole(text, k) BY EndOfLine, PlacesAreWhole DEF LineStarts
<1>2. Position(text, k) = Place(Line(text, start), units) BY <1>1, PositionInLine
<1>3. Offset(text, Position(text, k)) = found BY <1>2, OffsetInLine
<1>4. /\ found \in Places(text, start) /\ found <= end
      /\ found # end => UnitsIn(text, start, found) >= units
      /\ \A l \in Runes(text, start, end) : UnitsIn(text, start, l) >= units => found <= l
  BY Utf16ToByteFinds
<1>5. found \in start..end /\ (found # end => found \in Runes(text, start, end))
  BY <1>4, PlacesAreWhole DEF Places
<1>6. UnitsIn(text, start, k) \in Nat /\ UnitsIn(text, start, found) \in Nat BY <1>1, <1>5, UnitsAreNat
<1> HIDE DEF found, end
<1>7. found <= k
  <2>1. CASE k = end BY <1>4, <2>1
  <2>2. CASE k # end BY <1>4, <1>6, <2>2 DEF Places, end, units
  <2> QED BY <2>1, <2>2
<1>8. ~(found < k)
  <2> SUFFICES ASSUME found < k PROVE FALSE OBVIOUS
  <2>1. found # end BY <1>1, <1>5
  <2>2. RuneStart(text[found + 1]) BY <1>5, <2>1 DEF Runes
  <2>3. UnitsIn(text, start, found) < UnitsIn(text, start, k) BY <1>1, <1>5, <2>2, UnitsGrow
  <2> QED BY <1>4, <1>6, <2>1, <2>3 DEF units
<1> QED BY <1>1, <1>3, <1>5, <1>7, <1>8

(* runesToUTF16 and utf16Len agree. *)
LEMMA RunesAndUnits ==
  ASSUME NEW text \in Seq(Byte), Utf8(text), NEW start \in LineStarts(text), NEW k \in Places(text, start)
  PROVE  RunesToUtf16(text, start, LineEnd(text, start), Cardinality(Runes(text, start, k))) = UnitsIn(text, start, k)
<1> DEFINE end == LineEnd(text, start)
           taken == {l \in Runes(text, start, end) : Cardinality(Runes(text, start, l)) < Cardinality(Runes(text, start, k))}
           bytes == {l + 1 : l \in taken}
<1>1. /\ start \in Nat /\ end \in Nat /\ k \in start..end /\ Whole(text, end)
  BY EndOfLine, PlacesAreWhole, LinesAreWhole DEF LineStarts
<1>2. ASSUME NEW l \in Nat PROVE IsFiniteSet(Runes(text, start, l)) /\ Cardinality(Runes(text, start, l)) \in Nat
  <2>1. IsFiniteSet(start..(l - 1)) BY <1>1, FS_Interval
  <2>2. Runes(text, start, l) \in SUBSET (start..(l - 1)) BY DEF Runes
  <2> QED BY <2>1, <2>2, FS_Subset, FS_CardinalityType
<1>3. ASSUME NEW l \in Nat, NEW m \in Nat, l <= m
      PROVE  /\ Cardinality(Runes(text, start, l)) <= Cardinality(Runes(text, start, m))
             /\ l \in Runes(text, start, m) =>
                  Cardinality(Runes(text, start, l)) < Cardinality(Runes(text, start, m))
  <2>1. Runes(text, start, l) \in SUBSET Runes(text, start, m) BY <1>1, <1>3 DEF Runes
  <2>2. l \notin Runes(text, start, l) BY <1>1 DEF Runes
  <2>3. /\ Cardinality(Runes(text, start, l)) <= Cardinality(Runes(text, start, m))
        /\ Cardinality(Runes(text, start, m)) = Cardinality(Runes(text, start, l))
             => Runes(text, start, m) = Runes(text, start, l)
    BY <1>2, <2>1, FS_Subset
  <2> QED BY <1>2, <2>2, <2>3
<1> HIDE DEF end
<1>4. taken = Runes(text, start, k)
  <2>1. ASSUME NEW l \in taken PROVE l \in Runes(text, start, k)
    <3>1. l \in Nat /\ l \in Runes(text, start, end) BY <1>1 DEF Runes
    <3>2. l < k
      <4> SUFFICES ASSUME k <= l PROVE FALSE BY <1>1, <3>1
      <4>1. Cardinality(Runes(text, start, k)) <= Cardinality(Runes(text, start, l)) BY <1>1, <1>3, <3>1
      <4>2. Cardinality(Runes(text, start, l)) < Cardinality(Runes(text, start, k)) OBVIOUS
      <4>3. k \in Nat BY <1>1
      <4>4. Cardinality(Runes(text, start, k)) \in Nat /\ Cardinality(Runes(text, start, l)) \in Nat
        BY <1>2, <3>1, <4>3, Zenon
      <4> QED BY <4>1, <4>2, <4>4
    <3> QED BY <1>1, <3>1, <3>2 DEF Runes
  <2>2. ASSUME NEW l \in Runes(text, start, k) PROVE l \in taken
    <3>1. l \in Nat /\ l <= k /\ l \in Runes(text, start, end) BY <1>1 DEF Runes
    <3> QED BY <1>1, <1>3, <3>1
  <2> HIDE DEF taken
  <2> QED BY <2>1, <2>2
<1>5. bytes = Starts(text, start, k)
  <2>1. \A i : i \in bytes <=> \E l \in Runes(text, start, k) : i = l + 1 BY <1>4
  <2>2. ASSUME NEW i \in Starts(text, start, k) PROVE i - 1 \in Runes(text, start, k) /\ i = (i - 1) + 1
    BY <1>1 DEF Starts, Runes
  <2>3. ASSUME NEW l \in Runes(text, start, k) PROVE l + 1 \in Starts(text, start, k)
    BY <1>1 DEF Starts, Runes
  <2> HIDE DEF bytes
  <2>4. \A i : i \in bytes <=> i \in Starts(text, start, k) BY <2>1, <2>2, <2>3, Zenon
  <2> QED BY <2>4
<1>6. bytes \in SUBSET (1..end) BY <1>1, <1>5 DEF Starts
<1>7. RunesToUtf16(text, start, end, Cardinality(Runes(text, start, k))) = Units(text, bytes, end)
  BY Zenon DEF RunesToUtf16
<1> HIDE DEF bytes
<1>8. Units(text, bytes, end) =
        Cardinality({i \in bytes : RuneStart(text[i])})
          + Cardinality({i \in bytes : RuneStart(text[i]) /\ Width(text[i]) = 4})
  BY <1>1, <1>6, UnitsOfStarts
<1>9. /\ {i \in bytes : RuneStart(text[i])} = Starts(text, start, k)
      /\ {i \in bytes : RuneStart(text[i]) /\ Width(text[i]) = 4} = Wide(text, start, k)
  BY <1>5 DEF Starts, Wide
<1> QED BY <1>7, <1>8, <1>9, Zenon DEF UnitsIn, end

(* Where a position of the client leads. *)
LEMMA WhereItLeads ==
  ASSUME NEW text \in Seq(Byte), Utf8(text), NEW line, NEW c \in Nat
  PROVE  LET k == Offset(text, Place(line, c)) IN
         /\ k <= Len(text) /\ Between(text, k)
         /\ \/ Position(text, k).character \in {c, c + 1}
            \/ k \in {LineEnd(text, start) : start \in LineStarts(text)} \union {Len(text)}
<1> DEFINE k == Offset(text, Place(line, c))
<1>1. CASE k = Len(text) BY <1>1 DEF Between
<1>2. CASE k # Len(text)
  <2>1. PICK start \in LineStarts(text) : k = Utf16ToByte(text, start, LineEnd(text, start), c)
    BY <1>2, OffsetOfPlace
  <2> HIDE DEF k
  <2> DEFINE end == LineEnd(text, start)
  <2>2. /\ k \in Places(text, start) /\ k <= end
        /\ k # end => UnitsIn(text, start, k) >= c
        /\ \A l \in Runes(text, start, end) : UnitsIn(text, start, l) >= c => k <= l
    BY <2>1, Utf16ToByteFinds
  <2>3. start \in 0..Len(text) /\ Whole(text, start) /\ end \in start..Len(text) /\ k \in start..end /\ Whole(text, k)
    BY <2>2, EndOfLine, PlacesAreWhole, LinesAreWhole DEF LineStarts
  <2>4. k \in 0..Len(text) /\ Between(text, k) BY <2>3 DEF Whole
  <2>5. ASSUME k # end PROVE Position(text, k).character \in {c, c + 1}
    <3>1. Position(text, k).character = UnitsIn(text, start, k) BY <2>3, PositionInLine DEF Place
    <3>2. UnitsIn(text, start, k) \in Nat BY <2>3, UnitsAreNat
    <3>3. UnitsIn(text, start, k) <= c + 1
      <4>1. CASE k = start
        <5>1. UnitsIn(text, start, start) = 0 BY <2>3, NoUnits
        <5> QED BY <4>1, <5>1
      <4>2. CASE k # start
        <5>1. k > 0 /\ k > start BY <2>3, <4>2
        <5>2. PICK i \in 1..k :
                RuneStart(text[i]) /\ i + Width(text[i]) - 1 = k /\ \A j \in (i + 1)..k : ~RuneStart(text[j])
          BY <2>3, <5>1, CharacterBefore
        <5>3. i > start
          <6>1. RuneStart(text[start + 1])
            <7>1. CASE start = 0 BY <2>3, <5>1, <7>1, FirstByte
            <7>2. CASE start # 0 BY <2>3, <5>1, <7>2 DEF Whole, Between
            <7> QED BY <7>1, <7>2
          <6> QED BY <2>3, <5>1, <5>2, <6>1
        <5>4. UnitsIn(text, i - 1, k) \in {1, 2} BY <2>3, <5>2, UnitsOfLast
        <5>5. UnitsIn(text, start, k) = UnitsIn(text, start, i - 1) + UnitsIn(text, i - 1, k)
          BY <2>3, <5>3, UnitsAdd
        <5>6. i - 1 \in Runes(text, start, end) BY <2>3, <5>2, <5>3 DEF Runes
        <5>7. ~(UnitsIn(text, start, i - 1) >= c) BY <2>2, <2>3, <5>6
        <5>8. UnitsIn(text, start, i - 1) \in Nat BY <2>3, <5>3, UnitsAreNat
        <5> QED BY <5>4, <5>5, <5>7, <5>8
      <4> QED BY <4>1, <4>2
    <3> QED BY <2>2, <2>5, <3>1, <3>2, <3>3
  <2> QED BY <2>4, <2>5 DEF k
<1> QED BY <1>1, <1>2

(* Offsets, lines, runes and UTF-16 units are converted into each other as *)
(* one expects (document.go).                                              *)
THEOREM OffsetsAndPositionsAgree == Spec => []ConversionsAgree
<1>1. ASSUME IInv PROVE ConversionsAgree
  <2>1. old \in Seq(Byte) /\ Utf8(old) BY <1>1, Zenon DEF IInv, Stays
  <2>2. ASSUME NEW start \in LineStarts(old),
               NEW k \in Runes(old, start, LineEnd(old, start)) \union {LineEnd(old, start)}
        PROVE  /\ Offset(old, Position(old, k)) = k
               /\ RunesToUtf16(old, start, LineEnd(old, start), Cardinality(Runes(old, start, k)))
                    = Position(old, k).character
    <3>1. k \in Places(old, start) BY <2>2, Zenon DEF Places
    <3>2. k \in start..LineEnd(old, start) /\ Whole(old, k) BY <2>1, <3>1, PlacesAreWhole
    <3>3. Position(old, k).character = UnitsIn(old, start, k) BY <2>1, <3>2, PositionInLine DEF Place
    <3> QED BY <2>1, <3>1, <3>3, ThereAndBack, RunesAndUnits, Zenon
  <2>3. ASSUME NEW line \in 0..(Len(old) + 1), NEW character \in 0..(Len(old) + 1)
        PROVE  LET k == Offset(old, Place(line, character)) IN
               /\ k <= Len(old) /\ Between(old, k)
               /\ \/ Position(old, k).character \in {character, character + 1}
                  \/ k \in {LineEnd(old, start) : start \in LineStarts(old)} \union {Len(old)}
    <3>1. character \in Nat BY <2>1
    <3> QED BY <2>1, <3>1, WhereItLeads, Zenon
  <2> QED BY <2>2, <2>3, Zenon DEF ConversionsAgree
<1> QED BY SpecIInv, <1>1, PTL

-------------------------------------------------------------------------------
(* What FlattenSeq computes: one sequence after the other. *)
Joins(X, s, n) ==
  {P \in [0..n -> Seq(X)] : P[0] = <<>> /\ \A i \in 1..n : P[i] = P[i - 1] \o s[i]}

LEMMA JoinsExist ==
  ASSUME NEW X, NEW s \in Seq(Seq(X)) PROVE Joins(X, s, Len(s)) # {}
<1> DEFINE Bad == {n \in 0..Len(s) : Joins(X, s, n) = {}}
<1> SUFFICES ASSUME Bad # {} PROVE FALSE BY LenProperties
<1>1. Bad \in SUBSET Nat OBVIOUS
<1>2. PICK n \in Bad : \A k \in Bad : n <= k BY <1>1, Least
<1>3. CASE n = 0
  <2> DEFINE P == [i \in 0..0 |-> <<>>]
  <2>1. P \in [0..0 -> Seq(X)] /\ P[0] = <<>> BY EmptySeq
  <2>2. P \in Joins(X, s, 0) BY <2>1 DEF Joins
  <2> QED BY <1>2, <1>3, <2>2
<1>4. CASE n # 0
  <2>1. n \in Nat /\ n \in 1..Len(s) /\ n - 1 \in 0..Len(s) /\ n - 1 \notin Bad
    <3>1. n \in 0..Len(s) /\ Len(s) \in Nat BY LenProperties
    <3> HIDE DEF Bad
    <3> QED BY <1>2, <1>4, <3>1
  <2>2. PICK P : P \in Joins(X, s, n - 1) BY <2>1
  <2>3. /\ P \in [0..(n - 1) -> Seq(X)] /\ P[0] = <<>>
        /\ \A i \in 1..(n - 1) : P[i] = P[i - 1] \o s[i]
    BY <2>2 DEF Joins
  <2> DEFINE Q == [i \in 0..n |-> IF i = n THEN P[n - 1] \o s[n] ELSE P[i]]
  <2>4. s[n] \in Seq(X) BY <2>1, ElementOfSeq
  <2>5. P[n - 1] \o s[n] \in Seq(X)
    <3>1. P[n - 1] \in Seq(X) BY <2>1, <2>3
    <3> QED BY <2>4, <3>1, ConcatProperties
  <2>6. \A i \in 0..n : Q[i] = IF i = n THEN P[n - 1] \o s[n] ELSE P[i] OBVIOUS
  <2>7. Q \in [0..n -> Seq(X)]
    <3>1. \A i \in 0..n : (IF i = n THEN P[n - 1] \o s[n] ELSE P[i]) \in Seq(X)
      <4>1. ASSUME NEW i \in 0..n, i # n PROVE P[i] \in Seq(X)
        <5>1. i \in 0..(n - 1) BY <2>1, <4>1
        <5> QED BY <2>3, <5>1
      <4> QED BY <2>5, <4>1
    <3> QED BY <3>1
  <2> HIDE DEF Q
  <2>8. Q[0] = <<>> BY <2>1, <2>3, <2>6
  <2>9. ASSUME NEW i \in 1..n PROVE Q[i] = Q[i - 1] \o s[i]
    <3>1. i - 1 \in 0..n /\ i - 1 # n /\ Q[i - 1] = P[i - 1] BY <2>1, <2>6
    <3>2. CASE i = n
      <4>1. n \in 0..n BY <2>1
      <4>2. Q[n] = P[n - 1] \o s[n] BY <2>6, <4>1, Zenon
      <4> QED BY <3>1, <3>2, <4>2, Zenon
    <3>3. CASE i # n
      <4>1. i \in 1..(n - 1) /\ Q[i] = P[i] BY <2>1, <2>6, <3>3
      <4> QED BY <2>3, <3>1, <4>1
    <3> QED BY <3>2, <3>3
  <2>10. Q \in Joins(X, s, n) BY <2>7, <2>8, <2>9 DEF Joins
  <2> QED BY <1>2, <2>10
<1> QED BY <1>3, <1>4

LEMMA FlattenJoins ==
  ASSUME NEW X, NEW s \in Seq(Seq(X)), NEW P \in Joins(X, s, Len(s))
  PROVE  FlattenSeq(s) = P[Len(s)]
<1>1. /\ P \in [0..Len(s) -> Seq(X)] /\ P[0] = <<>> /\ \A i \in 1..Len(s) : P[i] = P[i - 1] \o s[i]
      /\ Len(s) \in Nat
  BY LenProperties DEF Joins
<1>2. CASE Len(s) = 0
  <2>1. s = <<>> BY <1>2, EmptySeq
  <2> QED BY <1>1, <1>2, <2>1 DEF FlattenSeq
<1>3. CASE Len(s) # 0
  <2> DEFINE Is(g) == g = [i \in 1..Len(s) |-> IF i = 1 THEN s[i] ELSE g[i - 1] \o s[i]]
             f == [i \in 1..Len(s) |-> P[i]]
             g == CHOOSE h : Is(h)
  <2>1. FlattenSeq(s) = g[Len(s)] BY <1>3 DEF FlattenSeq
  <2>2. Is(f)
    <3>1. ASSUME NEW i \in 1..Len(s) PROVE P[i] = IF i = 1 THEN s[i] ELSE f[i - 1] \o s[i]
      <4>1. CASE i = 1
        <5>1. s[1] \in Seq(X) BY <4>1, ElementOfSeq
        <5>2. <<>> \o s[1] = s[1] BY <5>1, ConcatEmptySeq
        <5>3. i - 1 = 0 BY <4>1
        <5>4. P[i] = P[i - 1] \o s[i] BY <1>1, Zenon
        <5> QED BY <1>1, <4>1, <5>2, <5>3, <5>4, Zenon
      <4>2. CASE i # 1
        <5>1. i - 1 \in 1..Len(s) BY <4>2
        <5>2. f[i - 1] = P[i - 1] BY <5>1
        <5> QED BY <1>1, <4>2, <5>2
      <4> QED BY <4>1, <4>2
    <3> QED BY <3>1
  <2>3. Is(g) BY <2>2, Zenon
  <2>4. \A i \in 1..Len(s) : g[i] = IF i = 1 THEN s[i] ELSE g[i - 1] \o s[i]
    <3> HIDE DEF g
    <3> QED BY <2>3
  <2>5. \A i \in 1..Len(s) : P[i] = IF i = 1 THEN s[i] ELSE P[i - 1] \o s[i]
    <3>1. ASSUME NEW i \in 1..Len(s), i # 1 PROVE f[i - 1] = P[i - 1] BY <3>1
    <3>2. ASSUME NEW i \in 1..Len(s) PROVE f[i] = P[i] OBVIOUS
    <3>3. ASSUME NEW i \in 1..Len(s) PROVE f[i] = IF i = 1 THEN s[i] ELSE f[i - 1] \o s[i]
      <4> HIDE DEF f
      <4> QED BY <2>2
    <3> HIDE DEF f
    <3> QED BY <3>1, <3>2, <3>3
  <2> HIDE DEF g, f, Is
  <2> DEFINE Bad == {i \in 1..Len(s) : g[i] # P[i]}
  <2>6. Bad = {}
    <3> SUFFICES ASSUME Bad # {} PROVE FALSE OBVIOUS
    <3>1. Bad \in SUBSET Nat OBVIOUS
    <3>2. PICK i \in Bad : \A k \in Bad : i <= k BY <3>1, Least
    <3>3. i \in 1..Len(s) /\ g[i] # P[i] BY <3>2
    <3>4. i # 1 BY <2>4, <2>5, <3>3
    <3>5. i - 1 \in 1..Len(s) /\ i - 1 \notin Bad
      <4> HIDE DEF Bad
      <4> QED BY <1>1, <3>2, <3>3, <3>4
    <3>6. g[i - 1] = P[i - 1] BY <3>5
    <3> QED BY <2>4, <2>5, <3>3, <3>4, <3>6
  <2> QED BY <1>1, <1>3, <2>1, <2>6
<1> QED BY <1>2, <1>3

-------------------------------------------------------------------------------
(* The text of the client, one character of the server's after the other.  *)
Unit == Seq(Byte) \X {"whole", "high", "low"}
Pieces(text) == [i \in 1..Len(text) |-> CodeUnits(text, i)]
Reads(text) == Joins(Unit, Pieces(text), Len(text))

LEMMA CharacterAt ==
  ASSUME NEW text \in Seq(Byte), NEW i \in 1..Len(text)
  PROVE  LET char == SubSeq(text, i, Min({i + Width(text[i]) - 1, Len(text)})) IN
         /\ char \in Seq(Byte) /\ Len(char) > 0 /\ char[1] = text[i]
         /\ Width(text[i]) = 1 => char = <<text[i]>>
<1> DEFINE end == Min({i + Width(text[i]) - 1, Len(text)})
           char == SubSeq(text, i, end)
<1>1. end \in i..Len(text) /\ (Width(text[i]) = 1 => end = i)
  <2>1. Width(text[i]) \in 1..4 BY Widths
  <2>2. i + Width(text[i]) - 1 \in Nat /\ Len(text) \in Nat BY <2>1
  <2>3. end = IF i + Width(text[i]) - 1 <= Len(text) THEN i + Width(text[i]) - 1 ELSE Len(text)
    BY <2>2, LesserOfTwo
  <2> HIDE DEF end
  <2> QED BY <2>1, <2>3
<1> HIDE DEF end
<1>2. char \in Seq(Byte) /\ Len(char) = end - i + 1 /\ \A j \in 1..(end - i + 1) : char[j] = text[i + j - 1]
  <2>1. i \in 1..(Len(text) + 1) /\ end \in (i - 1)..Len(text) BY <1>1
  <2> QED BY <1>1, <2>1, SubSeqProperties
<1> HIDE DEF char
<1>3. Len(char) > 0 /\ char[1] = text[i] BY <1>1, <1>2
<1>4. ASSUME Width(text[i]) = 1 PROVE char = <<text[i]>>
  <2>1. Len(char) = 1 BY <1>1, <1>2, <1>4
  <2>2. <<text[i]>> \in Seq(Byte) /\ Len(<<text[i]>>) = 1 /\ <<text[i]>>[1] = text[i] BY ElementOfSeq
  <2>3. \A j \in 1..Len(char) : char[j] = <<text[i]>>[j] BY <1>3, <2>1, <2>2
  <2> QED BY <1>2, <2>1, <2>2, <2>3, SeqEqual
<1> QED BY <1>2, <1>3, <1>4 DEF char, end

LEMMA CodeUnitsAre ==
  ASSUME NEW text \in Seq(Byte), NEW i \in 1..Len(text)
  PROVE  /\ CodeUnits(text, i) \in Seq(Unit)
         /\ Len(CodeUnits(text, i)) = UnitsIn(text, i - 1, i)
         /\ \A c \in {CR, LF}, d \in 1..Len(CodeUnits(text, i)) :
              CodeUnits(text, i)[d] = <<<<c>>, "whole">> <=> text[i] = c
<1> DEFINE char == SubSeq(text, i, Min({i + Width(text[i]) - 1, Len(text)}))
<1>1. char \in Seq(Byte) /\ Len(char) > 0 /\ char[1] = text[i] /\ (Width(text[i]) = 1 => char = <<text[i]>>)
  BY CharacterAt
<1>2. CodeUnits(text, i) =
        IF ~RuneStart(text[i]) THEN <<>>
        ELSE IF Width(text[i]) = 4 THEN <<<<char, "high">>, <<char, "low">>>>
        ELSE <<<<char, "whole">>>>
  BY DEF CodeUnits
<1> HIDE DEF char
<1>3. UnitsIn(text, i - 1, (i - 1) + 1) =
        IF ~RuneStart(text[i]) THEN 0 ELSE IF Width(text[i]) = 4 THEN 2 ELSE 1
  BY UnitsOfOne
<1>4. UnitsIn(text, i - 1, i) = IF ~RuneStart(text[i]) THEN 0 ELSE IF Width(text[i]) = 4 THEN 2 ELSE 1
  BY <1>3
<1>5. ASSUME NEW c \in {CR, LF}, text[i] = c PROVE RuneStart(text[i]) /\ Width(text[i]) = 1
  BY <1>5 DEF CR, LF, RuneStart, Width
<1>6. CASE ~RuneStart(text[i])
  <2>1. CodeUnits(text, i) = <<>> BY <1>2, <1>6
  <2> QED BY <1>4, <1>6, <2>1
<1>7. CASE RuneStart(text[i]) /\ Width(text[i]) = 4
  <2>1. CodeUnits(text, i) = <<<<char, "high">>, <<char, "low">>>> BY <1>2, <1>7
  <2>2. <<char, "high">> \in Unit /\ <<char, "low">> \in Unit BY <1>1 DEF Unit
  <2>3. /\ CodeUnits(text, i) \in Seq(Unit) /\ Len(CodeUnits(text, i)) = 2
        /\ CodeUnits(text, i)[1] = <<char, "high">> /\ CodeUnits(text, i)[2] = <<char, "low">>
    BY <2>1, <2>2
  <2>4. \A c \in {CR, LF} : text[i] # c BY <1>5, <1>7
  <2>5. \A c : <<char, "high">> # <<<<c>>, "whole">> /\ <<char, "low">> # <<<<c>>, "whole">> OBVIOUS
  <2>6. \A d \in 1..Len(CodeUnits(text, i)) : d = 1 \/ d = 2 BY <2>3
  <2>7. \A c \in {CR, LF}, d \in 1..Len(CodeUnits(text, i)) : CodeUnits(text, i)[d] # <<<<c>>, "whole">>
    BY <2>3, <2>5, <2>6, Zenon
  <2> QED BY <1>4, <1>7, <2>3, <2>4, <2>7
<1>8. CASE RuneStart(text[i]) /\ Width(text[i]) # 4
  <2>1. CodeUnits(text, i) = <<<<char, "whole">>>> BY <1>2, <1>8
  <2>2. <<char, "whole">> \in Unit BY <1>1 DEF Unit
  <2>3. /\ CodeUnits(text, i) \in Seq(Unit) /\ Len(CodeUnits(text, i)) = 1
        /\ CodeUnits(text, i)[1] = <<char, "whole">>
    BY <2>1, <2>2
  <2>4. ASSUME NEW c \in {CR, LF} PROVE <<char, "whole">> = <<<<c>>, "whole">> <=> text[i] = c
    <3>1. <<char, "whole">> = <<<<c>>, "whole">> <=> char = <<c>> OBVIOUS
    <3>2. ASSUME char = <<c>> PROVE text[i] = c BY <1>1, <3>2
    <3>3. ASSUME text[i] = c PROVE char = <<c>> BY <1>1, <1>5, <3>3
    <3> QED BY <3>1, <3>2, <3>3
  <2>5. \A d \in 1..Len(CodeUnits(text, i)) : d = 1 BY <2>3
  <2> QED BY <1>4, <1>8, <2>3, <2>4, <2>5
<1> QED BY <1>6, <1>7, <1>8

LEMMA PiecesAre == ASSUME NEW text \in Seq(Byte) PROVE Pieces(text) \in Seq(Seq(Unit)) /\ Len(Pieces(text)) = Len(text)
<1>1. \A i \in 1..Len(text) : CodeUnits(text, i) \in Seq(Unit) BY CodeUnitsAre
<1>2. Len(text) \in Nat OBVIOUS
<1> QED BY <1>1, <1>2 DEF Pieces

LEMMA Utf16Reads ==
  ASSUME NEW text \in Seq(Byte)
  PROVE  \E P \in Reads(text) : Utf16(text) = P[Len(text)]
<1>1. Pieces(text) \in Seq(Seq(Unit)) /\ Len(Pieces(text)) = Len(text) BY PiecesAre
<1>2. PICK P : P \in Reads(text) BY <1>1, JoinsExist DEF Reads
<1>3. FlattenSeq(Pieces(text)) = P[Len(text)]
  <2>1. P \in Joins(Unit, Pieces(text), Len(Pieces(text))) BY <1>1, <1>2, Zenon DEF Reads
  <2>2. FlattenSeq(Pieces(text)) = P[Len(Pieces(text))] BY <1>1, <2>1, FlattenJoins, Zenon
  <2> QED BY <1>1, <2>2, Zenon
<1>4. Utf16(text) = FlattenSeq(Pieces(text)) BY Zenon DEF Utf16, Pieces
<1> QED BY <1>2, <1>3, <1>4

LEMMA ReadsStep ==
  ASSUME NEW text \in Seq(Byte), NEW P \in Reads(text)
  PROVE  /\ \A i \in 0..Len(text) : P[i] \in Seq(Unit)
         /\ P[0] = <<>>
         /\ \A i \in 1..Len(text) : P[i] = P[i - 1] \o CodeUnits(text, i)
<1>1. /\ P \in [0..Len(text) -> Seq(Unit)] /\ P[0] = <<>>
      /\ \A i \in 1..Len(text) : P[i] = P[i - 1] \o Pieces(text)[i]
  BY DEF Reads, Joins
<1>2. \A i \in 1..Len(text) : Pieces(text)[i] = CodeUnits(text, i) BY DEF Pieces
<1>3. \A i \in 0..Len(text) : P[i] \in Seq(Unit) BY <1>1
<1> QED BY <1>1, <1>2, <1>3, Zenon

LEMMA LenOfReads ==
  ASSUME NEW text \in Seq(Byte), NEW P \in Reads(text), NEW k \in 0..Len(text)
  PROVE  Len(P[k]) = UnitsIn(text, 0, k)
<1> DEFINE Bad == {n \in 0..Len(text) : Len(P[n]) # UnitsIn(text, 0, n)}
<1> SUFFICES ASSUME Bad # {} PROVE FALSE OBVIOUS
<1>1. Bad \in SUBSET Nat OBVIOUS
<1>2. PICK n \in Bad : \A m \in Bad : n <= m BY <1>1, Least
<1>3. n \in 0..Len(text) /\ Len(P[n]) # UnitsIn(text, 0, n) BY <1>2
<1>4. n # 0
  <2>1. P[0] = <<>> BY ReadsStep
  <2>2. Len(P[0]) = 0 BY <2>1, EmptySeq
  <2>3. UnitsIn(text, 0, 0) = 0 BY NoUnits
  <2> QED BY <1>3, <2>2, <2>3
<1>5. n \in 1..Len(text) /\ n - 1 \in 0..Len(text) /\ n - 1 \notin Bad
  <2> HIDE DEF Bad
  <2> QED BY <1>2, <1>3, <1>4
<1>6. Len(P[n - 1]) = UnitsIn(text, 0, n - 1) BY <1>5
<1>7. P[n] = P[n - 1] \o CodeUnits(text, n) BY <1>5, ReadsStep
<1>8. P[n - 1] \in Seq(Unit) /\ CodeUnits(text, n) \in Seq(Unit)
  BY <1>5, ReadsStep, CodeUnitsAre
<1>9. Len(P[n]) = Len(P[n - 1]) + Len(CodeUnits(text, n)) BY <1>7, <1>8, ConcatProperties
<1>10. Len(CodeUnits(text, n)) = UnitsIn(text, n - 1, n) BY <1>5, CodeUnitsAre
<1>11. UnitsIn(text, 0, n) = UnitsIn(text, 0, n - 1) + UnitsIn(text, n - 1, n) BY <1>5, UnitsAdd
<1> QED BY <1>3, <1>6, <1>9, <1>10, <1>11

(* Each unit is from a character. *)
LEMMA UnitAt ==
  ASSUME NEW text \in Seq(Byte), NEW P \in Reads(text), NEW k \in 0..Len(text), NEW j \in 1..Len(P[k])
  PROVE  \E i \in 1..k :
           /\ UnitsIn(text, 0, i - 1) < j /\ j <= UnitsIn(text, 0, i)
           /\ j - UnitsIn(text, 0, i - 1) \in 1..Len(CodeUnits(text, i))
           /\ P[k][j] = CodeUnits(text, i)[j - UnitsIn(text, 0, i - 1)]
<1> DEFINE From(n, i) ==
             /\ UnitsIn(text, 0, i - 1) < j /\ j <= UnitsIn(text, 0, i)
             /\ j - UnitsIn(text, 0, i - 1) \in 1..Len(CodeUnits(text, i))
             /\ P[n][j] = CodeUnits(text, i)[j - UnitsIn(text, 0, i - 1)]
           Bad == {n \in 0..Len(text) : j \in 1..Len(P[n]) /\ ~\E i \in 1..n : From(n, i)}
<1> SUFFICES ASSUME Bad # {} PROVE FALSE BY Zenon
<1>1. Bad \in SUBSET Nat OBVIOUS
<1>2. PICK n \in Bad : \A m \in Bad : n <= m BY <1>1, Least
<1>3. n \in 0..Len(text) /\ j \in 1..Len(P[n]) /\ ~\E i \in 1..n : From(n, i) BY <1>2, Zenon
<1>4. n # 0
  <2>1. P[0] = <<>> BY ReadsStep
  <2>2. Len(P[0]) = 0 BY <2>1, EmptySeq
  <2> QED BY <1>3, <2>2
<1>5. n \in 1..Len(text) /\ n - 1 \in 0..Len(text) /\ n - 1 \notin Bad
  <2> HIDE DEF Bad
  <2> QED BY <1>2, <1>3, <1>4
<1>6. P[n] = P[n - 1] \o CodeUnits(text, n) BY <1>5, ReadsStep
<1>7. P[n - 1] \in Seq(Unit) /\ CodeUnits(text, n) \in Seq(Unit)
  BY <1>5, ReadsStep, CodeUnitsAre
<1>8. /\ Len(P[n]) = Len(P[n - 1]) + Len(CodeUnits(text, n))
      /\ \A l \in 1..Len(P[n - 1]) + Len(CodeUnits(text, n)) :
           P[n][l] = IF l <= Len(P[n - 1]) THEN P[n - 1][l] ELSE CodeUnits(text, n)[l - Len(P[n - 1])]
  BY <1>6, <1>7, ConcatProperties
<1>9. /\ Len(P[n - 1]) = UnitsIn(text, 0, n - 1) /\ Len(P[n]) = UnitsIn(text, 0, n)
      /\ UnitsIn(text, 0, n - 1) \in Nat /\ UnitsIn(text, 0, n) \in Nat /\ j \in Nat
      /\ Len(CodeUnits(text, n)) \in Nat
  BY <1>3, <1>5, <1>7, LenOfReads, UnitsAreNat, LenProperties
<1>10. CASE j <= Len(P[n - 1])
  <2>1. j \in 1..Len(P[n - 1]) /\ P[n][j] = P[n - 1][j] BY <1>3, <1>8, <1>9, <1>10
  <2>2. PICK i \in 1..(n - 1) : From(n - 1, i) BY <1>5, <2>1, Zenon
  <2>3. From(n, i) BY <2>1, <2>2, Zenon
  <2>4. i \in 1..n BY <1>5
  <2> QED BY <1>3, <2>3, <2>4, Zenon
<1>11. CASE ~(j <= Len(P[n - 1]))
  <2>1. P[n][j] = CodeUnits(text, n)[j - UnitsIn(text, 0, n - 1)] BY <1>3, <1>8, <1>9, <1>11
  <2>2. j - UnitsIn(text, 0, n - 1) \in 1..Len(CodeUnits(text, n)) BY <1>3, <1>8, <1>9, <1>11
  <2>3. UnitsIn(text, 0, n - 1) < j /\ j <= UnitsIn(text, 0, n) BY <1>3, <1>9, <1>11
  <2>4. From(n, n) BY <2>1, <2>2, <2>3, Zenon
  <2>5. n \in 1..n BY <1>5
  <2> QED BY <1>3, <2>4, <2>5, Zenon
<1> QED BY <1>10, <1>11

-------------------------------------------------------------------------------
(* The units of a part of the text. *)
UpTo(text, k) == SubSeq(text, 1, k)
After(text, k) == SubSeq(text, k + 1, Len(text))

LEMMA HeadIs ==
  ASSUME NEW text \in Seq(Byte), NEW k \in 0..Len(text)
  PROVE  /\ UpTo(text, k) \in Seq(Byte) /\ Len(UpTo(text, k)) = k
         /\ \A i \in 1..k : UpTo(text, k)[i] = text[i]
BY DEF UpTo

LEMMA TailIs ==
  ASSUME NEW text \in Seq(Byte), NEW k \in 0..Len(text)
  PROVE  /\ After(text, k) \in Seq(Byte) /\ Len(After(text, k)) = Len(text) - k
         /\ \A i \in 1..(Len(text) - k) : After(text, k)[i] = text[k + i]
BY DEF After

LEMMA HeadUnits ==
  ASSUME NEW text \in Seq(Byte), Utf8(text), NEW k, Whole(text, k), NEW i \in 1..k
  PROVE  CodeUnits(UpTo(text, k), i) = CodeUnits(text, i)
<1> DEFINE head == UpTo(text, k)
           end == i + Width(text[i]) - 1
<1>1. k \in 0..Len(text) /\ i \in 1..Len(text) BY DEF Whole
<1>2. head \in Seq(Byte) /\ Len(head) = k /\ head[i] = text[i] BY <1>1, HeadIs
<1>3. CASE ~RuneStart(text[i]) BY <1>2, <1>3, Zenon DEF CodeUnits
<1>4. CASE RuneStart(text[i])
  <2>1. Width(text[i]) \in 1..4 BY Widths
  <2>2. end <= Len(text) /\ \A j \in (i + 1)..end : ~RuneStart(text[j]) BY <1>1, <1>4, StartOfCharacter
  <2>3. end \in i..k BY <1>1, <2>1, <2>2 DEF Whole, Between
  <2>4. Min({end, k}) = end /\ Min({end, Len(text)}) = end
    <3>1. end \in Nat /\ k \in Nat /\ Len(text) \in Nat /\ end <= k /\ end <= Len(text) BY <1>1, <2>3
    <3> HIDE DEF end
    <3> QED BY <3>1, LesserOfTwo
  <2>5. SubSeq(head, i, end) = SubSeq(text, i, end)
    <3> HIDE DEF end
    <3>1. 1 \in 1..Len(text) /\ k \in 1..Len(text) /\ i \in 1..(k - 1 + 1) /\ end \in 1..(k - 1 + 1)
      BY <1>1, <2>3
    <3>2. SubSeq(SubSeq(text, 1, k), i, end) = SubSeq(text, 1 + i - 1, 1 + end - 1)
      BY <3>1, SubSeqOfSubSeq
    <3>3. 1 + i - 1 = i /\ 1 + end - 1 = end BY <1>1, <2>3
    <3> QED BY <3>2, <3>3 DEF UpTo
  <2>6. SubSeq(head, i, Min({i + Width(head[i]) - 1, Len(head)})) = SubSeq(text, i, Min({i + Width(text[i]) - 1, Len(text)}))
    BY <1>2, <2>4, <2>5, Zenon
  <2> QED BY <1>2, <2>6, Zenon DEF CodeUnits
<1> QED BY <1>3, <1>4

LEMMA TailUnits ==
  ASSUME NEW text \in Seq(Byte), NEW k \in 0..Len(text), NEW i \in 1..(Len(text) - k)
  PROVE  CodeUnits(After(text, k), i) = CodeUnits(text, k + i)
<1> DEFINE tail == After(text, k)
           end == i + Width(text[k + i]) - 1
           stop == Min({end, Len(tail)})
<1>1. tail \in Seq(Byte) /\ Len(tail) = Len(text) - k /\ tail[i] = text[k + i] /\ Len(text) \in Nat
  <2>1. Len(text) \in Nat OBVIOUS
  <2> QED BY <2>1, TailIs, Zenon
<1>2. end \in Nat /\ i <= end
  <2>1. Width(text[k + i]) \in 1..4 BY Widths
  <2> QED BY <2>1
<1>3. stop = (IF end <= Len(tail) THEN end ELSE Len(tail)) /\ stop \in i..Len(tail)
  <2>1. Len(tail) \in Nat BY <1>1
  <2> HIDE DEF end, tail
  <2>2. stop = IF end <= Len(tail) THEN end ELSE Len(tail) BY <1>2, <2>1, LesserOfTwo
  <2> HIDE DEF stop
  <2> QED BY <1>1, <1>2, <2>1, <2>2
<1>4. k + i + Width(text[k + i]) - 1 = k + end
  <2>1. Width(text[k + i]) \in 1..4 BY Widths
  <2> QED BY <2>1
<1>5. Min({k + end, Len(text)}) = k + stop
  <2>1. k + end \in Nat /\ Len(text) \in Nat BY <1>1, <1>2
  <2>2. Min({k + end, Len(text)}) = IF k + end <= Len(text) THEN k + end ELSE Len(text) BY <2>1, LesserOfTwo
  <2> HIDE DEF end, tail, stop
  <2> QED BY <1>1, <1>2, <1>3, <2>1, <2>2
<1>6. SubSeq(tail, i, stop) = SubSeq(text, k + i, k + stop)
  <2> HIDE DEF end, stop
  <2>1. /\ k + 1 \in 1..Len(text) /\ Len(text) \in 1..Len(text)
        /\ i \in 1..(Len(text) - (k + 1) + 1) /\ stop \in 1..(Len(text) - (k + 1) + 1)
    BY <1>1, <1>3
  <2>2. SubSeq(SubSeq(text, k + 1, Len(text)), i, stop) = SubSeq(text, (k + 1) + i - 1, (k + 1) + stop - 1)
    BY <2>1, SubSeqOfSubSeq
  <2>3. (k + 1) + i - 1 = k + i /\ (k + 1) + stop - 1 = k + stop BY <1>1, <2>1
  <2> QED BY <2>2, <2>3 DEF After
<1>7. SubSeq(tail, i, Min({i + Width(tail[i]) - 1, Len(tail)}))
        = SubSeq(text, k + i, Min({k + i + Width(text[k + i]) - 1, Len(text)}))
  BY <1>1, <1>4, <1>5, <1>6, Zenon
<1> QED BY <1>1, <1>7, Zenon DEF CodeUnits

LEMMA HeadReads ==
  ASSUME NEW text \in Seq(Byte), Utf8(text), NEW k, Whole(text, k),
         NEW P \in Reads(text), NEW H \in Reads(UpTo(text, k)), NEW i \in 0..k
  PROVE  H[i] = P[i]
<1> DEFINE Bad == {n \in 0..k : H[n] # P[n]}
<1> SUFFICES ASSUME Bad # {} PROVE FALSE OBVIOUS
<1>0. k \in 0..Len(text) /\ UpTo(text, k) \in Seq(Byte) /\ Len(UpTo(text, k)) = k
  BY HeadIs DEF Whole
<1>1. Bad \in SUBSET Nat BY <1>0
<1>2. PICK n \in Bad : \A m \in Bad : n <= m BY <1>1, Least
<1>3. n \in 0..k /\ H[n] # P[n] BY <1>2
<1>4. n # 0
  <2>1. P[0] = <<>> BY ReadsStep
  <2>2. H[0] = <<>> BY <1>0, ReadsStep
  <2> QED BY <1>3, <2>1, <2>2
<1>5. n \in 1..k /\ n \in 1..Len(text) /\ n - 1 \in 0..k /\ n - 1 \notin Bad
  <2> HIDE DEF Bad
  <2> QED BY <1>0, <1>2, <1>3, <1>4
<1>6. H[n - 1] = P[n - 1] BY <1>5
<1>7. P[n] = P[n - 1] \o CodeUnits(text, n) BY <1>5, ReadsStep
<1>8. H[n] = H[n - 1] \o CodeUnits(UpTo(text, k), n) BY <1>0, <1>5, ReadsStep
<1>9. CodeUnits(UpTo(text, k), n) = CodeUnits(text, n) BY <1>5, HeadUnits
<1> QED BY <1>3, <1>6, <1>7, <1>8, <1>9, Zenon

LEMMA TailReads ==
  ASSUME NEW text \in Seq(Byte), NEW k \in 0..Len(text),
         NEW P \in Reads(text), NEW T \in Reads(After(text, k)), NEW i \in 0..(Len(text) - k)
  PROVE  P[k + i] = P[k] \o T[i]
<1> DEFINE Bad == {n \in 0..(Len(text) - k) : P[k + n] # P[k] \o T[n]}
<1> SUFFICES ASSUME Bad # {} PROVE FALSE OBVIOUS
<1>0. After(text, k) \in Seq(Byte) /\ Len(After(text, k)) = Len(text) - k /\ P[k] \in Seq(Unit)
  BY TailIs, ReadsStep, Zenon
<1>1. Bad \in SUBSET Nat
  <2>1. \A n \in Bad : n \in Nat OBVIOUS
  <2> QED BY <2>1, Zenon
<1>2. PICK n \in Bad : \A m \in Bad : n <= m BY <1>1, Least
<1>3. n \in 0..(Len(text) - k) /\ P[k + n] # P[k] \o T[n] BY <1>2
<1>4. n # 0
  <2>1. T[0] = <<>> BY <1>0, ReadsStep
  <2>2. P[k] \o <<>> = P[k] BY <1>0, ConcatEmptySeq
  <2>3. k + 0 = k OBVIOUS
  <2> QED BY <1>3, <2>1, <2>2, <2>3, Zenon
<1>5. /\ n \in 1..(Len(text) - k) /\ n - 1 \in 0..(Len(text) - k) /\ n - 1 \notin Bad
      /\ k + n \in 1..Len(text) /\ (k + n) - 1 = k + (n - 1)
  <2> HIDE DEF Bad
  <2> QED BY <1>2, <1>3, <1>4
<1>6. P[k + (n - 1)] = P[k] \o T[n - 1] BY <1>5
<1>7. P[k + n] = P[k + (n - 1)] \o CodeUnits(text, k + n)
  <2>1. \A m \in 1..Len(text) : P[m] = P[m - 1] \o CodeUnits(text, m) BY ReadsStep
  <2>2. P[k + n] = P[(k + n) - 1] \o CodeUnits(text, k + n) BY <1>5, <2>1, Zenon
  <2> QED BY <1>5, <2>2, Zenon
<1>8. T[n] = T[n - 1] \o CodeUnits(After(text, k), n) /\ T[n - 1] \in Seq(Unit)
  BY <1>0, <1>5, ReadsStep
<1>9. CodeUnits(After(text, k), n) = CodeUnits(text, k + n) BY <1>5, TailUnits
<1>10. CodeUnits(text, k + n) \in Seq(Unit) BY <1>5, CodeUnitsAre
<1>11. (P[k] \o T[n - 1]) \o CodeUnits(text, k + n) = P[k] \o (T[n - 1] \o CodeUnits(text, k + n))
  <2> DEFINE a == P[k]
             b == T[n - 1]
             c == CodeUnits(text, k + n)
  <2>1. a \in Seq(Unit) /\ b \in Seq(Unit) /\ c \in Seq(Unit) BY <1>0, <1>8, <1>10
  <2> HIDE DEF a, b, c
  <2>2. (a \o b) \o c = a \o (b \o c) BY <2>1, ConcatAssociative
  <2> QED BY <2>2 DEF a, b, c
<1> QED BY <1>3, <1>6, <1>7, <1>8, <1>9, <1>11, Zenon

LEMMA PartsOfConcat ==
  ASSUME NEW X, NEW s \in Seq(X), NEW t \in Seq(X)
  PROVE  /\ SubSeq(s \o t, 1, Len(s)) = s
         /\ SubSeq(s \o t, Len(s) + 1, Len(s \o t)) = t
<1> DEFINE st == s \o t
<1>1. /\ st \in Seq(X) /\ Len(st) = Len(s) + Len(t) /\ Len(s) \in Nat /\ Len(t) \in Nat
      /\ \A i \in 1..Len(s) + Len(t) : st[i] = IF i <= Len(s) THEN s[i] ELSE t[i - Len(s)]
  BY ConcatProperties, LenProperties
<1> HIDE DEF st
<1>2. SubSeq(st, 1, Len(s)) = s
  <2>1. \A i \in 1..Len(s) : st[i] \in X BY <1>1
  <2>2. /\ SubSeq(st, 1, Len(s)) \in Seq(X) /\ Len(SubSeq(st, 1, Len(s))) = Len(s)
        /\ \A i \in 1..Len(s) : SubSeq(st, 1, Len(s))[i] = st[i]
    BY <1>1, <2>1, SubSeqProperties
  <2>3. \A i \in 1..Len(s) : SubSeq(st, 1, Len(s))[i] = s[i] BY <1>1, <2>2
  <2> QED BY <2>2, <2>3, SeqEqual
<1>3. SubSeq(st, Len(s) + 1, Len(st)) = t
  <2>1. \A i \in (Len(s) + 1)..Len(st) : st[i] \in X BY <1>1
  <2>2. /\ SubSeq(st, Len(s) + 1, Len(st)) \in Seq(X) /\ Len(SubSeq(st, Len(s) + 1, Len(st))) = Len(t)
        /\ \A i \in 1..Len(t) : SubSeq(st, Len(s) + 1, Len(st))[i] = st[Len(s) + i]
    BY <1>1, <2>1, SubSeqProperties
  <2>3. \A i \in 1..Len(t) : st[Len(s) + i] = t[i]
    <3>1. ASSUME NEW i \in 1..Len(t) PROVE st[Len(s) + i] = t[(Len(s) + i) - Len(s)] BY <1>1
    <3>2. \A i \in 1..Len(t) : (Len(s) + i) - Len(s) = i BY <1>1
    <3> QED BY <3>1, <3>2
  <2>4. \A i \in 1..Len(t) : SubSeq(st, Len(s) + 1, Len(st))[i] = t[i] BY <2>2, <2>3
  <2> QED BY <2>2, <2>4, SeqEqual
<1> QED BY <1>2, <1>3 DEF st

(* Cut between characters, the units of a text are those of its parts. *)
LEMMA Splits ==
  ASSUME NEW text \in Seq(Byte), Utf8(text), NEW k, Whole(text, k)
  PROVE  /\ Utf16(UpTo(text, k)) \in Seq(Unit) /\ Utf16(After(text, k)) \in Seq(Unit)
         /\ Utf16(text) = Utf16(UpTo(text, k)) \o Utf16(After(text, k))
         /\ Len(Utf16(UpTo(text, k))) = UnitsIn(text, 0, k)
         /\ SubSeq(Utf16(text), 1, UnitsIn(text, 0, k)) = Utf16(UpTo(text, k))
         /\ SubSeq(Utf16(text), UnitsIn(text, 0, k) + 1, Len(Utf16(text))) = Utf16(After(text, k))
<1> DEFINE head == UpTo(text, k)
           tail == After(text, k)
<1>1. /\ k \in 0..Len(text) /\ Len(text) \in Nat
      /\ head \in Seq(Byte) /\ Len(head) = k
      /\ tail \in Seq(Byte) /\ Len(tail) = Len(text) - k
  BY HeadIs, TailIs DEF Whole
<1>2. PICK P \in Reads(text) : Utf16(text) = P[Len(text)] BY Utf16Reads
<1> HIDE DEF head, tail
<1>3. PICK H \in Reads(head) : Utf16(head) = H[Len(head)] BY <1>1, Utf16Reads
<1>4. PICK T \in Reads(tail) : Utf16(tail) = T[Len(tail)] BY <1>1, Utf16Reads
<1>5. H[k] = P[k]
  <2>1. k \in 0..k /\ H \in Reads(UpTo(text, k)) BY <1>1, <1>3 DEF head
  <2> QED BY <2>1, HeadReads
<1>6. P[k + (Len(text) - k)] = P[k] \o T[Len(text) - k]
  <2>1. Len(text) - k \in 0..(Len(text) - k) /\ T \in Reads(After(text, k)) BY <1>1, <1>4 DEF tail
  <2> QED BY <1>1, <2>1, TailReads
<1>7. k + (Len(text) - k) = Len(text) BY <1>1
<1>8. Utf16(head) = P[k] BY <1>1, <1>3, <1>5, Zenon
<1>9. Utf16(tail) = T[Len(text) - k] BY <1>1, <1>4, Zenon
<1>10. Utf16(text) = Utf16(head) \o Utf16(tail) BY <1>2, <1>6, <1>7, <1>8, <1>9, Zenon
<1>11. Utf16(head) \in Seq(Unit) /\ Len(Utf16(head)) = UnitsIn(text, 0, k)
  BY <1>1, <1>8, ReadsStep, LenOfReads
<1>12. Utf16(tail) \in Seq(Unit)
  <2>1. Len(tail) \in 0..Len(tail) BY <1>1
  <2> QED BY <1>1, <1>4, <2>1, ReadsStep, Zenon
<1> USE <1>11, <1>12
<1>13. /\ SubSeq(Utf16(head) \o Utf16(tail), 1, Len(Utf16(head))) = Utf16(head)
       /\ SubSeq(Utf16(head) \o Utf16(tail), Len(Utf16(head)) + 1, Len(Utf16(head) \o Utf16(tail))) = Utf16(tail)
  BY PartsOfConcat
<1> QED BY <1>10, <1>11, <1>12, <1>13, Zenon DEF head, tail

LEMMA LenOfUtf16 ==
  ASSUME NEW text \in Seq(Byte)
  PROVE  Utf16(text) \in Seq(Unit) /\ Len(Utf16(text)) = UnitsIn(text, 0, Len(text))
<1>1. PICK P \in Reads(text) : Utf16(text) = P[Len(text)] BY Utf16Reads
<1>2. Len(text) \in 0..Len(text) BY LenProperties
<1> QED BY <1>1, <1>2, ReadsStep, LenOfReads, Zenon

LEMMA HeadUtf8 ==
  ASSUME NEW text \in Seq(Byte), Utf8(text), NEW k, Whole(text, k)
  PROVE  Utf8(UpTo(text, k))
<1> DEFINE head == UpTo(text, k)
<1>1. k \in 0..Len(text) /\ Len(head) = k /\ \A i \in 1..k : head[i] = text[i] BY HeadIs DEF Whole
<1> HIDE DEF head
<1>2. ASSUME NEW i \in 1..k
      PROVE  \E start \in 1..i :
               /\ RuneStart(head[start])
               /\ i <= start + Width(head[start]) - 1 /\ start + Width(head[start]) - 1 <= k
               /\ \A j \in (start + 1)..(start + Width(head[start]) - 1) : ~RuneStart(head[j])
  <2>1. i \in 1..Len(text) BY <1>1
  <2>2. PICK start \in 1..i :
          /\ RuneStart(text[start])
          /\ i <= start + Width(text[start]) - 1 /\ start + Width(text[start]) - 1 <= Len(text)
          /\ \A j \in (start + 1)..(start + Width(text[start]) - 1) : ~RuneStart(text[j])
    BY <2>1 DEF Utf8
  <2>3. Width(text[start]) \in 1..4 BY Widths
  <2>4. start + Width(text[start]) - 1 <= k BY <1>1, <2>2, <2>3 DEF Whole, Between
  <2>5. head[start] = text[start] BY <1>1
  <2>6. \A j \in (start + 1)..(start + Width(text[start]) - 1) : head[j] = text[j] BY <1>1, <2>3, <2>4
  <2> QED BY <2>2, <2>4, <2>5, <2>6
<1> QED BY <1>1, <1>2 DEF Utf8, head

-------------------------------------------------------------------------------
(* Lines and their ends, as the client sees them. *)
LEMMA ClientSees ==
  ASSUME NEW text \in Seq(Byte), Utf8(text), NEW c \in {CR, LF}, NEW j \in 1..Len(Utf16(text))
  PROVE  Utf16(text)[j] = <<<<c>>, "whole">> <=> \E i \in 1..Len(text) : text[i] = c /\ j = UnitsIn(text, 0, i)
<1>0. Len(text) \in Nat OBVIOUS
<1>1. PICK P \in Reads(text) : Utf16(text) = P[Len(text)] BY Utf16Reads
<1>2. PICK i \in 1..Len(text) :
        /\ UnitsIn(text, 0, i - 1) < j /\ j <= UnitsIn(text, 0, i)
        /\ j - UnitsIn(text, 0, i - 1) \in 1..Len(CodeUnits(text, i))
        /\ Utf16(text)[j] = CodeUnits(text, i)[j - UnitsIn(text, 0, i - 1)]
  <2>1. Len(text) \in 0..Len(text) /\ j \in 1..Len(P[Len(text)]) BY <1>0, <1>1
  <2> QED BY <1>1, <2>1, UnitAt
<1>3. Utf16(text)[j] = <<<<c>>, "whole">> <=> text[i] = c
  <2>1. \A d \in 1..Len(CodeUnits(text, i)) : CodeUnits(text, i)[d] = <<<<c>>, "whole">> <=> text[i] = c
    BY CodeUnitsAre, Zenon
  <2> QED BY <1>2, <2>1, Zenon
<1>4. /\ UnitsIn(text, 0, i) = UnitsIn(text, 0, i - 1) + UnitsIn(text, i - 1, i)
      /\ UnitsIn(text, 0, i - 1) \in Nat /\ UnitsIn(text, i - 1, i) \in Nat /\ j \in Nat
  <2>1. i - 1 \in Nat /\ i \in Nat /\ 0 <= i - 1 /\ i - 1 <= i OBVIOUS
  <2>2. j \in Nat BY <1>0, LenOfUtf16
  <2> QED BY <2>1, <2>2, UnitsAdd, UnitsAreNat
<1>5. ASSUME text[i] = c PROVE j = UnitsIn(text, 0, i)
  <2>1. UnitsIn(text, i - 1, (i - 1) + 1) \in {0, 1}
    <3>1. Width(text[i]) = 1 BY <1>5 DEF CR, LF, Width
    <3>2. (i - 1) + 1 = i OBVIOUS
    <3> QED BY <3>1, <3>2, UnitsOfOne
  <2>2. UnitsIn(text, i - 1, i) \in {0, 1} BY <2>1
  <2> QED BY <1>2, <1>4, <2>2
<1>6. ASSUME NEW l \in 1..Len(text), text[l] = c, j = UnitsIn(text, 0, l) PROVE l = i
  <2>1. RuneStart(text[l]) BY <1>6, LineBreaks
  <2>2. ~(i < l)
    <3> SUFFICES ASSUME i < l PROVE FALSE OBVIOUS
    <3>1. UnitsIn(text, 0, i) < UnitsIn(text, 0, l) BY <2>1, UnitsGrow
    <3>2. UnitsIn(text, 0, i) \in Nat BY UnitsAreNat
    <3> QED BY <1>2, <1>4, <1>6, <3>1, <3>2
  <2>3. ~(l < i)
    <3> SUFFICES ASSUME l < i PROVE FALSE OBVIOUS
    <3>1. l <= i - 1 /\ i - 1 \in Nat BY <1>0
    <3>2. UnitsIn(text, 0, l) <= UnitsIn(text, 0, i - 1) BY <3>1, UnitsGrow
    <3> QED BY <1>2, <1>4, <1>6, <3>2
  <2> QED BY <1>0, <2>2, <2>3
<1> QED BY <1>3, <1>5, <1>6

ClientStarts(units) == {0} \union {k \in 1..Len(units) : units[k] = <<<<LF>>, "whole">>}

LEMMA StartsForClient ==
  ASSUME NEW text \in Seq(Byte), Utf8(text)
  PROVE  ClientStarts(Utf16(text)) = {UnitsIn(text, 0, l) : l \in LineStarts(text)}
<1>0. Len(text) \in Nat /\ Len(Utf16(text)) = UnitsIn(text, 0, Len(text)) /\ UnitsIn(text, 0, 0) = 0
  BY LenOfUtf16, NoUnits
<1>1. ASSUME NEW l \in LineStarts(text) PROVE UnitsIn(text, 0, l) \in ClientStarts(Utf16(text))
  <2>1. CASE l = 0 BY <1>0, <2>1 DEF ClientStarts
  <2>2. CASE l # 0
    <3>1. l \in 1..Len(text) /\ text[l] = LF BY <2>2 DEF LineStarts
    <3>2. RuneStart(text[l]) BY <3>1, LineBreaks
    <3>3. UnitsIn(text, 0, 0) < UnitsIn(text, 0, l) /\ UnitsIn(text, 0, l) <= UnitsIn(text, 0, Len(text))
      BY <1>0, <3>1, <3>2, UnitsGrow
    <3>4. UnitsIn(text, 0, l) \in 1..Len(Utf16(text))
      <4>1. UnitsIn(text, 0, l) \in Nat /\ UnitsIn(text, 0, Len(text)) \in Nat BY <1>0, <3>1, UnitsAreNat
      <4> QED BY <1>0, <3>3, <4>1
    <3>5. Utf16(text)[UnitsIn(text, 0, l)] = <<<<LF>>, "whole">> BY <3>1, <3>4, ClientSees
    <3> QED BY <3>4, <3>5 DEF ClientStarts
  <2> QED BY <2>1, <2>2
<1>2. ASSUME NEW x \in ClientStarts(Utf16(text)) PROVE \E l \in LineStarts(text) : x = UnitsIn(text, 0, l)
  <2>1. CASE x = 0 BY <1>0, <2>1 DEF LineStarts
  <2>2. CASE x # 0
    <3>1. x \in 1..Len(Utf16(text)) /\ Utf16(text)[x] = <<<<LF>>, "whole">> BY <2>2 DEF ClientStarts
    <3>2. PICK l \in 1..Len(text) : text[l] = LF /\ x = UnitsIn(text, 0, l) BY <3>1, ClientSees
    <3> QED BY <3>2 DEF LineStarts
  <2> QED BY <2>1, <2>2
<1> QED BY <1>1, <1>2

LEMMA StartsInOrder ==
  ASSUME NEW text \in Seq(Byte), Utf8(text), NEW l \in LineStarts(text), NEW m \in LineStarts(text)
  PROVE  /\ UnitsIn(text, 0, l) \in Nat /\ UnitsIn(text, 0, m) \in Nat
         /\ l < m <=> UnitsIn(text, 0, l) < UnitsIn(text, 0, m)
         /\ l = m <=> UnitsIn(text, 0, l) = UnitsIn(text, 0, m)
<1>1. ASSUME NEW a \in LineStarts(text), NEW b \in LineStarts(text), a < b
      PROVE  UnitsIn(text, 0, a) < UnitsIn(text, 0, b)
  <2>1. a \in Nat /\ b \in 1..Len(text) /\ text[b] = LF BY <1>1 DEF LineStarts
  <2>2. RuneStart(text[b]) BY <2>1, LineBreaks
  <2> QED BY <1>1, <2>1, <2>2, UnitsGrow
<1>2. l \in Nat /\ m \in Nat BY DEF LineStarts
<1>3. UnitsIn(text, 0, l) \in Nat /\ UnitsIn(text, 0, m) \in Nat BY <1>2, UnitsAreNat
<1>4. l < m => UnitsIn(text, 0, l) < UnitsIn(text, 0, m) BY <1>1
<1>5. m < l => UnitsIn(text, 0, m) < UnitsIn(text, 0, l) BY <1>1
<1> QED BY <1>2, <1>3, <1>4, <1>5

(* The client counts as many lines. *)
LEMMA LineForClient ==
  ASSUME NEW text \in Seq(Byte), Utf8(text), NEW start \in LineStarts(text)
  PROVE  Cardinality({l \in ClientStarts(Utf16(text)) : l < UnitsIn(text, 0, start)}) = Line(text, start)
<1> DEFINE S == {l \in LineStarts(text) : l < start}
           T == {l \in ClientStarts(Utf16(text)) : l < UnitsIn(text, 0, start)}
           f == [l \in S |-> UnitsIn(text, 0, l)]
<1>1. ASSUME NEW l \in S PROVE UnitsIn(text, 0, l) \in T BY StartsForClient, StartsInOrder
<1>2. ASSUME NEW x \in T PROVE \E l \in S : x = UnitsIn(text, 0, l)
  <2>1. PICK l \in LineStarts(text) : x = UnitsIn(text, 0, l) BY StartsForClient
  <2> QED BY <2>1, StartsInOrder
<1>3. \A l, m \in S : UnitsIn(text, 0, l) = UnitsIn(text, 0, m) => l = m BY StartsInOrder
<1>4. IsFiniteSet(S)
  <2>1. start \in Nat /\ LineStarts(text) \in SUBSET Nat BY StartsOfLines
  <2>2. \A l \in S : l \in 0..start BY <2>1
  <2>3. S \in SUBSET (0..start) BY <2>2, Zenon
  <2>4. IsFiniteSet(0..start) BY <2>1, FS_Interval
  <2> QED BY <2>3, <2>4, FS_Subset
<1> HIDE DEF S, T
<1>5. f \in Bijection(S, T)
  <2>1. f \in [S -> T] BY <1>1
  <2>2. \A a, b \in S : f[a] = f[b] => a = b BY <1>3
  <2>3. \A t \in T : \E s \in S : f[s] = t BY <1>2
  <2> HIDE DEF f
  <2> QED BY <2>1, <2>2, <2>3 DEF Bijection, Injection, Surjection, IsInjective
<1>6. Cardinality(T) = Cardinality(S)
  <2>1. ExistsBijection(S, T) BY <1>5, Zenon DEF ExistsBijection
  <2> QED BY <1>4, <2>1, FS_Bijection, Zenon
<1> QED BY <1>6 DEF S, T, Line

InEnding(text, k) == k \in 1..(Len(text) - 1) /\ text[k] = CR /\ text[k + 1] = LF

ClientEnds(units, start) ==
  {k \in (start + 1)..Len(units) :
     \/ units[k] = <<<<LF>>, "whole">>
     \/ units[k] = <<<<CR>>, "whole">> /\ k < Len(units) /\ units[k + 1] = <<<<LF>>, "whole">>}

(* Where a line ends for the client, is not before an offset in that line. *)
LEMMA EndsForClient ==
  ASSUME NEW text \in Seq(Byte), Utf8(text), NEW k, Whole(text, k), ~InEnding(text, k),
         NEW start \in LineStarts(text), start <= k, \A l \in LineStarts(text) : l <= k => l <= start,
         NEW e \in ClientEnds(Utf16(text), UnitsIn(text, 0, start))
  PROVE  e \in Nat /\ UnitsIn(text, 0, k) < e
<1> DEFINE s == UnitsIn(text, 0, start)
           units == Utf16(text)
<1>0. /\ k \in 0..Len(text) /\ Len(text) \in Nat /\ Len(units) \in Nat /\ s \in Nat /\ start \in Nat
      /\ UnitsIn(text, 0, k) \in Nat
  BY LenOfUtf16, UnitsAreNat DEF Whole, LineStarts
<1>1. /\ e \in (s + 1)..Len(units)
      /\ \/ units[e] = <<<<LF>>, "whole">>
         \/ units[e] = <<<<CR>>, "whole">> /\ e < Len(units) /\ units[e + 1] = <<<<LF>>, "whole">>
  BY DEF ClientEnds
<1>2. e \in 1..Len(units) /\ e \in Nat /\ s < e BY <1>0, <1>1
<1> HIDE DEF s
<1>3. ASSUME NEW l \in 1..Len(text), text[l] = LF, s < UnitsIn(text, 0, l) PROVE k < l
  <2>1. l \in LineStarts(text) BY <1>3 DEF LineStarts
  <2>2. start < l BY <1>3, <2>1, StartsInOrder DEF s
  <2> QED BY <1>0, <2>1, <2>2
<1>4. CASE units[e] = <<<<LF>>, "whole">>
  <2>1. PICK l \in 1..Len(text) : text[l] = LF /\ e = UnitsIn(text, 0, l) BY <1>2, <1>4, ClientSees
  <2>2. k < l BY <1>2, <1>3, <2>1
  <2>3. RuneStart(text[l]) BY <2>1, LineBreaks
  <2> QED BY <1>0, <1>2, <2>1, <2>2, <2>3, UnitsGrow
<1>5. CASE units[e] = <<<<CR>>, "whole">> /\ e < Len(units) /\ units[e + 1] = <<<<LF>>, "whole">>
  <2>1. PICK r \in 1..Len(text) : text[r] = CR /\ e = UnitsIn(text, 0, r) BY <1>2, <1>5, ClientSees
  <2>2. e + 1 \in 1..Len(units) BY <1>0, <1>2, <1>5
  <2>3. PICK l \in 1..Len(text) : text[l] = LF /\ e + 1 = UnitsIn(text, 0, l) BY <1>5, <2>2, ClientSees
  <2>4. k < l BY <1>0, <1>2, <1>3, <2>3
  <2>5. RuneStart(text[r]) /\ Whole(text, r) /\ RuneStart(text[l]) BY <2>1, <2>3, LineBreaks
  <2>6. r < l
    <3> SUFFICES ASSUME l <= r PROVE FALSE OBVIOUS
    <3>1. UnitsIn(text, 0, l) <= UnitsIn(text, 0, r) BY UnitsGrow
    <3> QED BY <1>2, <2>1, <2>3, <3>1
  <2>7. l = r + 1
    <3> SUFFICES ASSUME r + 1 < l PROVE FALSE BY <2>6
    <3>1. RuneStart(text[r + 1]) BY <2>5, <2>6 DEF Whole, Between
    <3>2. UnitsIn(text, 0, r) < UnitsIn(text, 0, r + 1) BY <3>1, UnitsGrow
    <3>3. UnitsIn(text, 0, r + 1) < UnitsIn(text, 0, l) BY <2>5, UnitsGrow
    <3>4. UnitsIn(text, 0, r + 1) \in Nat BY UnitsAreNat
    <3> QED BY <1>2, <2>1, <2>3, <3>2, <3>3, <3>4
  <2>8. r # k
    <3> SUFFICES ASSUME r = k PROVE FALSE OBVIOUS
    <3>1. k \in 1..(Len(text) - 1) /\ text[k] = CR /\ text[k + 1] = LF BY <1>0, <2>1, <2>3, <2>7
    <3> QED BY <3>1 DEF InEnding
  <2>9. k < r BY <1>0, <2>4, <2>7, <2>8
  <2>10. UnitsIn(text, 0, k) < UnitsIn(text, 0, r) BY <1>0, <2>5, <2>9, UnitsGrow
  <2> QED BY <1>2, <2>1, <2>10
<1> QED BY <1>1, <1>4, <1>5

(* For the client, the position of an offset is where it is in units. *)
LEMMA IndexOfPosition ==
  ASSUME NEW text \in Seq(Byte), Utf8(text), NEW k, Whole(text, k), ~InEnding(text, k)
  PROVE  Index(Utf16(text), Position(text, k)) = UnitsIn(text, 0, k)
<1> DEFINE units == Utf16(text)
           before == {l \in LineStarts(text) : l <= k}
<1>0. k \in 0..Len(text) /\ Len(text) \in Nat /\ LineStarts(text) \in SUBSET Nat /\ 0 \in LineStarts(text)
  BY StartsOfLines DEF Whole
<1>1. PICK start \in LineStarts(text) : start <= k /\ \A l \in LineStarts(text) : l <= k => l <= start
  <2>1. before \in SUBSET Nat /\ before # {} /\ k \in Nat /\ \A l \in before : l <= k BY <1>0
  <2>2. Max(before) \in before /\ \A l \in before : l <= Max(before)
    <3> HIDE DEF before
    <3> QED BY <2>1, MaxIsGreatest
  <2> QED BY <2>2
<1> DEFINE s == UnitsIn(text, 0, start)
           p == Position(text, k)
           starts == ClientStarts(units)
           ends == ClientEnds(units, s)
           stops == {e - 1 : e \in ends} \union {Len(units)}
<1>2. p.line = Line(text, start) /\ p.character = UnitsIn(text, start, k) BY <1>1, PositionOf DEF Place
<1>3. start \in Nat /\ s \in Nat /\ UnitsIn(text, 0, k) \in Nat /\ UnitsIn(text, 0, k) = s + UnitsIn(text, start, k)
  BY <1>0, <1>1, UnitsAreNat, UnitsAdd
<1>4. starts \in SUBSET Nat /\ s \in starts
  <2>1. starts = {UnitsIn(text, 0, l) : l \in LineStarts(text)} BY StartsForClient
  <2>2. \A l \in LineStarts(text) : UnitsIn(text, 0, l) \in Nat BY StartsInOrder
  <2> HIDE DEF starts
  <2> QED BY <2>1, <2>2
<1>5. Cardinality({l \in starts : l < s}) = p.line BY <1>2, LineForClient
<1> HIDE DEF s, p, starts
<1>6. (CHOOSE t \in starts : Cardinality({l \in starts : l < t}) = p.line) = s
  <2>1. \A t \in starts : Cardinality({l \in starts : l < t}) = p.line => t = s
    BY <1>4, <1>5, CountBelow
  <2> QED BY <1>4, <1>5, <2>1
<1>7. \A e \in ends : e \in Nat /\ UnitsIn(text, 0, k) < e BY <1>1, EndsForClient DEF s
<1>8. Len(units) \in Nat /\ UnitsIn(text, 0, k) <= Len(units)
  <2>1. Len(units) = UnitsIn(text, 0, Len(text)) BY LenOfUtf16
  <2> QED BY <1>0, <2>1, UnitsAreNat, UnitsGrow
<1> HIDE DEF units, ends
<1>9. stops \in SUBSET Nat /\ stops # {} /\ \A x \in stops : UnitsIn(text, 0, k) <= x
  <2>1. \A x \in stops : x \in Nat /\ UnitsIn(text, 0, k) <= x BY <1>3, <1>7, <1>8
  <2> QED BY <2>1
<1>10. Min(stops) \in Nat /\ UnitsIn(text, 0, k) <= Min(stops)
  <2> HIDE DEF stops
  <2>1. Min(stops) \in stops BY <1>9, MinIsLeast
  <2> QED BY <1>9, <2>1
<1>11. s + p.character = UnitsIn(text, 0, k) BY <1>2, <1>3
<1>12. Min({s + p.character, Min(stops)}) = UnitsIn(text, 0, k)
  <2> HIDE DEF stops
  <2>1. Min({UnitsIn(text, 0, k), Min(stops)}) = UnitsIn(text, 0, k) BY <1>3, <1>10, LesserOfTwo
  <2> QED BY <1>11, <2>1, Zenon
<1>13. starts = {0} \union {l \in 1..Len(units) : units[l] = <<<<LF>>, "whole">>} BY DEF starts, ClientStarts
<1>14. Index(units, p) = Min({s + p.character, Min(stops)})
  <2>1. ends = {l \in (s + 1)..Len(units) :
                  \/ units[l] = <<<<LF>>, "whole">>
                  \/ units[l] = <<<<CR>>, "whole">> /\ l < Len(units) /\ units[l + 1] = <<<<LF>>, "whole">>}
    BY Zenon DEF ends, ClientEnds
  <2> QED BY <1>6, <1>13, <2>1, Zenon DEF Index
<1> QED BY <1>12, <1>14, Zenon DEF units, p

-------------------------------------------------------------------------------
(* No end of the edit is between a carriage return and its line feed.      *)
LEMMA StartOutsideEnding ==
  ASSUME NEW one \in Seq(Byte), Utf8(one), NEW two \in Seq(Byte), EndingsAreWhole(two),
         NEW p, NEW s, Stays(one, two, p, s), LongestStart(one, two, p)
  PROVE  ~InEnding(one, p)
<1> SUFFICES ASSUME InEnding(one, p) PROVE FALSE OBVIOUS
<1>1. /\ p \in Nat /\ p <= Len(two) /\ Len(one) \in Nat /\ Len(two) \in Nat
      /\ \A i \in 1..p : one[i] = two[i]
  BY DEF Stays
<1>2. p \in 1..(Len(one) - 1) /\ one[p] = CR /\ one[p + 1] = LF BY DEF InEnding
<1>3. p \in 1..Len(two) /\ two[p] = CR BY <1>1, <1>2
<1>4. p < Len(two) /\ two[p + 1] = LF BY <1>3 DEF EndingsAreWhole
<1>5. SameStart(one, two, p + 1) BY <1>1, <1>2, <1>4 DEF SameStart
<1>6. Between(one, p + 1)
  <2>1. p + 1 \in 1..Len(one) BY <1>1, <1>2
  <2> QED BY <1>2, <2>1, LineBreaks DEF Whole
<1> QED BY <1>1, <1>5, <1>6 DEF LongestStart

LEMMA StartOutsideNewEnding ==
  ASSUME NEW one \in Seq(Byte), Utf8(one), EndingsAreWhole(one), NEW two \in Seq(Byte), EndingsAreWhole(two),
         NEW p, NEW s, Stays(one, two, p, s), LongestStart(one, two, p)
  PROVE  ~InEnding(two, p)
<1> SUFFICES ASSUME InEnding(two, p) PROVE FALSE OBVIOUS
<1>1. p \in 1..Len(one) /\ one[p] = CR BY DEF InEnding, Stays
<1>2. p < Len(one) /\ one[p + 1] = LF BY <1>1 DEF EndingsAreWhole
<1>3. InEnding(one, p) BY <1>1, <1>2 DEF InEnding
<1> QED BY <1>3, StartOutsideEnding

LEMMA EndOutsideEnding ==
  ASSUME NEW one \in Seq(Byte), Utf8(one), EndingsAreWhole(one), NEW two \in Seq(Byte), EndingsAreWhole(two),
         ReplacesInLine(one, two),
         NEW p, NEW s, Stays(one, two, p, s), LongestStart(one, two, p), LongestEnd(one, two, p, s)
  PROVE  ~InEnding(one, Len(one) - s)
<1> DEFINE q == Len(one) - s
           n == Len(two) - s
<1> SUFFICES ASSUME InEnding(one, q) PROVE FALSE OBVIOUS
<1>1. /\ p \in Nat /\ s \in Nat /\ Len(one) \in Nat /\ Len(two) \in Nat
      /\ q \in Nat /\ n \in Nat /\ p <= q /\ p <= n
  BY DEF Stays
<1>2. q \in 1..(Len(one) - 1) /\ one[q] = CR /\ one[q + 1] = LF BY DEF InEnding
<1>3. q # p BY StartOutsideEnding
<1>4. PICK from, to \in 0..Len(one) :
        LET rest == Len(one) - to IN
        /\ from <= to /\ from + rest <= Len(two)
        /\ Between(one, from) /\ Between(one, to)
        /\ \A i \in (from + 1)..to : one[i] \notin {CR, LF}
        /\ \A i \in 1..from : two[i] = one[i]
        /\ \A i \in 1..rest : two[Len(two) - rest + i] = one[to + i]
  BY Zenon DEF ReplacesInLine
<1>5. from <= p
  <2>1. SameStart(one, two, from) BY <1>1, <1>4 DEF SameStart
  <2> QED BY <1>4, <2>1 DEF LongestStart
<1>6. to < q
  <2>1. q \notin (from + 1)..to BY <1>2, <1>4
  <2> QED BY <1>1, <1>3, <1>4, <1>5, <2>1
<1>7. two[n] = CR /\ n \in 1..Len(two)
  <2>1. q - to \in 1..(Len(one) - to) BY <1>1, <1>2, <1>6
  <2>2. two[Len(two) - (Len(one) - to) + (q - to)] = one[to + (q - to)] BY <1>4, <2>1
  <2>3. Len(two) - (Len(one) - to) + (q - to) = n /\ to + (q - to) = q BY <1>1, <1>4
  <2>4. n \in 1..Len(two) BY <1>1, <1>4, <1>6
  <2> QED BY <1>2, <2>2, <2>3, <2>4
<1>8. CASE n = p
  <2>1. n < Len(two) /\ two[n + 1] = LF BY <1>7 DEF EndingsAreWhole
  <2>2. n \in 1..(Len(two) - 1) BY <1>1, <1>7, <2>1
  <2>3. InEnding(two, n) BY <1>7, <2>1, <2>2, Zenon DEF InEnding
  <2>4. InEnding(two, p) BY <1>8, <2>3, Zenon
  <2> QED BY <2>4, StartOutsideNewEnding
<1>9. CASE n # p
  <2>1. s < Len(one) - p /\ s < Len(two) - p BY <1>1, <1>3, <1>9
  <2>2. one[Len(one) - s] = two[Len(two) - s] BY <1>2, <1>7
  <2>3. Stays(one, two, p, s + 1) BY <2>1, <2>2, LongerSuffix
  <2>4. SameEnd(one, two, s + 1) /\ s + 1 <= Len(one) - p /\ s + 1 <= Len(two) - p
    BY <2>3 DEF Stays, SameEnd
  <2>5. Between(one, Len(one) - (s + 1))
    <3>1. q \in 1..Len(one) BY <1>1, <1>2
    <3>2. RuneStart(one[q]) BY <1>2, <3>1, LineBreaks
    <3>3. Len(one) - (s + 1) + 1 = q BY <1>1
    <3> QED BY <3>2, <3>3 DEF Between
  <2>6. s + 1 \in Nat BY <1>1
  <2>7. s + 1 <= s BY <2>4, <2>5, <2>6 DEF LongestEnd
  <2> QED BY <1>1, <2>7
<1> QED BY <1>8, <1>9

-------------------------------------------------------------------------------
(* What the client puts together. *)
LEMMA PartsOfNew ==
  ASSUME NEW one, NEW two, NEW p, NEW s, Stays(one, two, p, s)
  PROVE  LET kept == UpTo(two, Len(two) - s) IN
         /\ UpTo(two, p) = UpTo(one, p)
         /\ UpTo(kept, p) = UpTo(one, p)
         /\ After(kept, p) = SubSeq(two, p + 1, Len(two) - s)
         /\ After(two, Len(two) - s) = After(one, Len(one) - s)
<1> DEFINE n == Len(two) - s
           q == Len(one) - s
           kept == UpTo(two, n)
<1>1. /\ one \in Seq(Byte) /\ two \in Seq(Byte) /\ Len(one) \in Nat /\ Len(two) \in Nat /\ p \in Nat /\ s \in Nat
      /\ n \in 0..Len(two) /\ p \in 0..n /\ p \in 0..Len(one) /\ p \in 0..Len(two) /\ q \in 0..Len(one)
      /\ n \in Nat
  BY DEF Stays
<1>2. kept \in Seq(Byte) /\ Len(kept) = n /\ \A i \in 1..n : kept[i] = two[i] BY <1>1, HeadIs
<1>3. p \in 0..Len(kept) BY <1>1, <1>2
<1>4. /\ UpTo(one, p) \in Seq(Byte) /\ Len(UpTo(one, p)) = p /\ \A i \in 1..p : UpTo(one, p)[i] = one[i]
      /\ UpTo(two, p) \in Seq(Byte) /\ Len(UpTo(two, p)) = p /\ \A i \in 1..p : UpTo(two, p)[i] = two[i]
  BY <1>1, HeadIs
<1>5. /\ UpTo(kept, p) \in Seq(Byte) /\ Len(UpTo(kept, p)) = p
      /\ \A i \in 1..p : UpTo(kept, p)[i] = kept[i]
  <2> HIDE DEF kept
  <2> QED BY <1>2, <1>3, HeadIs
<1>6. \A i \in 1..p : one[i] = two[i] BY DEF Stays
<1>7. UpTo(two, p) = UpTo(one, p)
  <2>1. \A i \in 1..Len(UpTo(two, p)) : UpTo(two, p)[i] = UpTo(one, p)[i] BY <1>4, <1>6
  <2> QED BY <1>4, <2>1, SeqEqual
<1>8. UpTo(kept, p) = UpTo(one, p)
  <2>1. \A i \in 1..p : kept[i] = one[i] BY <1>1, <1>2, <1>6
  <2>2. \A i \in 1..p : UpTo(kept, p)[i] = UpTo(one, p)[i] BY <1>4, <1>5, <2>1
  <2> HIDE DEF kept
  <2> QED BY <1>4, <1>5, <2>2, SeqEqual
<1>9. After(kept, p) = SubSeq(two, p + 1, n)
  <2>1. CASE p = n
    <3>1. p + 1 > n BY <1>1, <2>1
    <3>2. SubSeq(two, p + 1, n) = <<>> /\ SubSeq(kept, p + 1, n) = <<>>
      <4> HIDE DEF kept, n
      <4> QED BY <1>1, <1>2, <3>1, SubSeqEmpty
    <3> QED BY <1>2, <3>2, Zenon DEF After
  <2>2. CASE p # n
    <3> HIDE DEF n
    <3>1. /\ 1 \in 1..Len(two) /\ n \in 1..Len(two) /\ p + 1 \in 1..(n - 1 + 1) /\ n \in 1..(n - 1 + 1)
      BY <1>1, <2>2
    <3>2. SubSeq(SubSeq(two, 1, n), p + 1, n) = SubSeq(two, 1 + (p + 1) - 1, 1 + n - 1)
      BY <3>1, SubSeqOfSubSeq
    <3>3. 1 + (p + 1) - 1 = p + 1 /\ 1 + n - 1 = n BY <1>1
    <3>4. kept = SubSeq(two, 1, n) BY Zenon DEF UpTo
    <3>5. SubSeq(kept, p + 1, Len(kept)) = SubSeq(two, p + 1, n) BY <1>2, <3>2, <3>3, <3>4, Zenon
    <3> QED BY <3>5, Zenon DEF After
  <2> QED BY <2>1, <2>2
<1>10. After(two, n) = After(one, q)
  <2>1. /\ After(one, q) \in Seq(Byte) /\ Len(After(one, q)) = Len(one) - q
        /\ \A i \in 1..(Len(one) - q) : After(one, q)[i] = one[q + i]
        /\ After(two, n) \in Seq(Byte) /\ Len(After(two, n)) = Len(two) - n
        /\ \A i \in 1..(Len(two) - n) : After(two, n)[i] = two[n + i]
    BY <1>1, TailIs
  <2>2. Len(one) - q = s /\ Len(two) - n = s BY <1>1
  <2>3. \A i \in 1..s : one[q + i] = two[n + i] BY DEF Stays
  <2>4. \A i \in 1..s : After(two, n)[i] = After(one, q)[i]
    <3> HIDE DEF q, n
    <3> QED BY <2>1, <2>2, <2>3
  <2> HIDE DEF q, n
  <2> QED BY <2>1, <2>2, <2>4, SeqEqual
<1> QED BY <1>7, <1>8, <1>9, <1>10 DEF n, q, kept

(* The client puts together the new text. *)
LEMMA ClientPutsTogether ==
  ASSUME NEW one \in Seq(Byte), Utf8(one), EndingsAreWhole(one),
         NEW two \in Seq(Byte), Utf8(two), EndingsAreWhole(two), ReplacesInLine(one, two),
         NEW p, NEW s, Stays(one, two, p, s), LongestStart(one, two, p), LongestEnd(one, two, p, s),
         Between(one, p), Between(one, Len(one) - s), Between(two, p), Between(two, Len(two) - s)
  PROVE  Applied(Utf16(one), Position(one, p), Position(one, Len(one) - s), SubSeq(two, p + 1, Len(two) - s))
           = Utf16(two)
<1> DEFINE q == Len(one) - s
           n == Len(two) - s
           kept == UpTo(two, n)
           mine == SubSeq(two, p + 1, n)
<1>1. /\ p \in Nat /\ s \in Nat /\ Len(one) \in Nat /\ Len(two) \in Nat /\ p <= n
      /\ Whole(one, p) /\ Whole(one, q) /\ Whole(two, n)
  BY DEF Stays, Whole
<1>2. ~InEnding(one, p) /\ ~InEnding(one, q) BY StartOutsideEnding, EndOutsideEnding
<1>3. Index(Utf16(one), Position(one, p)) = UnitsIn(one, 0, p) BY <1>1, <1>2, IndexOfPosition
<1>4. Index(Utf16(one), Position(one, q)) = UnitsIn(one, 0, q)
  <2> HIDE DEF q
  <2> QED BY <1>1, <1>2, IndexOfPosition
<1>5. /\ kept \in Seq(Byte) /\ Len(kept) = n /\ \A i \in 1..n : kept[i] = two[i]
      /\ Utf8(kept)
  <2> HIDE DEF n
  <2>1. n \in 0..Len(two) BY <1>1 DEF Whole
  <2> QED BY <1>1, <2>1, HeadIs, HeadUtf8
<1>6. Whole(kept, p)
  <2>1. ASSUME p \in 1..(n - 1) PROVE RuneStart(kept[p + 1])
    <3>1. p \in 1..(Len(two) - 1) /\ p + 1 \in 1..n BY <1>1, <2>1
    <3>2. RuneStart(two[p + 1]) BY <3>1 DEF Between
    <3> HIDE DEF kept, n
    <3> QED BY <1>5, <3>1, <3>2
  <2>2. p \in 0..n BY <1>1
  <2> HIDE DEF kept, n
  <2> QED BY <1>5, <2>1, <2>2 DEF Whole, Between
<1>7. /\ UpTo(kept, p) = UpTo(one, p)
      /\ After(kept, p) = mine
      /\ After(two, n) = After(one, q)
  BY PartsOfNew
<1>8. SubSeq(Utf16(one), 1, UnitsIn(one, 0, p)) = Utf16(UpTo(one, p))
  BY <1>1, Splits
<1>9. SubSeq(Utf16(one), UnitsIn(one, 0, q) + 1, Len(Utf16(one))) = Utf16(After(one, q))
  <2> HIDE DEF q
  <2> QED BY <1>1, Splits
<1>10. Utf16(two) = Utf16(kept) \o Utf16(After(two, n))
  <2> HIDE DEF n
  <2> QED BY <1>1, Splits
<1>11. Utf16(kept) = Utf16(UpTo(kept, p)) \o Utf16(After(kept, p))
  <2> HIDE DEF kept
  <2> QED BY <1>5, <1>6, Splits
<1>12. Utf16(two) = Utf16(UpTo(one, p)) \o Utf16(mine) \o Utf16(After(one, q))
  <2> HIDE DEF kept, mine, n, q
  <2> QED BY <1>7, <1>10, <1>11, Zenon
<1>13. Applied(Utf16(one), Position(one, p), Position(one, q), mine)
         = SubSeq(Utf16(one), 1, UnitsIn(one, 0, p)) \o Utf16(mine)
             \o SubSeq(Utf16(one), UnitsIn(one, 0, q) + 1, Len(Utf16(one)))
  <2> HIDE DEF mine, q
  <2> QED BY <1>3, <1>4, Zenon DEF Applied
<1> QED BY <1>8, <1>9, <1>12, <1>13, Zenon

Made == old \in Texts /\ (at # "request" => new \in NewTexts(old))

LEMMA SpecMade == Spec => []Made
<1>1. Init => Made BY Zenon DEF Init, Made
<1>2. ASSUME Made, [Next]_vars PROVE Made'
  <2>1. CASE Reconcile BY <1>2, <2>1, Zenon DEF Made, Reconcile
  <2>2. ASSUME UNCHANGED <<old, new>>, at # "request" PROVE Made'
    BY <1>2, <2>2, Zenon DEF Made
  <2>3. CASE MinimalEdit
    <3>1. UNCHANGED <<old, new>> /\ at \in {"prefix", "whole prefix", "suffix", "whole suffix"}
      BY <2>3, Zenon DEF MinimalEdit, GrowPrefix, ShrinkPrefix, GrowSuffix, ShrinkSuffix
    <3> QED BY <2>2, <3>1
  <2>4. CASE UNCHANGED vars BY <1>2, <2>4, Zenon DEF Made, vars
  <2> QED BY <1>2, <2>1, <2>3, <2>4, Zenon DEF Next, Send
<1> QED BY <1>1, <1>2, PTL DEF Spec

(* "A single edit that turns the document's text into newText": the client *)
(* puts together just this text, from lines and UTF-16 units (minimalEdit  *)
(* and position, and what a client does by LSP).                           *)
THEOREM ClientsGetNewText == Spec => []ClientGetsNewText
<1>1. ASSUME IInv, Longest, Made, EditKeepsCharacters PROVE ClientGetsNewText
  <2> SUFFICES ASSUME at = "edit"
               PROVE  Applied(Utf16(old), Position(old, prefix), Position(old, Len(old) - suffix), NewText)
                        = Utf16(new)
    BY Zenon DEF ClientGetsNewText
  <2>1. old \in Texts /\ new \in NewTexts(old) BY <1>1, Zenon DEF Made
  <2>2. /\ old \in Seq(Byte) /\ Utf8(old) /\ EndingsAreWhole(old)
        /\ new \in Seq(Byte) /\ Utf8(new) /\ EndingsAreWhole(new) /\ ReplacesInLine(old, new)
    BY <2>1, TextsAssumption, Zenon
  <2>3. Stays(old, new, prefix, suffix) BY <1>1, Zenon DEF IInv
  <2>4. LongestStart(old, new, prefix) /\ LongestEnd(old, new, prefix, suffix) BY <1>1, Zenon DEF Longest
  <2>5. /\ Between(old, prefix) /\ Between(old, Len(old) - suffix)
        /\ Between(new, prefix) /\ Between(new, Len(new) - suffix)
    BY <1>1, Zenon DEF EditKeepsCharacters
  <2> QED BY <2>2, <2>3, <2>4, <2>5, ClientPutsTogether, Zenon DEF NewText
<1> QED BY SpecIInv, SpecLongest, SpecMade, EditsKeepCharacters, <1>1, PTL
===============================================================================
