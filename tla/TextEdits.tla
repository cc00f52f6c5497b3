------------------------------- MODULE TextEdits -------------------------------
(***************************************************************************)
(* How klog-ls turns the new text of a file into an edit for the client    *)
(* (minimalEdit in document.go), and how it converts between offsets in    *)
(* bytes, which it uses itself, and the lines and UTF-16 units of LSP. A   *)
(* text is a sequence of bytes in UTF-8.                                   *)
(***************************************************************************)
EXTENDS Integers, SequencesExt

CONSTANTS
  Texts,       \* the texts of files
  NewTexts(_)  \* what klog's reconcilers may make of a text

Byte == 0..255
LF == 10
CR == 13

(* utf8.RuneStart, and the length of the character that a byte starts. *)
RuneStart(b) == b \notin 128..191
Width(b) == IF b < 128 THEN 1 ELSE IF b < 224 THEN 2 ELSE IF b < 240 THEN 3 ELSE 4

(* Every byte belongs to a character, which is there as a whole. *)
Utf8(text) ==
  \A i \in 1..Len(text) : \E start \in 1..i :
    LET end == start + Width(text[start]) - 1 IN
    /\ RuneStart(text[start])
    /\ i <= end /\ end <= Len(text)
    /\ \A j \in (start + 1)..end : ~RuneStart(text[j])

(* No character goes on over k. *)
Between(text, k) == k \in 1..(Len(text) - 1) => RuneStart(text[k + 1])

(* A carriage return is there for a line feed only. *)
EndingsAreWhole(text) == \A i \in 1..Len(text) : text[i] = CR => i < Len(text) /\ text[i + 1] = LF

(* Of a text a stretch is replaced, within a line or empty. The rest stays.*)
ReplacesInLine(text, made) ==
  \E from, to \in 0..Len(text) :
    LET rest == Len(text) - to IN
    /\ from <= to /\ from + rest <= Len(made)
    /\ Between(text, from) /\ Between(text, to)
    /\ \A i \in (from + 1)..to : text[i] \notin {CR, LF}
    /\ \A i \in 1..from : made[i] = text[i]
    /\ \A i \in 1..rest : made[Len(made) - rest + i] = text[to + i]

ASSUME TextsAssumption ==
  \A text \in Texts :
    /\ text \in Seq(Byte) /\ Utf8(text) /\ EndingsAreWhole(text)
    /\ \A made \in NewTexts(text) :
         made \in Seq(Byte) /\ Utf8(made) /\ EndingsAreWhole(made) /\ ReplacesInLine(text, made)

VARIABLES
  old, new,        \* the text of the document, and the one it is to have
  prefix, suffix,  \* how many bytes at the start and at the end stay
  at               \* where minimalEdit is

vars == <<old, new, prefix, suffix, at>>

Init ==
  /\ old \in Texts
  /\ new = old
  /\ prefix = 0 /\ suffix = 0
  /\ at = "request"

(* reconcile *)
Reconcile ==
  /\ at = "request"
  /\ new' \in NewTexts(old)
  /\ at' = "prefix"
  /\ UNCHANGED <<old, prefix, suffix>>

-------------------------------------------------------------------------------
(* minimalEdit, one step for each round of a loop and each end of one.     *)

SamePrefix == prefix < Len(old) /\ prefix < Len(new) /\ old[prefix + 1] = new[prefix + 1]

GrowPrefix ==
  /\ at = "prefix"
  /\ IF SamePrefix
       THEN prefix' = prefix + 1 /\ UNCHANGED at
       ELSE at' = "whole prefix" /\ UNCHANGED prefix
  /\ UNCHANGED <<old, new, suffix>>

\* Variant: a character may be cut.
PrefixMayCut == FALSE
PrefixCuts == prefix > 0 /\ prefix < Len(old) /\ ~RuneStart(old[prefix + 1])

ShrinkPrefix ==
  /\ at = "whole prefix"
  /\ IF PrefixCuts
       THEN prefix' = prefix - 1 /\ UNCHANGED at
       ELSE at' = "suffix" /\ UNCHANGED prefix
  /\ UNCHANGED <<old, new, suffix>>

\* Variant: prefix and suffix may overlap.
SuffixMayOverlap == suffix < Len(old) /\ suffix < Len(new) /\ old[Len(old) - suffix] = new[Len(new) - suffix]
SameSuffix ==
  /\ suffix < Len(old) - prefix /\ suffix < Len(new) - prefix
  /\ old[Len(old) - suffix] = new[Len(new) - suffix]

GrowSuffix ==
  /\ at = "suffix"
  /\ IF SameSuffix
       THEN suffix' = suffix + 1 /\ UNCHANGED at
       ELSE at' = "whole suffix" /\ UNCHANGED suffix
  /\ UNCHANGED <<old, new, prefix>>

SuffixCuts == suffix > 0 /\ ~RuneStart(old[Len(old) - suffix + 1])

\* Variant: the whole suffix is given up when it cuts a character.
GiveUpSuffix ==
  /\ at = "whole suffix"
  /\ suffix' = IF SuffixCuts THEN 0 ELSE suffix
  /\ at' = "edit"
  /\ UNCHANGED <<old, new, prefix>>

ShrinkSuffix ==
  /\ at = "whole suffix"
  /\ IF SuffixCuts
       THEN suffix' = suffix - 1 /\ UNCHANGED at
       ELSE at' = "edit" /\ UNCHANGED suffix
  /\ UNCHANGED <<old, new, prefix>>

MinimalEdit == GrowPrefix \/ ShrinkPrefix \/ GrowSuffix \/ ShrinkSuffix

(* The edit is sent to the client, and this is the end of the request. *)
Send == at = "edit" /\ UNCHANGED vars

Next == Reconcile \/ MinimalEdit \/ Send

Spec == Init /\ [][Next]_vars

-------------------------------------------------------------------------------
(* Between bytes and UTF-16. A slice of a text is given by two offsets.    *)

(* utf16.RuneLen of the character that starts with a byte, in a slice that *)
(* ends at `to'. Each byte of a character that is cut counts as an error.  *)
UnitsOf(text, i, to) ==
  LET start == Max({j \in 1..i : RuneStart(text[j])}) IN
  IF start + Width(text[start]) - 1 > to THEN 1
  ELSE IF i # start THEN 0
  ELSE IF Width(text[i]) = 4 THEN 2 ELSE 1

(* Their sum, as how many bytes add one unit or more, and how many two.    *)
Units(text, bytes, to) ==
  Cardinality({i \in bytes : UnitsOf(text, i, to) >= 1}) + Cardinality({i \in bytes : UnitsOf(text, i, to) >= 2})

Utf16Len(text, from, to) == Units(text, (from + 1)..to, to)

Runes(text, from, to) == {k \in from..(to - 1) : RuneStart(text[k + 1])}

\* Variant: characters are counted, not units.
RunesToByte(text, from, to, units) ==
  Min({k \in Runes(text, from, to) : Cardinality(Runes(text, from, k)) >= units} \union {to})

Utf16ToByte(text, from, to, units) ==
  Min({k \in Runes(text, from, to) : Utf16Len(text, from, k) >= units} \union {to})

RunesToUtf16(text, from, to, runes) ==
  Units(text, {k + 1 : k \in {l \in Runes(text, from, to) : Cardinality(Runes(text, from, l)) < runes}}, to)

(* Where lines start, and where they end, without their line ending. *)
LineStarts(text) == {0} \union {k \in 1..Len(text) : text[k] = LF}
LineEnd(text, start) ==
  LET end == Min({k \in start..(Len(text) - 1) : text[k + 1] = LF} \union {Len(text)}) IN
  IF end > start /\ text[end] = CR THEN end - 1 ELSE end

Place(line, character) == [line |-> line, character |-> character]

\* Variant: a line break counts as a character of the next line.
PositionFromBreak(text, offset) ==
  LET starts == {k \in LineStarts(text) : k <= offset} IN
  Place(Cardinality(starts) - 1, Utf16Len(text, IF Max(starts) = 0 THEN 0 ELSE Max(starts) - 1, offset))

Position(text, offset) ==
  LET starts == {k \in LineStarts(text) : k <= offset} IN
  Place(Cardinality(starts) - 1, Utf16Len(text, Max(starts), offset))

Offset(text, p) ==
  LET starts == {k \in LineStarts(text) : Cardinality({l \in LineStarts(text) : l < k}) = p.line} IN
  IF starts = {} THEN Len(text)
  ELSE LET start == Max(starts) IN Utf16ToByte(text, start, LineEnd(text, start), p.character)

NewText == SubSeq(new, prefix + 1, Len(new) - suffix)

-------------------------------------------------------------------------------
(* The client, as LSP has it: its text is a sequence of UTF-16 units, and  *)
(* a position beyond the end of a line means the end of the line.          *)

CodeUnits(text, i) ==
  LET char == SubSeq(text, i, Min({i + Width(text[i]) - 1, Len(text)})) IN
  IF ~RuneStart(text[i]) THEN <<>>
  ELSE IF Width(text[i]) = 4 THEN <<<<char, "high">>, <<char, "low">>>>
  ELSE <<<<char, "whole">>>>
Utf16(text) == FlattenSeq([i \in 1..Len(text) |-> CodeUnits(text, i)])

Index(units, p) ==
  LET Is(k, c) == units[k] = <<<<c>>, "whole">>
      starts == {0} \union {k \in 1..Len(units) : Is(k, LF)}
      start == CHOOSE s \in starts : Cardinality({l \in starts : l < s}) = p.line
      ends == {k \in (start + 1)..Len(units) : Is(k, LF) \/ (Is(k, CR) /\ k < Len(units) /\ Is(k + 1, LF))}
  IN Min({start + p.character, Min({k - 1 : k \in ends} \union {Len(units)})})

Applied(units, from, to, text) ==
  SubSeq(units, 1, Index(units, from)) \o Utf16(text) \o SubSeq(units, Index(units, to) + 1, Len(units))

-------------------------------------------------------------------------------
(* The variables have their types, and the parts of a text that stay never *)
(* overlap in the other.                                                   *)
TypeOK ==
  /\ old \in Seq(Byte) /\ new \in Seq(Byte)
  /\ prefix \in Nat /\ suffix \in Nat
  /\ prefix + suffix <= Len(old) /\ prefix + suffix <= Len(new)
  /\ at \in {"request", "prefix", "whole prefix", "suffix", "whole suffix", "edit"}

(* With the bytes of the edit replaced, the text is the new one.           *)
EditGivesNewText ==
  at = "edit" =>
    new = SubSeq(old, 1, prefix) \o NewText \o SubSeq(old, Len(old) - suffix + 1, Len(old))

(* The edit cuts no character, in the text that it changes or in the one   *)
(* that it puts there, even if only some of the bytes of a character       *)
(* differ: what Go sends and what the client replaces is valid text.       *)
EditKeepsCharacters ==
  at = "edit" =>
    /\ Between(old, prefix) /\ Between(old, Len(old) - suffix)
    /\ Between(new, prefix) /\ Between(new, Len(new) - suffix)

(* "Touching as little of the text as possible": of all edits that cut no  *)
(* character and give the new text, none leaves more of the text alone.    *)
Stay(p, s) ==
  /\ p + s <= Len(old) /\ p + s <= Len(new)
  /\ Between(old, p) /\ Between(old, Len(old) - s)
  /\ SubSeq(old, 1, p) = SubSeq(new, 1, p)
  /\ SubSeq(old, Len(old) - s + 1, Len(old)) = SubSeq(new, Len(new) - s + 1, Len(new))
EditIsMinimal ==
  at = "edit" => \A p \in 0..Len(old), s \in 0..Len(old) : Stay(p, s) => p + s <= prefix + suffix

(* "A single edit that turns the document's text into newText": the client *)
(* gets just this text, though it counts in UTF-16 units and takes no      *)
(* position between a carriage return and its line feed.                   *)
ClientGetsNewText ==
  at = "edit" =>
    Applied(Utf16(old), Position(old, prefix), Position(old, Len(old) - suffix), NewText) = Utf16(new)

(* The conversions agree with each other: an offset converted there and    *)
(* back is the same, runes and UTF-16 count the same characters, and any   *)
(* position that a client may send, in the middle of a character or beyond *)
(* the end of the line or of the text, is between two characters of the    *)
(* text: that very position, after the character it is in the middle of,   *)
(* or the end.                                                             *)
ConversionsAgree ==
  at = "request" =>
    /\ \A start \in LineStarts(old) :
         \A k \in Runes(old, start, LineEnd(old, start)) \union {LineEnd(old, start)} :
           /\ Offset(old, Position(old, k)) = k
           /\ RunesToUtf16(old, start, LineEnd(old, start), Cardinality(Runes(old, start, k)))
                = Position(old, k).character
    /\ \A line, character \in 0..(Len(old) + 1) :
         LET k == Offset(old, Place(line, character)) IN
         /\ k <= Len(old) /\ Between(old, k)
         /\ \/ Position(old, k).character \in {character, character + 1}
            \/ k \in {LineEnd(old, start) : start \in LineStarts(old)} \union {Len(old)}
===============================================================================
