------------------------------ MODULE SetContains ------------------------------
(***************************************************************************)
(* set_contains (tree_sitter/parser.h): whether a character is in a set,   *)
(* by binary search in the set's ranges. The generated lexer looks up the  *)
(* characters of tags in this way.                                         *)
(***************************************************************************)
EXTENDS Integers

CONSTANTS
  len,       \* the number of ranges
  ranges,    \* from 0 to len - 1
  lookahead  \* the character

VARIABLES index, size, result

vars == <<index, size, result>>

Covers(i) == ranges[i].start <= lookahead /\ lookahead <= ranges[i].end

Init == index = 0 /\ size = len /\ result = "none"

Half == size \div 2
Mid == index + Half

Halve ==
  /\ result = "none" /\ size > 1
  /\ IF Covers(Mid)
       THEN result' = "contained" /\ UNCHANGED <<index, size>>
       ELSE /\ index' = IF lookahead > ranges[Mid].end THEN Mid ELSE index
            /\ size' = size - Half
            /\ UNCHANGED result

CheckLast ==
  /\ result = "none" /\ size <= 1
  /\ result' = IF Covers(index) THEN "contained" ELSE "missing"
  /\ UNCHANGED <<index, size>>

Spec == Init /\ [][Halve \/ CheckLast]_vars

-------------------------------------------------------------------------------
(* The ranges of a set are in order and do not overlap.                    *)
InOrder ==
  /\ len \in Nat \ {0}
  /\ ranges \in [0..(len - 1) -> [start : Int, end : Int]]
  /\ lookahead \in Int
  /\ \A i \in 0..(len - 1) : ranges[i].start <= ranges[i].end
  /\ \A i, j \in 0..(len - 1) : i < j => ranges[i].end < ranges[j].start

(* The search finds the character exactly if it is in one of the ranges.   *)
Contained == \E i \in 0..(len - 1) : Covers(i)
FindsWhatIsThere == result # "none" => (result = "contained" <=> Contained)

(* It comes to an end: each step that does not answer leaves fewer ranges. *)
Narrows == [][result' # "none" \/ (0 < size' /\ size' < size)]_vars
===============================================================================
