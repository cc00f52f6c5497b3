-------------------------------- MODULE Layout --------------------------------
(***************************************************************************)
(* The same file in the tree-sitter parser, which highlights it, and in    *)
(* the language server, which places hints and edits: both find out where  *)
(* entries start, one with scanner.c and one with klog's parser.           *)
(***************************************************************************)
EXTENDS Scanner

CONSTANT MaxEntries  \* bound: how many entries a record has

ASSUME LayoutAssumption == MaxEntries \in Nat

VARIABLES
  indentator, entries, role, accepted,  \* see BlockLayout
  whole  \* history: in none of the block's lines so far the parser has found another record or summary

Block == INSTANCE BlockLayout

layoutVars == <<scannerVars, Block!blockVars, whole>>

LayoutInit == Init /\ Block!Init /\ whole = TRUE

(* The parser takes the line as one, after line break t, if it takes it.   *)
TakesAsOne(l, t) == l.dated = "no" /\ at' \in {Parsed(l, t), "error"}

ReadsFirst(l) ==
  /\ role = "none" /\ at = "top" /\ token = "none"
  /\ ParseFirst(l)
  /\ Block!Reads(l)
  /\ whole' = TakesAsOne(l, "separator")

ReadsNext(l) ==
  /\ role # "none" \/ (token = "none" /\ l.gap)
  /\ Scan(l)
  /\ Block!Reads(l)
  /\ whole' = ((l.gap \/ whole) /\ TakesAsOne(l, token'))

ReadsLine == \E l \in Line : (ReadsFirst(l) \/ ReadsNext(l)) /\ entries' <= MaxEntries

LayoutSpec == LayoutInit /\ [][ReadsLine]_layoutVars

-------------------------------------------------------------------------------
(* The variables of both parsers have their types. *)
LayoutTypeOK ==
  /\ style \in {NoStyle} \union [char : {"space", "tab"}, width : 1..4]
  /\ token \in Tokens \union {"none"}
  /\ at \in Places
  /\ indentator \in {NoStyle, Style("tab", 1)} \union {Style("space", w) : w \in 2..4}
  /\ entries \in 0..MaxEntries
  /\ role \in {"none", "header", "summary", "entry", "continuation"}
  /\ accepted \in BOOLEAN
  /\ whole \in BOOLEAN

(* In a record that klog accepts, the highlighting and the language server *)
(* agree on which lines are entries and which continue a summary, even     *)
(* while the parser recovers from an error in an earlier record. The       *)
(* exception are records that the parser cuts in the middle of a line: at a*)
(* date in a summary, or to parse on after an error. What was before the   *)
(* record, another one that was cut for instance, makes no difference.     *)
EntriesAgree ==
  accepted /\ whole /\ role \in {"entry", "continuation"} => token = role /\ style = indentator

(* A record that klog accepts and that is not cut is not parsed as an      *)
(* error, unless the error was there before it: no valid indentation is    *)
(* highlighted as invalid.                                                 *)
AcceptedIsParsed == [][accepted' /\ whole' /\ at # "error" => at' # "error"]_layoutVars
===============================================================================
