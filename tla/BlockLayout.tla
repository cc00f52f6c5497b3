------------------------------ MODULE BlockLayout ------------------------------
(***************************************************************************)
(* How klog-ls finds the lines of entries, document.parseBlock of          *)
(* klog-ls/document.go, line by line: a block is a run of lines without a  *)
(* blank one. klog's own parser, which parseBlock calls first, is outside  *)
(* of the repository; `accepted` is what its rules about lines say.        *)
(***************************************************************************)
EXTENDS Naturals

Style(char, width) == [char |-> char, width |-> width]
NoIndentator == Style("none", 0)

VARIABLES
  indentator,  \* the indentation style, as in parseBlock
  entries,     \* how many entries the block has so far
  role,        \* what the last line is
  accepted     \* klog can accept the block up to that line

blockVars == <<indentator, entries, role, accepted>>

Init ==
  /\ indentator = NoIndentator
  /\ entries = 0
  /\ role = "none"
  /\ accepted = FALSE

(* klog's styles are four, three or two spaces, or a tab; the first of     *)
(* them that the line starts with is taken.                                *)
Indented(l, ind, times) == l.char = ind.char /\ l.run >= times * ind.width

Indentator(l) ==
  IF Indented(l, Style("space", 4), 1) THEN Style("space", 4)
  ELSE IF Indented(l, Style("space", 3), 1) THEN Style("space", 3)
  ELSE IF Indented(l, Style("space", 2), 1) THEN Style("space", 2)
  ELSE IF Indented(l, Style("tab", 1), 1) THEN Style("tab", 1)
  ELSE NoIndentator

StartsBlock(l) ==
  /\ indentator' = NoIndentator
  /\ entries' = 0
  /\ IF l.kind = "end"
       THEN role' = "none" /\ accepted' = FALSE
       ELSE role' = "header" /\ accepted' = (l.kind = "date" /\ l.dated = "no" /\ l.char = "none")

(* Until a line is indented, lines are the record's summary, and must not  *)
(* start with a blank. Then each line is an entry, or is indented twice.   *)
ContinuesBlock(l) ==
  LET ind == IF indentator = NoIndentator THEN Indentator(l) ELSE indentator IN
  /\ indentator' = ind
  /\ IF ind = NoIndentator
       THEN /\ role' = "summary"
            /\ accepted' = (accepted /\ l.char = "none")
            /\ UNCHANGED entries
     ELSE IF entries > 0 /\ Indented(l, ind, 2)
       THEN role' = "continuation" /\ UNCHANGED <<entries, accepted>>
       ELSE /\ role' = "entry"
            /\ entries' = entries + 1
            /\ accepted' = (accepted /\ Indented(l, ind, 1) /\ l.kind = "value")

Reads(l) == IF l.gap \/ role = "none" THEN StartsBlock(l) ELSE ContinuesBlock(l)
===============================================================================
