-------------------------------- MODULE Scanner --------------------------------
(***************************************************************************)
(* The external scanner of tree-sitter-klog (src/scanner.c), which names   *)
(* each line break after what the next line looks like, and the parser     *)
(* that calls it, as far as grammar.js tells which line breaks it takes.   *)
(* A line is its indentation, and what the rest of it can be parsed as.    *)
(***************************************************************************)
EXTENDS Naturals

CONSTANT MaxRun  \* bound: how often an indentation repeats its character

ASSUME ScannerAssumption == MaxRun \in Nat

NoIndent == "none"
Chars == {NoIndent, "space", "tab"}

(* gap: blank lines, or the end of the file, come between this line and    *)
(* the one before. char, run: how often the first character of the         *)
(* indentation is repeated; what follows the run is not looked at.         *)
(* "almostDate": text that starts like a date. dated: after a value, a tag *)
(* or a "#" a date follows, which the parser takes for the start of another*)
(* record. It is the last thing in the line, but for a should-total or more*)
(* dates, or is followed by text.                                          *)
Kinds == {"date", "value", "text", "almostDate", "end"}
Line ==
  {l \in [gap : BOOLEAN, char : Chars, run : 0..MaxRun, kind : Kinds, dated : {"no", "last", "followed"}] :
     /\ l.char = NoIndent <=> l.run = 0
     /\ l.kind = "end" => l.gap /\ l.dated = "no"}

VARIABLES
  style,  \* the scanner's state: indent_char and indent_width
  token,  \* the last token of the scanner
  at      \* where the parser is: what it has parsed last

scannerVars == <<style, token, at>>

Style(char, width) == [char |-> char, width |-> width]
NoStyle == Style(NoIndent, 0)

Init ==
  /\ style = NoStyle
  /\ token = "none"
  /\ at = "top"

(* The line breaks that the parser takes; in error recovery, all of them.  *)
Tokens == {"line", "entry", "continuation", "separator"}
\* Variant: an entry summary may go on before there is an entry.
ValidOutsideEntries == IF at = "top" THEN {"separator"} ELSE Tokens
Valid ==
  CASE at = "top" -> {"separator"}
    [] at \in {"header", "summary"} -> {"line", "entry", "separator"}
    [] at = "entry" -> {"entry", "continuation", "separator"}
    [] at = "error" -> Tokens

IndentedTwice(l) == l.char = style.char /\ l.run >= 2 * style.width

LooksLike(l) ==
  IF l.gap THEN "separator"
  ELSE IF l.char = NoIndent THEN "line"
  ELSE IF style.char # NoIndent /\ IndentedTwice(l) THEN "continuation"
  ELSE "entry"

LooksLikeDate(l) == l.kind \in {"date", "almostDate"}

(* Variant: an indented line that does not fit ends the record. *)
TokenWithoutEntry(l) ==
  IF at = "error" \/ LooksLike(l) = "continuation" THEN LooksLike(l) ELSE "separator"

Token(l) ==
  LET seen == LooksLike(l)
      once == IF seen = "continuation" /\ seen \notin Valid THEN "entry" ELSE seen
  IN
  IF at = "error"
    THEN IF seen = "line" /\ LooksLikeDate(l) THEN "separator" ELSE seen
    ELSE IF once \in Valid THEN once ELSE "separator"

(* Variants: any number of spaces is one level; the style outlives its     *)
(* record.                                                                 *)
FullWidth(l) == IF l.char = "tab" THEN 1 ELSE l.run
Width(l) == IF l.char = "tab" THEN 1 ELSE IF l.run < 4 THEN l.run ELSE 4

StyleKept(l, t) ==
  IF style = NoStyle /\ t \notin {"line", "separator"} THEN Style(l.char, Width(l)) ELSE style

StyleAfter(l, t) ==
  IF t \in {"line", "separator"} THEN NoStyle
  ELSE IF style = NoStyle THEN Style(l.char, Width(l))
  ELSE style

(* Where the parser is after a line that line break t comes before. A date *)
(* is the start of a record, also in the middle of a line.                 *)
Places == {"top", "header", "summary", "entry", "error"}
InRecord == [line |-> "summary", entry |-> "entry", continuation |-> "entry", separator |-> "header"]
Fits(l, t) ==
  /\ t = "entry" => l.kind = "value"
  /\ t = "separator" => l.kind = "date"

(* Variant: a date in a line is text. *)
ParsedAsText(l, t) ==
  IF t = "separator" /\ l.kind = "end" THEN "top" ELSE IF Fits(l, t) THEN InRecord[t] ELSE "error"

Parsed(l, t) ==
  CASE t = "separator" /\ l.kind = "end" -> "top"
    [] Fits(l, t) /\ l.dated = "no" -> InRecord[t]
    [] Fits(l, t) /\ l.dated = "last" -> "header"
    [] OTHER -> "error"

(* From an error on it is tree-sitter's choice where to parse on: it may   *)
(* find the start of anything in the middle of the line, or nothing.       *)
Parses(l, t) ==
  \/ at' = Parsed(l, t)
  \/ "error" \in {at, Parsed(l, t)} /\ at' \in Places

Scan(l) ==
  /\ token' = Token(l)
  /\ style' = StyleAfter(l, token')
  /\ Parses(l, token')

(* The first line of a file has no line break before it. *)
ParseFirst(l) ==
  /\ ~l.gap
  /\ Parses(l, "separator")
  /\ UNCHANGED <<style, token>>
===============================================================================
