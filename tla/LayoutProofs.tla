------------------------------ MODULE LayoutProofs ------------------------------
(***************************************************************************)
(* The scanner and the language server agree, for every width of an        *)
(* indentation and any number of entries, about every record that klog     *)
(* accepts and that the parser does not cut in the middle of a line.       *)
(***************************************************************************)
EXTENDS Layout, TLAPS

(* A record that klog accepts and that is whole so far has left no trace of*)
(* what was before it: before its first entry both styles are unknown, and *)
(* from then on they are the same. The parser follows, unless it still     *)
(* recovers.                                                               *)
BeforeEntries ==
  /\ style = NoStyle
  /\ indentator = NoStyle
  /\ entries = 0
  /\ at \in {"header", "summary", "error"}

AmongEntries ==
  /\ style = indentator
  /\ style # NoStyle
  /\ entries > 0
  /\ token = role
  /\ at \in {"entry", "error"}

InStep ==
  /\ token = "none" => style = NoStyle
  /\ accepted /\ whole =>
       \/ role \in {"header", "summary"} /\ BeforeEntries
       \/ role \in {"entry", "continuation"} /\ AmongEntries

LayoutInv == LayoutTypeOK /\ InStep

(* A line that klog accepts is not where the parser runs into an error.    *)
Follows == accepted' /\ whole' /\ at # "error" => at' # "error"

-------------------------------------------------------------------------------
(* The first indented line of a record that klog accepts gives both the    *)
(* same style.                                                             *)
LEMMA SameStyle ==
  ASSUME NEW l \in Line, Block!Indentator(l) # NoStyle
  PROVE  /\ Style(l.char, Width(l)) = Block!Indentator(l)
         /\ l.char # NoIndent
BY DEF Line, Chars, Kinds, NoIndent, NoStyle, Style, Width,
       Block!Indentator, Block!Indented, Block!Style, Block!NoIndentator

LEMMA Widths ==
  ASSUME NEW l \in Line, l.char # NoIndent
  PROVE  Style(l.char, Width(l)) \in [char : {"space", "tab"}, width : 1..4]
BY ScannerAssumption DEF Line, Chars, NoIndent, Style, Width

(* What the scanner makes of a line; the parser takes nothing else.        *)
LEMMA TokenOfGap ==
  ASSUME NEW l \in Line, l.gap
  PROVE  Token(l) = "separator"
BY DEF Token, LooksLike

LEMMA TokenType ==
  ASSUME NEW l \in Line
  PROVE  Token(l) \in Tokens
BY DEF Token, LooksLike, Tokens

LEMMA TokenOfIndented ==
  ASSUME NEW l \in Line, Token(l) \notin {"line", "separator"}
  PROVE  l.char # NoIndent
BY DEF Token, LooksLike

LEMMA ParsedType ==
  ASSUME NEW l \in Line, NEW t \in Tokens
  PROVE  Parsed(l, t) \in Places
<1>1. InRecord[t] \in Places
  BY DEF Tokens, InRecord, Places
<1> QED
  BY <1>1 DEF Parsed, Places

LEMMA ParsesType ==
  ASSUME NEW l \in Line, NEW t \in Tokens, Parses(l, t)
  PROVE  at' \in Places
BY ParsedType DEF Parses

LEMMA ScanType ==
  ASSUME LayoutTypeOK, NEW l \in Line, Scan(l)
  PROVE  /\ style' \in {NoStyle} \union [char : {"space", "tab"}, width : 1..4]
         /\ token' \in Tokens
         /\ at' \in Places
<1>1. token' \in Tokens
  BY TokenType DEF Scan
<1>2. at' \in Places
  BY <1>1, ParsesType DEF Scan
<1>3. style' \in {NoStyle} \union [char : {"space", "tab"}, width : 1..4]
  <2>1. CASE token' \in {"line", "separator"}
    BY <2>1 DEF Scan, StyleAfter
  <2>2. CASE token' \notin {"line", "separator"}
    BY <2>2, Widths, TokenOfIndented DEF Scan, StyleAfter, LayoutTypeOK
  <2> QED
    BY <2>1, <2>2
<1> QED
  BY <1>1, <1>2, <1>3

LEMMA InitInv == LayoutInit => LayoutInv
<1> SUFFICES ASSUME LayoutInit PROVE LayoutInv
  OBVIOUS
<1>1. accepted \in BOOLEAN /\ ~accepted
  BY Zenon DEF LayoutInit, Block!Init
<1>2. LayoutTypeOK
  BY <1>1, LayoutAssumption
  DEF LayoutTypeOK, LayoutInit, Init, Block!Init, Block!NoIndentator, Block!Style,
      NoStyle, NoIndent, Style, Places
<1>3. InStep
  BY <1>1 DEF InStep, LayoutInit, Init
<1> QED
  BY <1>2, <1>3 DEF LayoutInv

-------------------------------------------------------------------------------
(* A new block starts with a separator, or at the start of the file.       *)
LEMMA StartKeepsInv ==
  ASSUME LayoutInv, NEW l \in Line, ReadsFirst(l) \/ ReadsNext(l),
         entries' <= MaxEntries, Block!StartsBlock(l), l.gap \/ role = "none"
  PROVE  LayoutInv' /\ Follows
<1>1. /\ indentator' = NoStyle
      /\ entries' = 0
      /\ role' \in {"none", "header"}
      /\ role' = "none" => ~accepted'
  BY DEF Block!StartsBlock, Block!NoIndentator, Block!Style, NoStyle, NoIndent, Style
<1>2. accepted' \in BOOLEAN
  BY Zenon DEF Block!StartsBlock
<1>3. accepted' => l.kind = "date" /\ l.dated = "no"
  BY Zenon DEF Block!StartsBlock
<1>4. accepted' => Parsed(l, "separator") = "header"
  BY <1>3 DEF Parsed, Fits, InRecord
<1>5. whole' \in BOOLEAN
  BY Zenon DEF ReadsFirst, ReadsNext, LayoutInv, LayoutTypeOK, TakesAsOne
<1>6. CASE ReadsFirst(l)
  <2>1. /\ style' = style
        /\ token' = token
        /\ token = "none"
        /\ at = "top"
        /\ Parses(l, "separator")
    BY <1>6 DEF ReadsFirst, ParseFirst
  <2>2. LayoutTypeOK'
    BY <1>1, <1>2, <1>5, <2>1, ParsesType, LayoutAssumption DEF LayoutInv, LayoutTypeOK, Tokens
  <2>3. accepted' => at' = "header"
    BY <1>4, <2>1 DEF Parses
  <2>4. InStep'
    BY <1>1, <2>1, <2>3 DEF LayoutInv, InStep, BeforeEntries
  <2> QED
    BY <2>2, <2>3, <2>4 DEF LayoutInv, Follows
<1>7. CASE ReadsNext(l)
  <2>1. l.gap /\ Scan(l)
    BY <1>7 DEF ReadsNext
  <2>2. token' = "separator" /\ style' = NoStyle
    BY <2>1, TokenOfGap DEF Scan, StyleAfter
  <2>3. accepted' /\ whole' => at' = "header" \/ (at = "error" /\ at' = "error")
    BY <1>4, <1>7, <2>1, <2>2 DEF Scan, Parses, ReadsNext, TakesAsOne
  <2>4. LayoutTypeOK'
    BY <1>1, <1>2, <1>5, <2>1, ScanType, LayoutAssumption DEF LayoutInv, LayoutTypeOK
  <2>5. InStep'
    BY <1>1, <2>2, <2>3 DEF InStep, BeforeEntries
  <2> QED
    BY <2>3, <2>4, <2>5 DEF LayoutInv, Follows
<1> QED
  BY <1>6, <1>7

-------------------------------------------------------------------------------
(* The next line of a block is a summary line for both, ...                *)
LEMMA SummaryLine ==
  ASSUME BeforeEntries, NEW l \in Line, ~l.gap, Scan(l), TakesAsOne(l, token'),
         l.char = NoIndent
  PROVE  /\ style' = NoStyle
         /\ at' \in {"header", "summary", "error"}
         /\ at # "error" => at' # "error"
<1>1. LooksLike(l) = "line"
  BY DEF LooksLike
<1>2. l.kind # "end"
  BY DEF Line
<1>3. token' = "line" \/ (token' = "separator" /\ at = "error")
  <2>1. CASE at = "error"
    BY <1>1, <2>1 DEF Scan, Token, LooksLikeDate
  <2>2. CASE at \in {"header", "summary"}
    <3>1. "line" \in Valid
      BY <2>2 DEF Valid
    <3> QED
      BY <1>1, <2>2, <3>1 DEF Scan, Token, LooksLikeDate
  <2> QED
    BY <2>1, <2>2 DEF BeforeEntries
<1> QED
  BY <1>2, <1>3
  DEF Scan, StyleAfter, Parses, Parsed, TakesAsOne, Fits, InRecord, BeforeEntries

(* ... or the first entry of the record, ...                               *)
LEMMA FirstEntry ==
  ASSUME BeforeEntries, NEW l \in Line, ~l.gap, Scan(l), TakesAsOne(l, token'),
         Block!Indentator(l) # NoStyle, l.kind = "value"
  PROVE  /\ style' = Block!Indentator(l)
         /\ token' = "entry"
         /\ at' \in {"entry", "error"}
         /\ at # "error" => at' # "error"
<1>1. l.char # NoIndent /\ Style(l.char, Width(l)) = Block!Indentator(l)
  BY SameStyle
<1>2. LooksLike(l) = "entry"
  BY <1>1 DEF LooksLike, BeforeEntries, NoStyle, Style
<1>3. token' = "entry"
  BY <1>2 DEF Scan, Token, Valid, BeforeEntries
<1> QED
  BY <1>1, <1>3
  DEF Scan, StyleAfter, Parses, Parsed, TakesAsOne, Fits, InRecord, BeforeEntries

(* ... or another one, or a line of its summary.                           *)
LEMMA LaterLine ==
  ASSUME LayoutTypeOK, AmongEntries, NEW l \in Line, ~l.gap, Scan(l),
         TakesAsOne(l, token'),
         l.char = style.char,
         l.kind = "value" \/ l.run >= 2 * style.width
  PROVE  /\ style' = style
         /\ token' = IF l.run >= 2 * style.width THEN "continuation" ELSE "entry"
         /\ at' \in {"entry", "error"}
         /\ at # "error" => at' # "error"
<1>1. style.char # NoIndent
  BY DEF LayoutTypeOK, AmongEntries, NoIndent
<1>2. LooksLike(l) = IF l.run >= 2 * style.width THEN "continuation" ELSE "entry"
  BY <1>1 DEF LooksLike, IndentedTwice
<1>3. token' = LooksLike(l)
  BY <1>2 DEF Scan, Token, Valid, AmongEntries
<1> QED
  BY <1>2, <1>3
  DEF Scan, StyleAfter, Parses, Parsed, TakesAsOne, Fits, InRecord, AmongEntries

LEMMA ContinueKeepsInv ==
  ASSUME LayoutInv, NEW l \in Line, ~l.gap, role # "none", ReadsNext(l),
         entries' <= MaxEntries, Block!ContinuesBlock(l)
  PROVE  LayoutInv' /\ Follows
<1> DEFINE ind == IF indentator = NoStyle THEN Block!Indentator(l) ELSE indentator
<1> USE DEF LayoutInv
<1>0. Scan(l) /\ (whole' = (whole /\ TakesAsOne(l, token')))
  BY Zenon DEF ReadsNext
<1>1. Block!NoIndentator = NoStyle
  BY DEF Block!NoIndentator, Block!Style, NoStyle, NoIndent, Style
<1>2. indentator' = ind
  BY <1>1 DEF Block!ContinuesBlock
<1>3. Block!Indentator(l) \in {NoStyle, Style("tab", 1)} \union {Style("space", w) : w \in 2..4}
  BY <1>1 DEF Block!Indentator, Block!Style, Style
<1>4. /\ entries' \in Nat
      /\ role' \in {"summary", "entry", "continuation"}
  BY LayoutAssumption DEF Block!ContinuesBlock, LayoutTypeOK
<1>5. accepted' \in BOOLEAN /\ (accepted' => accepted)
  BY Zenon DEF Block!ContinuesBlock, LayoutTypeOK
<1>6. whole' \in BOOLEAN /\ (whole' => whole /\ TakesAsOne(l, token'))
  BY <1>0, Zenon DEF LayoutTypeOK, TakesAsOne
<1>7. LayoutTypeOK'
  BY <1>0, <1>2, <1>3, <1>4, <1>5, <1>6, ScanType, LayoutAssumption DEF LayoutTypeOK
<1>8. /\ ind = NoStyle => role' = "summary" /\ entries' = entries
      /\ ind # NoStyle /\ entries > 0 /\ Block!Indented(l, ind, 2) => role' = "continuation"
      /\ ind # NoStyle /\ ~(entries > 0 /\ Block!Indented(l, ind, 2)) =>
           role' = "entry" /\ entries' = entries + 1
      /\ entries' = entries \/ entries' = entries + 1
  BY <1>1, Zenon DEF Block!ContinuesBlock
<1>9. ASSUME accepted', whole'
      PROVE  /\ \/ role' \in {"header", "summary"} /\ BeforeEntries'
                \/ role' \in {"entry", "continuation"} /\ AmongEntries'
             /\ at # "error" => at' # "error"
  <2>1. BeforeEntries \/ AmongEntries
    BY <1>5, <1>6, <1>9, Zenon DEF InStep
  <2>2. /\ ind = NoStyle => l.char = "none"
        /\ ind # NoStyle /\ ~(entries > 0 /\ Block!Indented(l, ind, 2)) =>
             Block!Indented(l, ind, 1) /\ l.kind = "value"
    BY <1>1, <1>9, Zenon DEF Block!ContinuesBlock
  <2>3. CASE BeforeEntries /\ ind = NoStyle
    BY <1>0, <1>2, <1>6, <1>8, <1>9, <2>2, <2>3, SummaryLine DEF BeforeEntries, NoIndent
  <2>4. CASE BeforeEntries /\ ind # NoStyle
    <3>1. role' = "entry" /\ entries' = 1 /\ l.kind = "value"
      BY <1>8, <2>2, <2>4 DEF BeforeEntries
    <3>2. ind = Block!Indentator(l)
      BY <2>4 DEF BeforeEntries
    <3> QED
      BY <1>0, <1>2, <1>6, <1>9, <2>4, <3>1, <3>2, FirstEntry DEF AmongEntries
  <2>5. CASE AmongEntries
    <3>1. ind = style /\ style # NoStyle /\ entries > 0 /\ entries' > 0
      BY <1>8, <2>5 DEF AmongEntries, LayoutTypeOK
    <3>2. /\ l.char = style.char
          /\ l.kind = "value" \/ l.run >= 2 * style.width
          /\ role' = IF l.run >= 2 * style.width THEN "continuation" ELSE "entry"
      BY <1>8, <2>2, <3>1 DEF Block!Indented
    <3> QED
      BY <1>0, <1>2, <1>6, <1>9, <2>5, <3>1, <3>2, LaterLine DEF AmongEntries
  <2> QED
    BY <2>1, <2>3, <2>4, <2>5
<1>10. token' # "none"
  BY <1>0, TokenType DEF Scan, Tokens
<1> QED
  BY <1>7, <1>9, <1>10 DEF InStep, Follows

LEMMA NextInv ==
  LayoutInv /\ [ReadsLine]_layoutVars => LayoutInv' /\ [Follows]_layoutVars
<1> SUFFICES ASSUME LayoutInv, [ReadsLine]_layoutVars
             PROVE  LayoutInv' /\ [Follows]_layoutVars
  OBVIOUS
<1>1. CASE ReadsLine
  <2>1. PICK l \in Line : (ReadsFirst(l) \/ ReadsNext(l)) /\ entries' <= MaxEntries
    BY <1>1 DEF ReadsLine
  <2>2. CASE l.gap \/ role = "none"
    BY <2>1, <2>2, StartKeepsInv DEF ReadsFirst, ReadsNext, Block!Reads
  <2>3. CASE ~l.gap /\ role # "none"
    BY <2>1, <2>3, ContinueKeepsInv DEF ReadsFirst, ReadsNext, Block!Reads
  <2> QED
    BY <2>2, <2>3
<1>2. CASE UNCHANGED layoutVars
  BY <1>2 DEF layoutVars, scannerVars, Block!blockVars, LayoutInv, LayoutTypeOK,
              InStep, BeforeEntries, AmongEntries
<1> QED
  BY <1>1, <1>2

-------------------------------------------------------------------------------
LEMMA SpecInv == LayoutSpec => []LayoutInv
BY InitInv, NextInv, PTL DEF LayoutSpec

(* Whatever the widths of the indentations, highlighting and language      *)
(* server agree on the entries of every record that klog accepts and that  *)
(* the parser does not cut in the middle of a line, whatever was before it.*)
THEOREM LayoutEntriesAgree == LayoutSpec => []EntriesAgree
<1>1. LayoutInv => EntriesAgree
  BY DEF LayoutInv, InStep, AmongEntries, EntriesAgree
<1> QED
  BY <1>1, SpecInv, PTL

(* Both parsers keep to their types.                                       *)
THEOREM LayoutTypes == LayoutSpec => []LayoutTypeOK
<1>1. LayoutInv => LayoutTypeOK
  BY DEF LayoutInv
<1> QED
  BY <1>1, SpecInv, PTL

(* The parser never runs into an error on a line of a record that klog     *)
(* accepts and that it does not cut in the middle of a line.               *)
THEOREM LayoutAcceptedIsParsed == LayoutSpec => AcceptedIsParsed
<1>1. LayoutInv /\ [ReadsLine]_layoutVars => [accepted' /\ whole' /\ at # "error" => at' # "error"]_layoutVars
  BY NextInv DEF Follows
<1> QED
  BY <1>1, SpecInv, PTL DEF LayoutSpec, AcceptedIsParsed
===============================================================================
