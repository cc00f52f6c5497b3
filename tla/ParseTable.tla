------------------------------ MODULE ParseTable ------------------------------
(***************************************************************************)
(* The generated parse table of tree-sitter-klog (src/parser.c): what to   *)
(* do in each state on each symbol, which fields the children of a new     *)
(* node get, and how the next token is to be read.                         *)
(***************************************************************************)
EXTENDS Naturals, TLC

LOCAL On(symbols, action) == [s \in symbols |-> action]

Shift(to) == [type |-> "shift", to |-> to]
Goto(to) == [type |-> "goto", to |-> to]
Accept == [type |-> "accept"]

(* An entry may have a second action, SHIFT_REPEAT, which stands for an    *)
(* ambiguity that the parser resolves by reducing; it is left out.         *)
Reduce(symbol, count, production) ==
  [type |-> "reduce", symbol |-> symbol, count |-> count, production |-> production]

LineBreaks == {"_line_break", "_entry_break", "_continuation_break", "_record_separator"}
Visible == {"source_file", "record", "should_total", "record_summary", "entry", "entry_summary",
            "range", "open_range", "time", "tag"}
Hidden == {"_summary_line", "source_file_repeat1", "record_repeat1", "record_summary_repeat1",
           "entry_summary_repeat1"}

(* Rows that many states share. *)
RecordEnd == {"_record_separator", "end", "date"}
EntryEnd == RecordEnd \union {"_entry_break"}
HeadLineEnd == EntryEnd \union {"_line_break"}
EntryLineEnd == EntryEnd \union {"_continuation_break"}
InHeadLine == HeadLineEnd \union {"#", "_text"}
InEntryLine == EntryLineEnd \union {"#", "_text"}

Words(tag, word) == "#" :> Shift(tag) @@ "_text" :> Shift(word) @@ On({"_summary_line", "tag"}, Goto(word))
Entries(repeat) == "_entry_break" :> Shift(19) @@ "record_repeat1" :> Goto(repeat)
EntryLines(repeat) == "_continuation_break" :> Shift(42) @@ "entry_summary_repeat1" :> Goto(repeat)
HeadLines(repeat) == "_line_break" :> Shift(43) @@ "record_summary_repeat1" :> Goto(repeat)

-------------------------------------------------------------------------------
StartState ==
  1 :> ("source_file" :> Goto(52) @@ On({"record", "source_file_repeat1"}, Goto(39))
        @@ "end" :> Reduce("source_file", 0, 0) @@ "date" :> Shift(11) @@ "_record_separator" :> Shift(39))

\* The lines of summaries.
SummaryStates ==
     2 :> (Words(13, 4) @@ EntryLines(25) @@ "entry_summary" :> Goto(41) @@ On(EntryEnd, Reduce("entry", 1, 5)))
  @@ 3 :> (Words(10, 6) @@ HeadLines(24) @@ On(EntryEnd, Reduce("record_summary", 1, 0)))
  @@ 4 :> (Words(13, 8) @@ EntryLines(27) @@ On(EntryEnd, Reduce("entry_summary", 1, 0)))
  @@ 5 :> (Words(10, 6) @@ On(HeadLineEnd, Reduce("record_summary_repeat1", 2, 0)))
  @@ 6 :> (On(InHeadLine, Reduce("_summary_line", 2, 0)) @@ On({"_summary_line", "tag"}, Goto(6)))
  @@ 7 :> (Words(13, 8) @@ On(EntryLineEnd, Reduce("entry_summary_repeat1", 2, 0)))
  @@ 8 :> (On(InEntryLine, Reduce("_summary_line", 2, 0)) @@ On({"_summary_line", "tag"}, Goto(8)))

\* Tags, the second time of a range, and what follows the date of a record.
TagStates ==
     9 :> ("tag_value" :> Shift(21) @@ On(InHeadLine, Reduce("tag", 3, 9)))
  @@ 10 :> ("tag_name" :> Shift(12) @@ On(InHeadLine, Reduce("_summary_line", 1, 0)))
  @@ 11 :> ("(" :> Shift(53) @@ "_line_break" :> Shift(40) @@ "should_total" :> Goto(23) @@ Entries(36)
            @@ On(RecordEnd, Reduce("record", 1, 1)))
  @@ 12 :> ("=" :> Shift(9) @@ On(InHeadLine, Reduce("tag", 2, 9)))
  @@ 13 :> ("tag_name" :> Shift(15) @@ On(InEntryLine, Reduce("_summary_line", 1, 0)))
  @@ 14 :> (">" :> Shift(22) @@ On(InEntryLine, Reduce("time", 1, 0)))
  @@ 15 :> ("=" :> Shift(16) @@ On(InEntryLine, Reduce("tag", 2, 9)))
  @@ 16 :> ("tag_value" :> Shift(18) @@ On(InEntryLine, Reduce("tag", 3, 9)))

\* The value of an entry.
EntryStates ==
     17 :> On(InEntryLine, Reduce("open_range", 3, 13))
  @@ 18 :> On(InEntryLine, Reduce("tag", 4, 16))
  @@ 19 :> ("duration" :> Shift(2) @@ "<" :> Shift(49) @@ "time_token2" :> Shift(46) @@ "entry" :> Goto(45)
            @@ "time" :> Goto(50) @@ On({"range", "open_range"}, Goto(2)))
  @@ 20 :> On(InEntryLine, Reduce("range", 3, 13))
  @@ 21 :> On(InHeadLine, Reduce("tag", 4, 16))
  @@ 22 :> On(InEntryLine, Reduce("time", 2, 0))

\* Records, and the repetitions in them.
RecordStates ==
     23 :> ("_line_break" :> Shift(32) @@ Entries(29) @@ On(RecordEnd, Reduce("record", 2, 2)))
  @@ 24 :> (HeadLines(28) @@ On(EntryEnd, Reduce("record_summary", 2, 0)))
  @@ 25 :> (EntryLines(26) @@ On(EntryEnd, Reduce("entry_summary", 1, 0)))
  @@ 26 :> (On(EntryLineEnd, Reduce("entry_summary_repeat1", 2, 0)) @@ "entry_summary_repeat1" :> Goto(26))
  @@ 27 :> (EntryLines(26) @@ On(EntryEnd, Reduce("entry_summary", 2, 0)))
  @@ 28 :> (On(HeadLineEnd, Reduce("record_summary_repeat1", 2, 0)) @@ "record_summary_repeat1" :> Goto(28))
  @@ 29 :> (Entries(31) @@ On(RecordEnd, Reduce("record", 3, 7)))
  @@ 30 :> (Entries(31) @@ On(RecordEnd, Reduce("record", 4, 10)))
  @@ 31 :> (On(EntryEnd, Reduce("record_repeat1", 2, 8)) @@ "record_repeat1" :> Goto(31))
  @@ 32 :> (Words(10, 3) @@ "record_summary" :> Goto(33))
  @@ 33 :> (Entries(37) @@ On(RecordEnd, Reduce("record", 4, 12)))
  @@ 34 :> (Entries(30) @@ On(RecordEnd, Reduce("record", 3, 4)))
  @@ 35 :> (On(RecordEnd, Reduce("source_file_repeat1", 2, 0)) @@ On({"record", "source_file_repeat1"}, Goto(35)))
  @@ 36 :> (Entries(31) @@ On(RecordEnd, Reduce("record", 2, 3)))
  @@ 37 :> (Entries(31) @@ On(RecordEnd, Reduce("record", 5, 15)))

\* The rest of records; where a line starts; one token that must follow.
LineStates ==
     38 :> On(HeadLineEnd, Reduce("should_total", 4, 14))
  @@ 39 :> ("date" :> Shift(11) @@ "end" :> Reduce("source_file", 1, 0) @@ "_record_separator" :> Shift(35)
            @@ On({"record", "source_file_repeat1"}, Goto(35)))
  @@ 40 :> (Words(10, 3) @@ "record_summary" :> Goto(34))
  @@ 41 :> On(EntryEnd, Reduce("entry", 2, 11))
  @@ 42 :> Words(13, 7)
  @@ 43 :> Words(10, 5)
  @@ 44 :> ("<" :> Shift(54) @@ "time_token2" :> Shift(14) @@ "placeholder" :> Shift(17) @@ "time" :> Goto(20))
  @@ 45 :> On(EntryEnd, Reduce("record_repeat1", 2, 6))
  @@ 46 :> ("-" :> Reduce("time", 1, 0) @@ ">" :> Shift(51))
  @@ 47 :> (")" :> Shift(38))
  @@ 48 :> ("!" :> Shift(47))
  @@ 49 :> ("time_token1" :> Shift(51))
  @@ 50 :> ("-" :> Shift(44))
  @@ 51 :> ("-" :> Reduce("time", 2, 0))
  @@ 52 :> ("end" :> Accept)
  @@ 53 :> ("duration" :> Shift(48))
  @@ 54 :> ("time_token1" :> Shift(22))

Actions ==
  StartState @@ SummaryStates @@ TagStates @@ EntryStates @@ RecordStates @@ LineStates

(* Variants, as of a table that was not generated again after the grammar  *)
(* was changed: no summary after a should-total; the words of a summary    *)
(* are not folded.                                                         *)
StaleHasAction(state, symbol) ==
  symbol \in DOMAIN Actions[state] /\ <<state, symbol>> # <<23, "_line_break">>
UnfoldedAction(state, symbol) ==
  IF state = 6 /\ symbol = "#" THEN Shift(10) ELSE Actions[state][symbol]

HasAction(state, symbol) == symbol \in DOMAIN Actions[state]
Action(state, symbol) == Actions[state][symbol]

-------------------------------------------------------------------------------
(* Which fields the children of a production get, from the first child, 0. *)
(* An inherited field belongs to nodes below the child.                    *)
Own(field, child) == [field |-> field, child |-> child, inherited |-> FALSE]
Inherited(field, child) == [field |-> field, child |-> child, inherited |-> TRUE]

RecordFields ==
  1 :> {Own("date", 0)}
  @@ 2 :> {Own("date", 0), Own("should_total", 1)}
  @@ 3 :> {Own("date", 0), Inherited("entry", 1)}
  @@ 4 :> {Own("date", 0), Own("summary", 2)}
  @@ 7 :> {Own("date", 0), Inherited("entry", 2), Own("should_total", 1)}
  @@ 10 :> {Own("date", 0), Inherited("entry", 3), Own("summary", 2)}
  @@ 12 :> {Own("date", 0), Own("should_total", 1), Own("summary", 3)}
  @@ 15 :> {Own("date", 0), Inherited("entry", 4), Own("should_total", 1), Own("summary", 3)}

OtherFields ==
  0 :> {}
  @@ 5 :> {Own("value", 0)}
  @@ 6 :> {Own("entry", 1)}
  @@ 8 :> {Inherited("entry", 0), Inherited("entry", 1)}
  @@ 9 :> {Own("name", 1)}
  @@ 11 :> {Own("summary", 1), Own("value", 0)}
  @@ 13 :> {Own("end", 2), Own("start", 0)}
  @@ 14 :> {Own("duration", 1)}
  @@ 16 :> {Own("name", 1), Own("value", 3)}

\* Variant: the line break before the summary is not counted.
ShiftedFieldMap == 4 :> {Own("date", 0), Own("summary", 1)} @@ RecordFields @@ OtherFields
FieldMap == RecordFields @@ OtherFields

-------------------------------------------------------------------------------
(* Where the lexer starts, and which line breaks the external scanner may  *)
(* return, in each state.                                                  *)
LexState ==
  On({9, 16}, 30) @@ On({10, 13}, 34) @@ On({11, 19, 44, 47, 48, 53}, 29) @@ On({12, 15}, 32)
  @@ 14 :> 33 @@ On({32, 40, 42, 43}, 2) @@ On({46, 49, 50, 51, 54}, 4) @@ 52 :> 0 @@ On(1..45, 35)

ExternalLexState ==
  On({1, 35, 39}, 2)
  @@ On({2, 4, 7, 8} \union 13..18 \union {20, 22} \union 25..27, 3)
  @@ On({3, 5, 6} \union 9..12 \union {21, 23, 24, 28, 38}, 4)
  @@ On(29..31 \union {33, 34, 36, 37, 41, 45}, 5)
  @@ On(1..54, 0)

ExternalStates ==
  0 :> {}
  @@ 1 :> LineBreaks
  @@ 2 :> {"_record_separator"}
  @@ 3 :> {"_entry_break", "_continuation_break", "_record_separator"}
  @@ 4 :> {"_line_break", "_entry_break", "_record_separator"}
  @@ 5 :> {"_entry_break", "_record_separator"}

\* Variant: the lines of an entry are taken for those before the first one.
HeadLineBreaks(state) == ExternalStates[IF ExternalLexState[state] = 3 THEN 4 ELSE ExternalLexState[state]]
ValidBreaks(state) == ExternalStates[ExternalLexState[state]]
===============================================================================
