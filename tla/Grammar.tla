-------------------------------- MODULE Grammar --------------------------------
(***************************************************************************)
(* The rules of tree-sitter-klog, as grammar.js writes them, and what they *)
(* mean: which tokens may follow one another, and which nodes and fields   *)
(* the children of a node are. This is the reference for the generated     *)
(* parse table. The rules do not refer back to themselves, so that they    *)
(* describe a regular language, whose automaton has a position for each    *)
(* token in the rules.                                                     *)
(***************************************************************************)
EXTENDS Naturals, Sequences, TLC

Blank == [kind |-> "blank"]
Tok(t) == [kind |-> "token", name |-> t]
Sym(s) == [kind |-> "symbol", name |-> s]
Two(a, b) == [kind |-> "seq", left |-> a, right |-> b]
Either(a, b) == [kind |-> "choice", left |-> a, right |-> b]
Optional(a) == Either(a, Blank)
Field(f, a) == [kind |-> "field", field |-> f, of |-> a]

(* The generator names the nodes that hold a repetition; they are hidden.  *)
Repeat1(name, a) == [kind |-> "repeat", name |-> name, of |-> a]
Repeat(name, a) == Optional(Repeat1(name, a))

RECURSIVE Sequence(_)
Sequence(parts) == IF Len(parts) = 1 THEN Head(parts) ELSE Two(Head(parts), Sequence(Tail(parts)))

-------------------------------------------------------------------------------
SummaryLine == Repeat1("_summary_line", Either(Tok("_text"), Either(Sym("tag"), Tok("#"))))

Entries == Repeat("record_repeat1", Two(Tok("_entry_break"), Field("entry", Sym("entry"))))
HeadLines == Repeat("record_summary_repeat1", Two(Tok("_line_break"), SummaryLine))
EntryLines == Repeat1("entry_summary_repeat1", Two(Tok("_continuation_break"), SummaryLine))

SourceFile == Repeat("source_file_repeat1", Either(Sym("record"), Tok("_record_separator")))

Record == Sequence(<<
  Field("date", Tok("date")),
  Optional(Field("should_total", Sym("should_total"))),
  Optional(Two(Tok("_line_break"), Field("summary", Sym("record_summary")))),
  Entries>>)

ShouldTotal == Sequence(<<Tok("("), Field("duration", Tok("duration")), Tok("!"), Tok(")")>>)

RecordSummary == Two(SummaryLine, HeadLines)

Entry == Two(
  Field("value", Either(Tok("duration"), Either(Sym("range"), Sym("open_range")))),
  Optional(Field("summary", Sym("entry_summary"))))

EntrySummary == Either(Two(SummaryLine, Optional(EntryLines)), EntryLines)

RangeTo(end) == Sequence(<<Field("start", Sym("time")), Tok("-"), Field("end", end)>>)

Time == Either(Two(Tok("<"), Tok("time_token1")), Two(Tok("time_token2"), Optional(Tok(">"))))

Tag == Sequence(<<
  Tok("#"),
  Field("name", Tok("tag_name")),
  Optional(Two(Tok("="), Optional(Field("value", Tok("tag_value")))))>>)

Rules == [
  source_file |-> SourceFile, record |-> Record, should_total |-> ShouldTotal,
  record_summary |-> RecordSummary, entry |-> Entry, entry_summary |-> EntrySummary,
  range |-> RangeTo(Sym("time")), open_range |-> RangeTo(Tok("placeholder")), time |-> Time, tag |-> Tag]

Repetitions ==
  [source_file_repeat1 |-> SourceFile.left, record_repeat1 |-> Entries.left,
   record_summary_repeat1 |-> HeadLines.left, entry_summary_repeat1 |-> EntryLines]
  @@ "_summary_line" :> SummaryLine

-------------------------------------------------------------------------------
(* The automaton of a rule: a position is a token and the path to it.      *)
Automaton(nullable, first, last, follow) ==
  [nullable |-> nullable, first |-> first, last |-> last, follow |-> follow]

Then(a, b) ==
  Automaton(a.nullable /\ b.nullable,
            a.first \union (IF a.nullable THEN b.first ELSE {}),
            b.last \union (IF b.nullable THEN a.last ELSE {}),
            a.follow \union b.follow \union (a.last \X b.first))

RECURSIVE Of(_, _)
Of(rule, path) ==
  CASE rule.kind = "blank" -> Automaton(TRUE, {}, {}, {})
    [] rule.kind = "token" ->
         LET here == [token |-> rule.name, path |-> path] IN Automaton(FALSE, {here}, {here}, {})
    [] rule.kind = "symbol" -> Of(Rules[rule.name], Append(path, rule.name))
    [] rule.kind = "seq" -> Then(Of(rule.left, Append(path, "1")), Of(rule.right, Append(path, "2")))
    [] rule.kind = "choice" ->
         LET a == Of(rule.left, Append(path, "1"))  b == Of(rule.right, Append(path, "2"))
         IN Automaton(a.nullable \/ b.nullable, a.first \union b.first, a.last \union b.last,
                      a.follow \union b.follow)
    [] rule.kind = "field" -> Of(rule.of, path)
    [] rule.kind = "repeat" ->
         LET a == Of(rule.of, path) IN [a EXCEPT !.follow = @ \union (a.last \X a.first)]

(* Reading a file token by token: the positions that it may have come to.  *)
Start == [token |-> "start", path |-> <<>>]
File == Then(Automaton(FALSE, {Start}, {Start}, {}), Of(Sym("source_file"), <<>>))

Positions == File.first \union {step[2] : step \in File.follow}
Follow == [p \in Positions |-> {step[2] : step \in {s \in File.follow : s[1] = p}}]

After(positions, t) == {q \in UNION {Follow[p] : p \in positions} : q.token = t}
Complete(positions) == positions \intersect File.last # {}

Derivable(positions) ==
  {q.token : q \in UNION {Follow[p] : p \in positions}}
  \union (IF Complete(positions) THEN {"end"} ELSE {})

-------------------------------------------------------------------------------
(* A child of a node: what it is, and the fields that it has in the node;  *)
(* a hidden node passes on the fields of its children.                     *)
Child(symbol, fields) == [symbol |-> symbol, fields |-> fields]

RECURSIVE FieldsIn(_)
FieldsIn(rule) ==
  CASE rule.kind \in {"seq", "choice"} -> FieldsIn(rule.left) \union FieldsIn(rule.right)
    [] rule.kind = "field" -> {rule.field}
    [] rule.kind = "repeat" -> FieldsIn(rule.of)
    [] OTHER -> {}

(* Where a repetition is, there is its hidden node, or, if it is a single  *)
(* node long, that node.                                                   *)
RECURSIVE Bodies(_)
Bodies(rule) ==
  CASE rule.kind = "blank" -> {<<>>}
    [] rule.kind \in {"token", "symbol"} -> {<<Child(rule.name, {})>>}
    [] rule.kind = "seq" -> {a \o b : a \in Bodies(rule.left), b \in Bodies(rule.right)}
    [] rule.kind = "choice" -> Bodies(rule.left) \union Bodies(rule.right)
    [] rule.kind = "field" -> {<<Child(body[1].symbol, {rule.field})>> : body \in Bodies(rule.of)}
    [] rule.kind = "repeat" ->
         {<<Child(rule.name, FieldsIn(rule.of))>>} \union {body \in Bodies(rule.of) : Len(body) = 1}

(* A hidden node holds one round of the repetition, or two parts of it.    *)
Rounds(repetition) ==
  LET part == Bodies(repetition) IN Bodies(repetition.of) \union {a \o b : a \in part, b \in part}

NodeBodies(symbol) ==
  IF symbol \in DOMAIN Rules THEN Bodies(Rules[symbol]) ELSE Rounds(Repetitions[symbol])
===============================================================================
