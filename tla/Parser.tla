-------------------------------- MODULE Parser --------------------------------
(***************************************************************************)
(* tree-sitter parsing a klog file with the generated lexer and parse      *)
(* table, one character at a time, up to the first syntax error. The       *)
(* variables `reading', `reached' and `line' are history: what grammar.js   *)
(* and module Scanner say of the same characters and tokens.               *)
(***************************************************************************)
EXTENDS Integers, SequencesExt, FiniteSets, TLC

LOCAL L == INSTANCE Lexer
LOCAL T == INSTANCE ParseTable
LOCAL G == INSTANCE Grammar

VARIABLES
  stack,      \* the nodes that are not part of another node yet, with the state that follows each
  lexer,      \* the lexer, while it looks for the next token
  lookahead,  \* the next token; "none" while the lexer looks for it
  ahead,      \* the characters that may come next
  reading,    \* the tokens that the characters read since the last token may be, in grammar.js
  line,       \* the line so far, as module Scanner has it, with the line break before it
  reached,    \* the positions in the rules of grammar.js that the tokens so far may lead to
  outcome     \* "parsing", "accepted", or "error"

vars == <<stack, lexer, lookahead, ahead, reading, reached, line, outcome>>

Node(symbol, state) == [symbol |-> symbol, state |-> state]
StateOf(nodes) == IF nodes = <<>> THEN 1 ELSE nodes[Len(nodes)].state

NoToken == L!NoToken
IdleLexer == L!Lexing(0, NoToken)
NoReading == L!Reading({}, NoToken)

(* The lexer starts in the mode of the parser's state. *)
Lexes(nodes, positions) ==
  /\ lexer' = L!Lexing(T!LexState[StateOf(nodes)], NoToken)
  /\ reading' = L!StartOf(G!Derivable(positions) \ T!LineBreaks)

NewLine(t) == [break |-> t, kind |-> "end", dated |-> "no"]

(* The first token tells what kind of line it is, and a date further on is *)
(* the start of another record.                                            *)
LineWith(t) ==
  IF t \in T!LineBreaks THEN NewLine(t)
  ELSE IF line.kind = "end"
    THEN [line EXCEPT !.kind = CASE t = "date" -> "date"
                                 [] t \in {"duration", "time_token2", "<"} -> "value"
                                 [] OTHER -> "text"]
  ELSE IF t = "date" THEN [line EXCEPT !.dated = IF @ = "no" THEN "last" ELSE @]
  ELSE IF line.dated = "last" /\ t \notin {"(", "duration", "!", ")"}
    THEN [line EXCEPT !.dated = "followed"]
  ELSE line

Init ==
  /\ stack = <<>>
  /\ lexer = L!Lexing(T!LexState[1], NoToken)
  /\ lookahead = NoToken
  /\ ahead = L!Chars
  /\ reached = {G!Start}
  /\ reading = L!StartOf(G!Derivable(reached) \ T!LineBreaks)
  /\ line = NewLine("_record_separator")
  /\ outcome = "parsing"

-------------------------------------------------------------------------------
LookingForToken == outcome = "parsing" /\ lookahead = NoToken

(* Only blanks, if anything, have been read since the last token. *)
NothingRead == lexer.result = NoToken /\ lexer.state \in {T!LexState[StateOf(stack)], 5, 31, 35, 36}

ReadChar(c) ==
  /\ LookingForToken
  /\ L!HasTransition(lexer, c)
  /\ lexer' = L!Advance(lexer, c)
  /\ reading' = L!Read(reading, c)
  /\ ahead' = IF c = "eof" THEN {"eof"} ELSE L!Chars
  /\ UNCHANGED <<stack, lookahead, reached, line, outcome>>

(* A character that does not go on ends the token. When the lexer has read *)
(* on after the last complete token, that is read again as something else, *)
(* here as anything.                                                       *)
Ends(c) == c \in ahead /\ ~L!HasTransition(lexer, c)
IsAtLineBreak(c) == c = "newline" /\ NothingRead /\ T!ValidBreaks(StateOf(stack)) # {}

FindToken ==
  /\ LookingForToken /\ lexer.result # NoToken
  /\ \E c \in ahead : Ends(c)
  /\ lookahead' = lexer.result
  /\ ahead' = IF lexer.state \in DOMAIN L!Accepts THEN {c \in ahead : Ends(c)} ELSE L!Chars
  /\ lexer' = IdleLexer
  /\ reading' = NoReading
  /\ UNCHANGED <<stack, reached, line, outcome>>

FindNoToken ==
  /\ LookingForToken /\ lexer.result = NoToken
  /\ \E c \in ahead : Ends(c) /\ ~IsAtLineBreak(c)
  /\ outcome' = "error"
  /\ lexer' = IdleLexer
  /\ reading' = NoReading
  /\ UNCHANGED <<stack, lookahead, ahead, reached, line>>

(* The external scanner is asked first. Which of the line breaks it finds  *)
(* depends on the next line; a file can only end in a separator.           *)
FindLineBreak(t) ==
  /\ LookingForToken
  /\ NothingRead /\ "newline" \in ahead
  /\ t \in T!ValidBreaks(StateOf(stack))
  /\ lookahead' = t
  /\ ahead' = (L!InLine \ {" "}) \union (IF t = "_record_separator" THEN {"eof"} ELSE {})
  /\ lexer' = IdleLexer
  /\ reading' = NoReading
  /\ UNCHANGED <<stack, reached, line, outcome>>

-------------------------------------------------------------------------------
Has(type) ==
  /\ outcome = "parsing" /\ lookahead # NoToken
  /\ T!HasAction(StateOf(stack), lookahead)
  /\ T!Action(StateOf(stack), lookahead).type = type
TheAction == T!Action(StateOf(stack), lookahead)

ShiftToken ==
  /\ Has("shift")
  /\ stack' = Append(stack, Node(lookahead, TheAction.to))
  /\ reached' = G!After(reached, lookahead)
  /\ line' = LineWith(lookahead)
  /\ lookahead' = NoToken
  /\ Lexes(stack', reached')
  /\ UNCHANGED <<ahead, outcome>>

Children(action) == SubSeq(stack, Len(stack) - action.count + 1, Len(stack))

ReduceNode ==
  /\ Has("reduce")
  /\ LET below == SubSeq(stack, 1, Len(stack) - TheAction.count)
         goto == T!Action(StateOf(below), TheAction.symbol)
     IN stack' = Append(below, Node(TheAction.symbol, goto.to))
  /\ UNCHANGED <<lexer, lookahead, ahead, reading, reached, line, outcome>>

AcceptFile ==
  /\ Has("accept")
  /\ outcome' = "accepted"
  /\ UNCHANGED <<stack, lexer, lookahead, ahead, reading, reached, line>>

Fail ==
  /\ outcome = "parsing" /\ lookahead # NoToken
  /\ ~T!HasAction(StateOf(stack), lookahead)
  /\ outcome' = "error"
  /\ UNCHANGED <<stack, lexer, lookahead, ahead, reading, reached, line>>

(* How the parser recovers from an error is tree-sitter's. *)
Done == outcome # "parsing" /\ UNCHANGED vars

Parse == ShiftToken \/ ReduceNode \/ AcceptFile \/ Fail
Next ==
  \/ \E c \in ahead : ReadChar(c)
  \/ FindToken \/ FindNoToken
  \/ \E t \in T!LineBreaks : FindLineBreak(t)
  \/ Parse
  \/ Done

Spec == Init /\ [][Next]_vars

-------------------------------------------------------------------------------
(* The variables have their types, and however long the file is, the stack *)
(* is short: repetitions are folded as they are read, so that no more than *)
(* three nodes of a kind wait for the rest of their rules.                 *)
TypeOK ==
  /\ stack \in Seq([symbol : L!Tokens \union T!LineBreaks \union T!Visible \union T!Hidden, state : 1..54])
  /\ \A n \in Range(stack) : Cardinality({i \in DOMAIN stack : stack[i].symbol = n.symbol}) <= 3
  /\ lexer \in [state : 0..95, result : L!Tokens \union {NoToken}]
  /\ lookahead \in L!Tokens \union T!LineBreaks \union {NoToken}
  /\ ahead \subseteq L!Chars
  /\ reading.best \in L!Tokens \union {NoToken}
  /\ reached \subseteq G!Positions \union {G!Start}
  /\ line \in [break : T!LineBreaks, kind : {"date", "value", "text", "end"},
               dated : {"no", "last", "followed"}]
  /\ outcome \in {"parsing", "accepted", "error"}

(* The lexer finds the token that grammar.js means, with its precedences   *)
(* and blanks, at each character where the token could end: the merged     *)
(* states of the lexer do not take it for one that cannot come here, and   *)
(* none of the states that look alike sends it the wrong way.              *)
LexesAsWritten ==
  LookingForToken =>
    /\ reading.best # NoToken \/ lexer.result \in G!Derivable(reached) => lexer.result = reading.best
    /\ \A c \in ahead : Ends(c) => L!Read(reading, c).matches = {}

(* What grammar.js derives is parsed, and nothing else: the table takes a  *)
(* token where a rule has it, ends the file where it may end, and reports  *)
(* an error only for a token that no rule has there.                       *)
TakesWhatGrammarTakes ==
  /\ reached # {}
  /\ outcome = "accepted" => G!Complete(reached) /\ [i \in DOMAIN stack |-> stack[i].symbol] = <<"source_file">>
  /\ outcome = "error" /\ lookahead # NoToken => lookahead \notin G!Derivable(reached)

(* Every node that the parser builds is one of grammar.js: its children    *)
(* are those of the rule, in order, each with the fields that the queries  *)
(* look for, whether in the node or passed on by a hidden one.             *)
FieldsOf(action, i) ==
  {f.field : f \in {g \in T!FieldMap[action.production] : g.child = i - 1}}
BuildsRules ==
  Has("reduce") =>
    LET nodes == Children(TheAction)
        made == [i \in DOMAIN nodes |-> G!Child(nodes[i].symbol, FieldsOf(TheAction, i))]
    IN
    /\ Len(stack) >= TheAction.count
    /\ made \in G!NodeBodies(TheAction.symbol)
    /\ \A f \in T!FieldMap[TheAction.production] :
         f.child < Len(nodes) /\ (f.inherited <=> nodes[f.child + 1].symbol \in T!Hidden)

(* The scanner may return exactly the line breaks that the rules have      *)
(* where the parser is; one that it may not return is read as the end of   *)
(* the record.                                                             *)
LineBreaksAsWritten ==
  LookingForToken => T!ValidBreaks(StateOf(stack)) = G!Derivable(reached) \intersect T!LineBreaks

(* The scanner is asked for the line breaks that module Scanner assumes,   *)
(* so that what holds of it there holds with this parse table.             *)
LOCAL At ==
  LET symbols == {stack[i].symbol : i \in DOMAIN stack}
  IN IF "_entry_break" \in symbols THEN "entry"
     ELSE IF "_line_break" \in symbols THEN "summary"
     ELSE IF "date" \in symbols THEN "header" ELSE "top"
LOCAL S == INSTANCE Scanner WITH MaxRun <- 0, style <- "none", token <- "none", at <- At

LOCAL BreakNames == [line |-> "_line_break", entry |-> "_entry_break",
                     continuation |-> "_continuation_break", separator |-> "_record_separator"]
ScannerIsAskedAsModelled ==
  LookingForToken /\ T!ValidBreaks(StateOf(stack)) # {} =>
    T!ValidBreaks(StateOf(stack)) = {BreakNames[b] : b \in S!Valid}

(* The parser is where module Scanner has it at the end of each line, also *)
(* when a date in the middle of the line has made it start another record, *)
(* and it never gets there where that says it runs into an error.          *)
LinesEndAsModelled ==
  LookingForToken /\ T!ValidBreaks(StateOf(stack)) # {} =>
    \E b \in DOMAIN BreakNames : BreakNames[b] = line.break /\ At = S!Parsed(line, b)

(* Where a summary may go on, a date is text like any other: it does not   *)
(* end the summary and start a record in the middle of the line.           *)
TextIsFree == lookahead = "date" => "_text" \notin G!Derivable(reached)
===============================================================================
