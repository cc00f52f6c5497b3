-------------------------------- MODULE Lexer --------------------------------
(***************************************************************************)
(* ts_lex, the generated lexer of tree-sitter-klog (src/parser.c): an      *)
(* automaton that reads characters, starting in the state that the parse   *)
(* state asks for, and remembers the last token that it found complete.    *)
(***************************************************************************)
EXTENDS Tokens, TLC

On(chars, state) == [c \in chars |-> state]

(* The conditions of many states: any tag character, any character of the  *)
(* line, any of it but "#", and how text may start.                        *)
InTag(state) == On(TagChars, state)
NotBreak(state) == On(InLine, state)
InText == On(InLine \ {"#"}, 73)
TextStart == On(InLine \ {" "}, 73)

\* Quoted values, and where only a dash or the end of a time may come.
QuoteStates ==
     1 :> ("\"" :> 85 @@ NotBreak(1))
  @@ 2 :> (" " :> 2 @@ "#" :> 53 @@ TextStart)
  @@ 3 :> ("'" :> 85 @@ NotBreak(3))
  @@ 4 :> (" " :> 5 @@ "-" :> 44 @@ ">" :> 51 @@ "0" :> 12)
  @@ 5 :> (" " :> 5 @@ "-" :> 44)

\* Dates, durations and times.
NumberStates ==
     6 :> ("-" :> 25 @@ "/" :> 26 @@ "h" :> 43 @@ "m" :> 42 @@ "0" :> 13)
  @@ 7 :> ("-" :> 27)
  @@ 8 :> ("/" :> 27)
  @@ 9 :> (":" :> 24 @@ "h" :> 43 @@ "m" :> 42 @@ "0" :> 10)
  @@ 10 :> (":" :> 24 @@ "h" :> 43 @@ "m" :> 42 @@ "0" :> 14)
  @@ 11 :> (":" :> 28)
  @@ 12 :> (":" :> 28 @@ "0" :> 11)
  @@ 13 :> ("h" :> 43 @@ "m" :> 42 @@ "0" :> 13)
  @@ 14 :> ("h" :> 43 @@ "m" :> 42 @@ "0" :> 6)
  @@ 15 :> ("m" :> 48)
  @@ 16 :> ("m" :> 42 @@ "0" :> 16)
  @@ 17 :> ("m" :> 46)
  @@ [s \in 18..28 |-> "0" :> <<38, 13, 7, 8, 47, 50, 23, 20, 21, 18, 22>>[s - 17]]

\* Where most tokens start; 0 is the start in error recovery and at the end.
AnyStart ==
  " " :> 31 @@ "eof" :> 37 @@ "!" :> 40 @@ "\"" :> 54 @@ "#" :> 53 @@ "'" :> 55 @@ "(" :> 39 @@ ")" :> 41
  @@ "-" :> 84 @@ "<" :> 45 @@ "=" :> 74 @@ ">" :> 51 @@ "?" :> 52 @@ "0" :> 81 @@ InTag(84) @@ TextStart

ValueStart == " " :> 36 @@ "eof" :> 37 @@ "(" :> 39 @@ ")" :> 41 @@ "<" :> 45 @@ "?" :> 52 @@ On({"+", "-"}, 19) @@ "0" :> 9
LineStart == " " :> 35 @@ "eof" :> 37 @@ "#" :> 53 @@ "0" :> 72 @@ TextStart

StartStates ==
     29 :> ("!" :> 40 @@ ValueStart)
  @@ 30 :> (" " :> 35 @@ "eof" :> 37 @@ "\"" :> 54 @@ "#" :> 53 @@ "'" :> 55 @@ "0" :> 92 @@ InTag(95) @@ TextStart)
  @@ 31 :> (" " :> 31 @@ "eof" :> 37 @@ "#" :> 53 @@ "(" :> 39 @@ ")" :> 41 @@ "-" :> 44 @@ "<" :> 45 @@ "?" :> 52
            @@ "0" :> 59 @@ TextStart)
  @@ 32 :> ("=" :> 74 @@ LineStart)
  @@ 33 :> (">" :> 51 @@ LineStart)
  @@ 34 :> (" " :> 35 @@ "eof" :> 37 @@ "#" :> 53 @@ "0" :> 81 @@ InTag(84) @@ TextStart)
  @@ 35 :> LineStart
  @@ 36 :> ValueStart

\* Complete tokens; some may go on.
TokenStates ==
     43 :> ("0" :> 16)
  @@ 47 :> ("a" :> 17)
  @@ 49 :> ("a" :> 61)
  @@ 50 :> ("a" :> 15)
  @@ 52 :> ("?" :> 52)
  @@ [s \in {37, 38, 39, 40, 41, 42, 44, 45, 46, 48, 51, 53} |-> <<>>]

\* Text, which may still turn out to be a quoted value, a date or a time.
TextStates ==
     54 :> ("\"" :> 85 @@ "#" :> 1 @@ NotBreak(54))
  @@ 55 :> ("#" :> 3 @@ "'" :> 85 @@ NotBreak(55))
  @@ 56 :> ("-" :> 69 @@ "/" :> 70 @@ InText)
  @@ 57 :> ("-" :> 71 @@ InText)
  @@ 58 :> ("/" :> 71 @@ InText)
  @@ 59 :> (":" :> 67 @@ "0" :> 60 @@ InText)
  @@ 60 :> (":" :> 67 @@ "0" :> 63 @@ InText)
  @@ 61 :> ("m" :> 48 @@ InText)
  @@ [s \in 62..72 |-> "0" :> <<49, 56, 57, 58, 38, 62, 63, 64, 65, 66, 68>>[s - 61] @@ InText]
  @@ 73 :> InText

\* Tag names and values; a date among them is not a token of its own.
TagNameStates ==
     74 :> <<>>
  @@ 75 :> ("-" :> 80 @@ InTag(84))
  @@ 76 :> ("-" :> 83 @@ InTag(84))
  @@ [s \in 77..83 |-> "0" :> <<84, 76, 78, 77, 79, 75, 82>>[s - 76] @@ InTag(84)]
  @@ 84 :> InTag(84)

TagValueStates ==
     85 :> <<>>
  @@ 86 :> ("-" :> 91 @@ InTag(95))
  @@ 87 :> ("-" :> 94 @@ InTag(95))
  @@ [s \in 88..94 |-> "0" :> <<95, 87, 89, 88, 90, 86, 93>>[s - 87] @@ InTag(95)]
  @@ 95 :> InTag(95)

Transitions ==
  0 :> AnyStart @@ QuoteStates @@ NumberStates @@ StartStates @@ TokenStates @@ TextStates
  @@ TagNameStates @@ TagValueStates

(* ACCEPT_TOKEN: the token that is complete in a state. *)
Accepts ==
  [s \in 37..53 |-> <<"end", "date", "(", "!", ")", "duration", "duration", "-", "<", "time_token1",
                      "time_token1", "time_token2", "time_token2", "time_token2", ">", "placeholder",
                      "#">>[s - 36]]
  @@ On(54..73, "_text") @@ 74 :> "=" @@ On(75..84, "tag_name") @@ On(85..95, "tag_value")

-------------------------------------------------------------------------------
(* The lexer after START_LEXER, and after each ADVANCE; it returns what    *)
(* result says where a character has no transition.                        *)
Lexing(state, result) == [state |-> state, result |-> result]

HasTransition(lexer, c) == c \in DOMAIN Transitions[lexer.state]

\* Variant: what was complete is forgotten when the lexer reads on.
ForgetfulAdvance(lexer, c) ==
  LET next == Transitions[lexer.state][c]
  IN Lexing(next, IF next \in DOMAIN Accepts THEN Accepts[next] ELSE NoToken)

Advance(lexer, c) ==
  LET next == Transitions[lexer.state][c]
  IN Lexing(next, IF next \in DOMAIN Accepts THEN Accepts[next] ELSE lexer.result)
===============================================================================
