-------------------------------- MODULE Tokens --------------------------------
(***************************************************************************)
(* The tokens of tree-sitter-klog, as grammar.js writes them, and what it  *)
(* means to read the next one: the reference for the generated lexer. A    *)
(* token has alternative forms; a form is a sequence of steps, each with   *)
(* the characters it takes and how often.                                  *)
(***************************************************************************)
EXTENDS Integers, Sequences

(* Classes of characters: "0" is any digit, "a" is a or p, "x" any other *)
(* letter or "_", and "." any other character.                             *)
Chars == {"0", "x", "a", "h", "m", "-", "+", "/", ":", "<", ">", "?",
          "!", "(", ")", "#", "=", "'", "\"", " ", ".", "newline", "eof"}
TagChars == {"0", "x", "a", "h", "m", "-"}
InLine == Chars \ {"newline", "eof"}

One(chars) == [chars |-> chars, optional |-> FALSE, repeated |-> FALSE]
Maybe(chars) == [One(chars) EXCEPT !.optional = TRUE]
Some(chars) == [One(chars) EXCEPT !.repeated = TRUE]
Many(chars) == [Maybe(chars) EXCEPT !.repeated = TRUE]

Digit == One({"0"})

DateForms ==
  {<<Digit, Digit, Digit, Digit, One({s}), Digit, Digit, One({s}), Digit, Digit>> : s \in {"-", "/"}}

DurationForms ==
  {<<Maybe({"+", "-"}), Some({"0"})>> \o unit :
     unit \in {<<One({"h"}), Some({"0"}), One({"m"})>>, <<One({"h"})>>, <<One({"m"})>>}}

ClockForms ==
  {<<Digit, Maybe({"0"}), One({":"}), Digit, Digit>> \o half :
     half \in {<<>>, <<One({"a"}), One({"m"})>>}}

TextForms == {<<One(InLine \ {"#", " "}), Many(InLine \ {"#"})>>}

QuotedForms == {<<One({q}), Many(InLine \ {q}), One({q})>> : q \in {"\"", "'"}}
TagNameForms == {<<Some(TagChars)>>}
TagValueForms == QuotedForms \union TagNameForms

Forms == [
  date |-> DateForms, duration |-> DurationForms, time_token1 |-> ClockForms, time_token2 |-> ClockForms,
  placeholder |-> {<<Some({"?"})>>}, _text |-> TextForms,
  tag_name |-> TagNameForms, tag_value |-> TagValueForms]
Signs == {"(", "!", ")", "-", "<", ">", "#", "="}
FormsOf(t) == IF t \in Signs THEN {<<One({t})>>} ELSE IF t = "end" THEN {<<One({"eof"})>>} ELSE Forms[t]

Tokens == DOMAIN Forms \union Signs \union {"end"}

(* token(prec(..)): a token is preferred to those with a lower one, even   *)
(* if they are longer.                                                     *)
Prec(t) == IF t = "_text" THEN -1 ELSE IF t \in {"=", "tag_name", "tag_value"} THEN 1 ELSE 0

(* token.immediate(..): no blanks before the token. *)
Immediate == {"!", "time_token1", ">", "=", "tag_name", "tag_value"}

-------------------------------------------------------------------------------
(* A partial match has taken the first `done' steps of a form of a token.  *)
Match(t, form, done) == [token |-> t, form |-> form, done |-> done]

Skippable(form, from, to) == \A i \in from..to : form[i].optional

Starts(ts) == {Match(t, f, 0) : <<t, f>> \in UNION {{t} \X FormsOf(t) : t \in ts}}

StepsOf(m, c) ==
  {i \in 1..Len(m.form) :
     /\ c \in m.form[i].chars
     /\ \/ i > m.done /\ Skippable(m.form, m.done + 1, i - 1)
        \/ i = m.done /\ m.form[i].repeated}

Take(matches, c) ==
  UNION {{[m EXCEPT !.done = i] : i \in StepsOf(m, c)} : m \in matches}

Complete(matches) ==
  {m.token : m \in {n \in matches : n.done > 0 /\ Skippable(n.form, n.done + 1, Len(n.form))}}

(* Reading goes on as long as it may give a token that is preferred, or    *)
(* the same or another one that is longer.                                 *)
Reading(matches, best) == [matches |-> matches, best |-> best]
NoToken == "none"
StartOf(ts) == Reading(Starts(ts), NoToken)

Read(r, c) ==
  LET next == Take(r.matches, c)
      complete == Complete(next)
      preferred == {t \in complete : \A u \in complete : Prec(u) <= Prec(t)}
  IN
  IF c = " " /\ \A m \in r.matches : m.done = 0
    THEN Reading({m \in r.matches : m.token \notin Immediate}, NoToken)
  ELSE IF complete = {}
    THEN Reading(next, r.best)
  ELSE LET t == CHOOSE u \in preferred : TRUE
       IN Reading({m \in next : Prec(m.token) >= Prec(t)}, t)
===============================================================================
