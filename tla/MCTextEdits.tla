------------------------------ MODULE MCTextEdits ------------------------------
(***************************************************************************)
(* Texts and changes for TLC.                                              *)
(***************************************************************************)
EXTENDS TextEdits

CONSTANT MaxElements  \* bound: how many characters and line breaks a text has

(* Characters that share their first byte, or their last, and one of four  *)
(* bytes; line endings of either style, also mixed.                        *)
InLine == {<<97>>, <<195, 169>>, <<195, 168>>, <<197, 169>>, <<240, 159, 152, 128>>}
Endings == {<<LF>>, <<CR, LF>>}

UpTo(n, elements) == {FlattenSeq(s) : s \in UNION {[1..k -> elements] : k \in 0..n}}

MCTexts == UpTo(MaxElements, InLine \union Endings)

(* klog puts a line where a line starts, or after the last one, which may  *)
(* have no line ending yet; or it replaces something in a line.            *)
PutAt(text, from, to, put) == SubSeq(text, 1, from) \o put \o SubSeq(text, to + 1, Len(text))

WithLine(text) ==
  {PutAt(text, k, k, line \o ending) : k \in LineStarts(text), line \in UpTo(1, InLine), ending \in Endings}
  \union {text \o ending \o line \o ending : line \in UpTo(1, InLine), ending \in Endings}

Stretches(text, start) ==
  LET end == LineEnd(text, start)
      places == Runes(text, start, end) \union {end}
  IN {p \in places \X places : p[1] <= p[2]}

WithChange(text) ==
  {PutAt(text, p[1], p[2], put) :
     p \in UNION {Stretches(text, start) : start \in LineStarts(text)}, put \in UpTo(2, InLine)}

MCNewTexts(text) == WithLine(text) \union WithChange(text)
===============================================================================
