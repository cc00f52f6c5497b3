--------------------------------- MODULE Dues ---------------------------------
(***************************************************************************)
(* What the client is due for each of its messages, by the messages alone. *)
(* Nothing here refers to how the server remembers anything.               *)
(***************************************************************************)
EXTENDS Protocol

(* The server has accepted an initialize among the first k messages, and a *)
(* shutdown after that.                                                    *)
InitializedBy(k) == \E i \in 1..k : sent[i].method = "initialize" /\ sent[i].valid
ShutdownBy(k) == \E i \in 1..k : sent[i].method = "shutdown" /\ InitializedBy(i - 1)
ReadyFor(i) == InitializedBy(i - 1) /\ ~ShutdownBy(i - 1)

(* Message i opens, changes or closes document u. *)
Touches(i, u) ==
  /\ ReadyFor(i)
  /\ sent[i].method \in DocumentNotifications
  /\ sent[i].valid
  /\ sent[i].uri = u

(* After k messages document u is open with the text of message d, d > 0,  *)
(* or is not open, d = 0.                                                  *)
IsText(u, k, d) ==
  \/ /\ d \in 1..k
     /\ Touches(d, u)
     /\ sent[d].method # "didClose"
     /\ \A i \in (d + 1)..k : ~Touches(i, u)
  \/ /\ d = 0
     /\ \A i \in 1..k : Touches(i, u) =>
          \E j \in i..k : Touches(j, u) /\ sent[j].method = "didClose"
                          /\ \A l \in (j + 1)..k : ~Touches(l, u)

(* Message i has to be followed by frame f. *)
Code(i) ==
  LET m == sent[i] IN
  IF m.method = "invalidJSON" THEN "parseError"
  ELSE IF m.method # "initialize" /\ ~InitializedBy(i - 1) THEN "notInitialized"
  ELSE IF ShutdownBy(i - 1) \/ (m.method = "initialize" /\ InitializedBy(i - 1)) THEN "invalidRequest"
  ELSE IF m.method = "unsupported" THEN "methodNotFound"
  ELSE IF m.method \in {"initialize", "query"} /\ ~m.valid THEN "invalidParams"
  ELSE "ok"

IsResponse(i) == sent[i].method \in Requests \union {"invalidJSON"}
Owes(i) == IsResponse(i) \/ \E u \in URIs : Touches(i, u)
Due(i, f) ==
  IF IsResponse(i)
    THEN /\ f = Response(i, Code(i), f.doc)
         /\ IF sent[i].method = "query" /\ Code(i) = "ok"
              THEN IsText(sent[i].uri, i, f.doc)
              ELSE f.doc = 0
    ELSE Owes(i) /\ f = Publish(i, f.doc) /\ IsText(sent[i].uri, i, f.doc)
===============================================================================
