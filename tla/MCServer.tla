------------------------------- MODULE MCServer -------------------------------
(***************************************************************************)
(* Instances of Server for TLC.                                            *)
(***************************************************************************)
EXTENDS ServerProperties

CONSTANTS a, b  \* two documents

(* Both have an open range: one is counted all the time, one only in minute *)
(* 1. In minute 0 there is no tick.                                        *)
MCTexts == {"long", "short"}
MCRunningAt == [t \in MCTexts |-> IF t = "long" THEN {1, 2} ELSE {1}]

M(method, valid, uri, text, support) ==
  [method |-> method, valid |-> valid, uri |-> uri, text |-> text, refresh |-> support]
Plain(method) == M(method, TRUE, a, "short", FALSE)
Invalid(method) == M(method, FALSE, a, "short", FALSE)

(* A client that supports refreshes. *)
InitializeWithRefresh == M("initialize", TRUE, a, "short", TRUE)

(* Every kind of message, about one document. *)
LifecycleInbound ==
  {Plain(method) : method \in Methods} \union {InitializeWithRefresh}
    \union {Invalid(method) : method \in DocumentNotifications \union {"initialize", "query"}}

(* A client that supports refreshes, or does not, and changes which        *)
(* documents have an open range.                                           *)
RefreshInbound ==
  {InitializeWithRefresh, Plain("initialize"), Plain("exit"), Plain("query"), Plain("shutdown")}
    \union {M("didOpen", TRUE, u, t, FALSE) : u \in {a, b}, t \in MCTexts}
    \union {Plain("didClose")}

(* The same, with one document, for the liveness properties. *)
LivenessInbound ==
  {InitializeWithRefresh, M("didOpen", TRUE, a, "long", FALSE), Plain("query"), Plain("didClose"),
   Plain("exit"), Plain("eof"), Plain("brokenFrame")}
===============================================================================
