------------------------------- MODULE Protocol -------------------------------
(***************************************************************************)
(* What klog-ls and its client say to each other. A message of the client  *)
(* is known by its position in `sent`, which also stands for its request   *)
(* id and for the version and text it carries.                             *)
(***************************************************************************)
EXTENDS Naturals, Sequences

CONSTANTS
  URIs,         \* the documents the client may open
  Texts,        \* their contents
  RunningAt,    \* RunningAt[t]: the minutes at which text t has an open range
                \* that runningTime counts
  Inbound       \* the messages the client may send

VARIABLE
  sent          \* the messages the client has sent, in order

Requests == {"initialize", "shutdown", "query", "unsupported"}
DocumentNotifications == {"didOpen", "didChange", "didClose"}
Notifications == DocumentNotifications \union {"initialized", "exit", "ignored"}
StreamEnds == {"eof", "brokenFrame"}
Methods == Requests \union Notifications \union StreamEnds \union {"response", "invalidJSON"}

(* valid: the params can be decoded (and a didChange has a change);        *)
(* refresh: the client supports workspace/inlayHint/refresh. A field that  *)
(* a method does not have is not looked at.                                *)
Message ==
  [method : Methods, valid : BOOLEAN, uri : URIs, text : Texts, refresh : BOOLEAN]

Codes == {"ok", "parseError", "notInitialized", "invalidRequest", "invalidParams",
          "methodNotFound"}

(* What goes out. re: the client message it answers, or the number in the  *)
(* id of a refresh request; doc: the document text it was computed from.   *)
Frame ==
  [kind : {"response", "publish", "refresh"}, re : Nat, code : Codes, doc : Nat]

Response(i, c, d) == [kind |-> "response", re |-> i, code |-> c, doc |-> d]
Publish(i, d) == [kind |-> "publish", re |-> i, code |-> "ok", doc |-> d]
RefreshRequest(k) == [kind |-> "refresh", re |-> k, code |-> "ok", doc |-> 0]
===============================================================================
