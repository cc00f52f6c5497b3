--------------------------- MODULE ServerProperties ---------------------------
(***************************************************************************)
(* What klog-ls owes its client, stated over the history of the session:   *)
(* `sent`, the messages of the client, and `wire`, what came back.         *)
(***************************************************************************)
EXTENDS Server, Dues

(* The client can read frame f. *)
Delivered(f) == \E p \in 1..Len(wire) : wire[p] = Conn!Body(f)
Followed(i) == \E p \in 1..Len(wire) : wire[p].part = "body" /\ Due(i, wire[p].msg)
Over == main \in {"returned", "failed", "gone"}

-------------------------------------------------------------------------------
(* The two goroutines share the connection as Connection has it: neither   *)
(* the message loop nor the refresh loop ever puts bytes between the header*)
(* and the body of the other's message (connection.mu).                    *)
ServerFramesIntact == Conn!FramesIntact

(* The server's copy of a document is the client's: the text of the last   *)
(* didOpen or didChange that was in order when it came, and no copy after  *)
(* its didClose (handle, update).                                          *)
DocumentsMirrorClient ==
  exitCode # "killed" =>
    \A u \in URIs :
      IsText(u, IF main = "store" THEN received - 1 ELSE received, documents[u])

(* The client gets the answer or the diagnostics it is due for each        *)
(* message, computed from the text as of that message, and nothing that    *)
(* it is not due; the refresh loop aside (handle and what it calls).       *)
NothingUnasked ==
  \A p \in 1..Len(wire) :
    wire[p].part = "body" /\ wire[p].msg.kind # "refresh" =>
      wire[p].msg.re \in 1..received /\ Due(wire[p].msg.re, wire[p].msg)

NothingForgotten ==
  main = "read" \/ exitCode = "success" =>
    \A i \in 1..received : Owes(i) => Followed(i)

(* Answers and diagnostics leave in the order of the messages they follow, *)
(* one each, and no two refresh requests share an id, whatever the other   *)
(* goroutine does in between (server.run, refreshLoop's n).                *)
InOrder ==
  \A p, q \in 1..Len(wire) :
    /\ p < q
    /\ wire[p].part = "body" /\ wire[q].part = "body"
    /\ wire[p].msg.kind = "refresh" <=> wire[q].msg.kind = "refresh"
    => wire[p].msg.re < wire[q].msg.re

(* No refresh request overtakes the result of initialize, though the       *)
(* refresh loop starts before that result is written (handle, case         *)
(* "initialize"): LSP forbids a server to send requests before it.         *)
RefreshAfterInitializeResult ==
  \A p \in 1..Len(wire) :
    wire[p].msg.kind = "refresh" =>
      \E q \in 1..(p - 1) :
        /\ wire[q].part = "body"
        /\ wire[q].msg.code = "ok"
        /\ wire[q].msg.kind = "response"
        /\ sent[wire[q].msg.re].method = "initialize"

(* hasRunningOpenRange sees one state of the documents: the message loop   *)
(* does not change them while it iterates (server.mu).                     *)
ScanIsAtomic == [][refresh = "scan" => UNCHANGED documents]_vars

(* Exit code 0 tells that the client asked for a shutdown and that all it  *)
(* had asked for was delivered: os.Exit can only cut off a refresh request.*)
(* A failure tells that it did not ask, or that one of the two streams     *)
(* broke (main, exitCode).                                                 *)
IsCutOff == wire # <<>> /\ wire[Len(wire)].part = "header"
ExitCodeIsHonest ==
  /\ exitCode = "success" =>
       /\ ShutdownBy(received) /\ \A i \in 1..received : Owes(i) => Followed(i)
       /\ IsCutOff => wire[Len(wire)].msg.kind = "refresh"
  /\ exitCode = "failure" =>
       ~ShutdownBy(received) \/ broken \/ sent[received].method = "brokenFrame"

(* The two goroutines cannot stop each other: one that waits for a mutex   *)
(* waits for the other one, and that one is at work under it, with nothing *)
(* to wait for but the client (server.mu, connection.mu).                  *)
WaitsFor(g, h) ==
  \/ docMu = h /\ (IF g = "main" THEN main \in {"store", "lookup"} ELSE refresh = "lock")
  \/ connMu = h /\ stage[g] = "locking"
Works(h) ==
  \/ h = "refresh" /\ refresh = "scan"
  \/ stage[h] \in {"header", "body"} /\ (IF h = "main" THEN main ELSE refresh) = "write"
NoCircularWait ==
  Alive => \A g, h \in {"main", "refresh"} : WaitsFor(g, h) => g # h /\ Works(h)

-------------------------------------------------------------------------------
(* To the client the process is a program that handles one message at a    *)
(* time in one step, as due by what was said before, and that asks for new *)
(* hints only when, at one moment, the client supports it and has a range  *)
(* open that is counted: no more often than there were minutes, and each   *)
(* time with a new id.                                                     *)
(* Locks, the second goroutine, the server's copies of documents, its flags*)
(* and frames that are written in two parts do not show (all of server.go).*)
(* A message takes effect where its handler has read all that it reads.    *)
Sequential ==
  INSTANCE Session WITH
    handled <- IF main \in {"store", "lookup"} THEN received - 1 ELSE received,
    loop <- IF main \in {"read", "store", "lookup", "write"} THEN "runs" ELSE main,
    pending <- out,
    frames <- Conn!FramesRead(wire)
HandlesOneByOne == Sequential!Spec

-------------------------------------------------------------------------------
(* Every request is answered in the end, unless the session is over: the   *)
(* refresh loop, which competes for both mutexes, cannot keep the message  *)
(* loop from it.                                                           *)
RequestsAnswered ==
  \A i \in 1..MaxMessages :
    (i <= Len(sent) /\ IsResponse(i)) ~> (Over \/ (i <= Len(sent) /\ Followed(i)))

(* A tick that finds an open range running leads to a refresh request of   *)
(* its own, after which the loop waits for the next tick, unless the range *)
(* stops being counted first or the client is gone: the message loop       *)
(* cannot keep the refresh loop from it (refreshLoop).                     *)
RefreshFollowsTick ==
  \A k \in 1..(MaxTime + 1) :
    (refresh = "select" /\ tick /\ n = k /\ HasRunningOpenRange)
      ~> \/ Over \/ broken \/ ~HasRunningOpenRange
         \/ Delivered(RefreshRequest(k)) /\ refresh = "select"

(* exit, the end of the input, or a frame that cannot be read ends the     *)
(* process, whatever the refresh loop is doing then.                       *)
ExitEnds ==
  (\E i \in 1..Len(sent) : sent[i].method \in StreamEnds \union {"exit"}) ~> main = "gone"
===============================================================================
