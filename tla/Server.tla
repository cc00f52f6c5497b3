-------------------------------- MODULE Server --------------------------------
(***************************************************************************)
(* The process klog-ls: the message loop of klog-ls/server.go, which reads *)
(* JSON-RPC messages one at a time and handles each to its end, and the    *)
(* refresh loop, a second goroutine that asks the client once a minute to  *)
(* update its inlay hints while an open range is running. They share the   *)
(* documents, under server.mu, and the connection (module Connection).     *)
(***************************************************************************)
EXTENDS Protocol

CONSTANTS
  NoMessage,    \* a goroutine that is not writing
  Free,         \* a mutex that is not held
  MaxMessages,  \* bound: how many messages the client sends
  MaxUnread,    \* bound: how many of them wait in the pipe at a time
  MaxTime       \* bound: how many minutes pass

ASSUME ServerAssumption ==
  /\ Inbound \subseteq Message
  /\ RunningAt \in [Texts -> SUBSET Nat]
  /\ NoMessage \notin Frame
  /\ Free \notin {"main", "refresh"}
  /\ MaxMessages \in Nat
  /\ MaxUnread \in Nat
  /\ MaxTime \in Nat

VARIABLES
  received,     \* how many messages the message loop has read
  initialized,  \* server.initialized
  shutdown,     \* server.shutdown
  documents,    \* the message that brought the text of each document, 0 for none
  docMu,        \* the holder of server.mu
  main,         \* where the message loop is
  refresh,      \* where the refresh loop is
  n,            \* the refresh loop's counter
  tick,         \* a tick waits in the ticker's channel
  now,          \* the time, in minutes
  exitCode,     \* how the process ended
  wire, connMu, stage, out, broken  \* see Connection

clientVars == <<sent>>
sessionVars == <<initialized, shutdown>>
docVars == <<documents, docMu>>
refreshVars == <<refresh, n, tick>>
conn == <<wire, connMu, stage, out, broken>>
vars == <<sent, received, initialized, shutdown, documents, docMu, main, refresh, n,
          tick, now, exitCode, wire, connMu, stage, out, broken>>

Conn == INSTANCE Connection
          WITH Goroutines <- {"main", "refresh"}, Payloads <- Frame, mu <- connMu

(* os.Exit, log.Fatal or a kill ends every goroutine at once. *)
Alive == main # "gone"

(* Variant: the loop counts from 0. *)
InitFromZero ==
  /\ sent = <<>> /\ received = 0 /\ initialized = FALSE /\ shutdown = FALSE
  /\ documents = [u \in URIs |-> 0] /\ docMu = Free
  /\ main = "read" /\ refresh = "off" /\ n = 0 /\ tick = FALSE
  /\ now = 0 /\ exitCode = "none" /\ Conn!Init

Init ==
  /\ sent = <<>>
  /\ received = 0
  /\ initialized = FALSE
  /\ shutdown = FALSE
  /\ documents = [u \in URIs |-> 0]
  /\ docMu = Free
  /\ main = "read"
  /\ refresh = "off"
  /\ n = 1
  /\ tick = FALSE
  /\ now = 0
  /\ exitCode = "none"
  /\ Conn!Init

-------------------------------------------------------------------------------
(* The message loop. *)

Incoming == sent[received + 1]

(* The next message is read; it is one of the given methods. *)
Reads(methods) ==
  /\ main = "read"
  /\ received < Len(sent)
  /\ Incoming.method \in methods
  /\ received' = received + 1

(* The handler returns without writing. *)
Ignore == main' = "read" /\ UNCHANGED conn

(* The handler calls reply, replyError or notify. *)
Send(frame) == main' = "write" /\ Conn!Call("main", frame)
Answer(code) == Send(Response(received', code, 0))

ReadsStreamEnd ==
  /\ Reads(StreamEnds)
  /\ main' = IF Incoming.method = "eof" THEN "returned" ELSE "failed"
  /\ UNCHANGED <<clientVars, sessionVars, docVars, refreshVars, now, exitCode, conn>>

ReadsInvalidJSON ==
  /\ Reads({"invalidJSON"})
  /\ Answer("parseError")
  /\ UNCHANGED <<clientVars, sessionVars, docVars, refreshVars, now, exitCode>>

ReadsResponse ==
  /\ Reads({"response"})
  /\ Ignore
  /\ UNCHANGED <<clientVars, sessionVars, docVars, refreshVars, now, exitCode>>

(* Variant: whatever comes too early or too late is dropped. *)
RefusesSilently ==
  /\ \/ ~initialized /\ Reads((Requests \union Notifications) \ {"initialize", "exit"})
     \/ initialized /\ shutdown /\ Reads((Requests \union Notifications) \ {"exit"})
  /\ Ignore
  /\ UNCHANGED <<clientVars, sessionVars, docVars, refreshVars, now, exitCode>>

(* The two guards at the top of handle. *)
Refuses ==
  /\ \/ ~initialized /\ Reads((Requests \union Notifications) \ {"initialize", "exit"})
     \/ initialized /\ shutdown /\ Reads((Requests \union Notifications) \ {"exit"})
  /\ IF Incoming.method \in Notifications
       THEN Ignore
       ELSE Answer(IF initialized THEN "invalidRequest" ELSE "notInitialized")
  /\ UNCHANGED <<clientVars, sessionVars, docVars, refreshVars, now, exitCode>>

(* Variant: what the client supports is not looked at. *)
StartsRefreshAnyhow == refresh' = "select"

(* `go s.refreshLoop()`, if the client supports refreshes. *)
StartsRefresh == refresh' = IF Incoming.refresh THEN "select" ELSE refresh

HandlesInitialize ==
  /\ Reads({"initialize"})
  /\ ~shutdown
  /\ IF ~initialized /\ Incoming.valid
       THEN /\ initialized' = TRUE
            /\ StartsRefresh
            /\ Answer("ok")
       ELSE /\ UNCHANGED <<initialized, refresh>>
            /\ Answer(IF initialized THEN "invalidRequest" ELSE "invalidParams")
  /\ UNCHANGED <<clientVars, shutdown, docVars, n, tick, now, exitCode>>

HandlesShutdown ==
  /\ initialized /\ ~shutdown
  /\ Reads({"shutdown"})
  /\ shutdown' = TRUE
  /\ Answer("ok")
  /\ UNCHANGED <<clientVars, initialized, docVars, refreshVars, now, exitCode>>

(* Variant: the loop of run does not look at exited. *)
HandlesExitTooLate ==
  /\ Reads({"exit"})
  /\ Ignore
  /\ UNCHANGED <<clientVars, sessionVars, docVars, refreshVars, now, exitCode>>

(* exited ends the loop of run. *)
HandlesExit ==
  /\ Reads({"exit"})
  /\ main' = "returned"
  /\ UNCHANGED <<clientVars, sessionVars, docVars, refreshVars, now, exitCode, conn>>

(* Variant: the error of json.Unmarshal is not looked at. *)
HandlesAnyNotification ==
  /\ initialized /\ ~shutdown
  /\ Reads(Notifications \ {"exit"})
  /\ main' = IF Incoming.method \in DocumentNotifications THEN "store" ELSE "read"
  /\ UNCHANGED <<clientVars, sessionVars, docVars, refreshVars, now, exitCode, conn>>

(* A document notification whose params can be decoded goes on to s.mu;    *)
(* all other notifications end here.                                       *)
HandlesNotification ==
  /\ initialized /\ ~shutdown
  /\ Reads(Notifications \ {"exit"})
  /\ main' = IF Incoming.method \in DocumentNotifications /\ Incoming.valid
               THEN "store" ELSE "read"
  /\ UNCHANGED <<clientVars, sessionVars, docVars, refreshVars, now, exitCode, conn>>

(* s.mu is locked and unlocked around a step that does not block. *)
WithoutMu == TRUE
UnderMu == docMu = Free

(* Variant: a closed document is kept. *)
StoresForGood ==
  /\ main = "store"
  /\ UnderMu
  /\ documents' = [documents EXCEPT ![sent[received].uri] = received]
  /\ Send(Publish(received, received))
  /\ UNCHANGED <<clientVars, received, sessionVars, docMu, refreshVars, now, exitCode>>

(* update, and its counterpart for didClose: the document is changed under *)
(* s.mu, then its diagnostics are published.                               *)
StoresDocument ==
  LET m == sent[received]
      d == IF m.method = "didClose" THEN 0 ELSE received
  IN
  /\ main = "store"
  /\ UnderMu
  /\ documents' = [documents EXCEPT ![m.uri] = d]
  /\ Send(Publish(received, d))
  /\ UNCHANGED <<clientVars, received, sessionVars, docMu, refreshVars, now, exitCode>>

(* hover, inlay hint, completion and code action requests, see respond *)
HandlesQuery ==
  /\ initialized /\ ~shutdown
  /\ Reads({"query"})
  /\ IF Incoming.valid
       THEN main' = "lookup" /\ UNCHANGED conn
       ELSE Answer("invalidParams")
  /\ UNCHANGED <<clientVars, sessionVars, docVars, refreshVars, now, exitCode>>

LooksUpDocument ==
  /\ main = "lookup"
  /\ UnderMu
  /\ Send(Response(received, "ok", documents[sent[received].uri]))
  /\ UNCHANGED <<clientVars, received, sessionVars, docVars, refreshVars, now, exitCode>>

HandlesUnsupported ==
  /\ initialized /\ ~shutdown
  /\ Reads({"unsupported"})
  /\ Answer("methodNotFound")
  /\ UNCHANGED <<clientVars, sessionVars, docVars, refreshVars, now, exitCode>>

(* An error of write makes handle, and then run, return it. *)
MainWrites ==
  /\ main = "write"
  /\ \/ Conn!Lock("main") /\ main' = main
     \/ Conn!WriteHeader("main") /\ main' = main
     \/ Conn!WriteBody("main") /\ main' = "read"
     \/ Conn!Fail("main") /\ main' = "failed"
  /\ UNCHANGED <<clientVars, received, sessionVars, docVars, refreshVars, now, exitCode>>

(* Variant: the exit code does not depend on shutdown. *)
ExitsAnyhow ==
  /\ main \in {"returned", "failed"}
  /\ main' = "gone"
  /\ exitCode' = IF main = "returned" THEN "success" ELSE "failure"
  /\ UNCHANGED <<clientVars, received, sessionVars, docVars, refreshVars, now, conn>>

(* run has returned, and has closed stopRefresh: main calls log.Fatal for  *)
(* an error, else os.Exit(s.exitCode()).                                   *)
Exits ==
  /\ main \in {"returned", "failed"}
  /\ main' = "gone"
  /\ exitCode' = IF main = "returned" /\ shutdown THEN "success" ELSE "failure"
  /\ UNCHANGED <<clientVars, received, sessionVars, docVars, refreshVars, now, conn>>

MainLoop ==
  \/ ReadsStreamEnd \/ ReadsInvalidJSON \/ ReadsResponse \/ Refuses
  \/ HandlesInitialize \/ HandlesShutdown \/ HandlesExit
  \/ HandlesNotification \/ StoresDocument
  \/ HandlesQuery \/ LooksUpDocument \/ HandlesUnsupported
  \/ MainWrites \/ Exits

-------------------------------------------------------------------------------
(* The refresh loop. *)

StopRefreshClosed == main \in {"returned", "failed"}

(* select picks either channel when both are ready. *)
RefreshStops ==
  /\ Alive
  /\ refresh = "select"
  /\ StopRefreshClosed
  /\ refresh' = "done"
  /\ tick' = FALSE
  /\ UNCHANGED <<clientVars, received, sessionVars, docVars, main, n, now, exitCode, conn>>

RefreshTakesTick ==
  /\ Alive
  /\ refresh = "select"
  /\ tick
  /\ tick' = FALSE
  /\ refresh' = "lock"
  /\ UNCHANGED <<clientVars, received, sessionVars, docVars, main, n, now, exitCode, conn>>

(* hasRunningOpenRange holds s.mu while it goes through the documents. *)
ScanLocks ==
  /\ Alive
  /\ refresh = "lock"
  /\ docMu = Free
  /\ docMu' = "refresh"
  /\ refresh' = "scan"
  /\ UNCHANGED <<clientVars, received, sessionVars, documents, main, n, tick, now,
                 exitCode, conn>>

(* Variant: the client is asked every minute. *)
HasAnything == TRUE

HasRunningOpenRange ==
  \E u \in URIs : documents[u] # 0 /\ now \in RunningAt[sent[documents[u]].text]

(* Variants: the deferred Unlock is forgotten; a `return` for a `continue`; *)
(* n does not count.                                                       *)
NoUnlock == docMu' = docMu
LastRound == refresh' = "done" /\ n' = n + 1
SameRound == refresh' = "select" /\ n' = n

UnlockMu == docMu' = Free
NextRound == refresh' = "select" /\ n' = n + 1

ScanEnds ==
  /\ Alive
  /\ refresh = "scan"
  /\ UnlockMu
  /\ IF HasRunningOpenRange
       THEN /\ refresh' = "write"
            /\ Conn!Call("refresh", RefreshRequest(n))
            /\ n' = n
       ELSE NextRound /\ UNCHANGED conn
  /\ UNCHANGED <<clientVars, received, sessionVars, documents, main, tick, now, exitCode>>

(* An error of write is logged, and the loop goes on. *)
RefreshWrites ==
  /\ Alive
  /\ refresh = "write"
  /\ \/ (Conn!Lock("refresh") \/ Conn!WriteHeader("refresh")) /\ UNCHANGED <<refresh, n>>
     \/ (Conn!WriteBody("refresh") \/ Conn!Fail("refresh")) /\ NextRound
  /\ UNCHANGED <<clientVars, received, sessionVars, docVars, main, tick, now, exitCode>>

RefreshLoop ==
  RefreshStops \/ RefreshTakesTick \/ ScanLocks \/ ScanEnds \/ RefreshWrites

-------------------------------------------------------------------------------
(* The editor and the clock. *)

StreamEnded == \E i \in 1..Len(sent) : sent[i].method \in StreamEnds

ClientSends(m) ==
  /\ Alive
  /\ ~StreamEnded
  /\ Len(sent) < MaxMessages
  /\ Len(sent) - received < MaxUnread
  /\ sent' = Append(sent, m)
  /\ UNCHANGED <<received, sessionVars, docVars, main, refreshVars, now, exitCode, conn>>

ClientStopsReading ==
  /\ Alive
  /\ Conn!Break
  /\ UNCHANGED <<clientVars, received, sessionVars, docVars, main, refreshVars, now, exitCode>>

(* The editor kills the server, or the Go runtime dies of a SIGPIPE. *)
Killed ==
  /\ Alive
  /\ main' = "gone"
  /\ exitCode' = "killed"
  /\ UNCHANGED <<clientVars, received, sessionVars, docVars, refreshVars, now, conn>>

(* The ticker fires; its channel holds one tick, further ones are dropped. *)
MinutePasses ==
  /\ Alive
  /\ now < MaxTime
  /\ now' = now + 1
  /\ tick' = (refresh \notin {"off", "done"})
  /\ UNCHANGED <<clientVars, received, sessionVars, docVars, main, refresh, n, exitCode, conn>>

Environment ==
  (\E m \in Inbound : ClientSends(m)) \/ ClientStopsReading \/ Killed \/ MinutePasses

Next == MainLoop \/ RefreshLoop \/ Environment

Spec == Init /\ [][Next]_vars

(* The Go scheduler runs every runnable goroutine, and its mutexes do not  *)
(* starve a waiter, so each of the two goroutines is strongly fair. The    *)
(* editor and the clock owe nothing.                                       *)
FairSpec == Spec /\ SF_vars(MainLoop) /\ SF_vars(RefreshLoop)

-------------------------------------------------------------------------------
ProcessTypeOK ==
  /\ sent \in Seq(Message) /\ received \in 0..Len(sent)
  /\ initialized \in BOOLEAN /\ shutdown \in BOOLEAN
  /\ documents \in [URIs -> 0..received] /\ docMu \in {Free, "refresh"}
  /\ main \in {"read", "store", "lookup", "write", "returned", "failed", "gone"}
  /\ refresh \in {"off", "select", "lock", "scan", "write", "done"}
  /\ n \in Nat \ {0} /\ tick \in BOOLEAN /\ now \in 0..MaxTime
  /\ exitCode \in {"none", "success", "failure", "killed"}

(* The variables of the process, with those of its connection, have their  *)
(* types.                                                                  *)
TypeOK == ProcessTypeOK /\ Conn!TypeOK
===============================================================================
