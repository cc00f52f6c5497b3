----------------------------- MODULE ServerProofs -----------------------------
(***************************************************************************)
(* Proofs about Server, for any documents, texts, alphabet and bounds.     *)
(***************************************************************************)
EXTENDS ServerProperties, TLAPS

ConnTheorems == INSTANCE ConnectionProofs
                  WITH Goroutines <- {"main", "refresh"}, Payloads <- Frame, mu <- connMu

LEMMA ConnAssumption == ConnTheorems!ConnectionAssumption
BY ServerAssumption DEF ConnTheorems!ConnectionAssumption

(* Conn and ConnTheorems are the same module; what is proved of the latter *)
(* holds of the former.                                                    *)
LEMMA SameSpec == Conn!Spec => ConnTheorems!Spec
<1>1. Conn!Init => ConnTheorems!Init
  BY DEF Conn!Init, ConnTheorems!Init
<1>2. [Conn!Next]_(Conn!connVars) => [ConnTheorems!Next]_(ConnTheorems!connVars)
  BY DEF Conn!Next, Conn!connVars, Conn!Call, Conn!Write, Conn!Lock, Conn!WriteHeader, Conn!WriteBody,
         Conn!Fail, Conn!Break, Conn!Return, Conn!Header, Conn!Body,
         ConnTheorems!Next, ConnTheorems!connVars, ConnTheorems!Call, ConnTheorems!Write,
         ConnTheorems!Lock, ConnTheorems!WriteHeader, ConnTheorems!WriteBody,
         ConnTheorems!Fail, ConnTheorems!Break, ConnTheorems!Return, ConnTheorems!Header,
         ConnTheorems!Body
<1>3. QED  BY <1>1, <1>2, PTL DEF ConnTheorems!Spec, Conn!Spec

LEMMA ConnFrames == Conn!Spec => []ServerFramesIntact
<1>1. ConnTheorems!FramesIntact => ServerFramesIntact
  BY DEF ConnTheorems!FramesIntact, ServerFramesIntact, Conn!FramesIntact, Conn!Header, Conn!Body,
         ConnTheorems!Header, ConnTheorems!Body
<1>2. ConnTheorems!Spec => []ConnTheorems!FramesIntact
  BY ConnAssumption, ConnTheorems!ConnectionFramesIntact
<1>3. QED  BY <1>1, <1>2, SameSpec, PTL

LEMMA ConnTypes == Conn!Spec => []Conn!TypeOK
<1>1. ConnTheorems!TypeOK => Conn!TypeOK
  BY DEF ConnTheorems!TypeOK, Conn!TypeOK, Conn!Chunk, ConnTheorems!Chunk
<1>2. ConnTheorems!Spec => []ConnTheorems!TypeOK
  BY ConnAssumption, ConnTheorems!ConnectionTypeOK
<1>3. QED  BY <1>1, <1>2, SameSpec, PTL

-------------------------------------------------------------------------------
(* The message loop works on the message that it has read last. *)
WorksOnLast == main \in {"store", "lookup"} => received > 0

OwnInv == ProcessTypeOK /\ WorksOnLast

LEMMA InitOwn == Init => OwnInv
<1> SUFFICES ASSUME Init PROVE OwnInv
  OBVIOUS
<1>1. sent \in Seq(Message) /\ Len(sent) = 0
  BY DEF Init
<1>2. documents \in [URIs -> 0..received] /\ received \in 0..Len(sent) /\ now \in 0..MaxTime
  BY <1>1, ServerAssumption DEF Init
<1>3. initialized \in BOOLEAN /\ shutdown \in BOOLEAN /\ tick \in BOOLEAN
  BY Zenon DEF Init
<1>4. docMu \in {Free, "refresh"} /\ main = "read" /\ refresh = "off" /\ exitCode = "none"
  BY Zenon DEF Init
<1>5. n \in Nat \ {0}
  BY DEF Init
<1>6. QED  BY <1>1, <1>2, <1>3, <1>4, <1>5 DEF OwnInv, ProcessTypeOK, WorksOnLast

(* A frame that is put together from the state is a frame. *)
LEMMA FramesAreFrames ==
  ASSUME NEW i \in Nat, NEW d \in Nat, NEW c \in Codes
  PROVE  /\ Response(i, c, d) \in Frame
         /\ Publish(i, d) \in Frame
         /\ RefreshRequest(i) \in Frame
BY DEF Frame, Codes, Response, Publish, RefreshRequest

LEMMA SentMessages ==
  ASSUME OwnInv
  PROVE  \A i \in 1..Len(sent) : sent[i] \in Message
BY DEF OwnInv, ProcessTypeOK

LEMMA MainLoopOwn ==
  ASSUME OwnInv, MainLoop
  PROVE  OwnInv'
<1> USE DEF OwnInv, ProcessTypeOK, WorksOnLast, clientVars, sessionVars, docVars, refreshVars, conn
<1>1. received + 1 \in Nat /\ \A u \in URIs : documents[u] \in 0..(received + 1)
  OBVIOUS
<1>2. documents \in [URIs -> 0..(received + 1)]
  BY <1>1
<1>3. CASE ReadsStreamEnd
  BY <1>2, <1>3 DEF ReadsStreamEnd, Reads
<1>4. CASE ReadsInvalidJSON
  BY <1>2, <1>4 DEF ReadsInvalidJSON, Reads, Answer, Send
<1>5. CASE ReadsResponse
  BY <1>2, <1>5 DEF ReadsResponse, Reads, Ignore
<1>6. CASE Refuses
  BY <1>2, <1>6 DEF Refuses, Reads, Ignore, Answer, Send
<1>7. CASE HandlesInitialize
  <2>1. received' = received + 1 /\ received < Len(sent)
    BY <1>7 DEF HandlesInitialize, Reads
  <2>2. main' = "write"
    BY <1>7 DEF HandlesInitialize, Answer, Send
  <2>3. initialized' \in BOOLEAN
    BY <1>7 DEF HandlesInitialize
  <2>4. refresh' \in {"off", "select", "lock", "scan", "write", "done"}
    BY <1>7 DEF HandlesInitialize, StartsRefresh
  <2>5. QED  BY <1>2, <1>7, <2>1, <2>2, <2>3, <2>4 DEF HandlesInitialize
<1>8. CASE HandlesShutdown
  BY <1>2, <1>8 DEF HandlesShutdown, Reads, Answer, Send
<1>9. CASE HandlesExit
  BY <1>2, <1>9 DEF HandlesExit, Reads
<1>10. CASE HandlesNotification
  BY <1>2, <1>10 DEF HandlesNotification, Reads
<1>11. CASE StoresDocument
  <2>1. sent[received] \in Message
    BY <1>11, SentMessages DEF StoresDocument
  <2>2. sent[received].uri \in URIs
    BY <2>1 DEF Message
  <2>3. documents' \in [URIs -> 0..received]
    BY <1>11, <2>2 DEF StoresDocument
  <2>4. QED  BY <1>11, <2>3 DEF StoresDocument, Send
<1>12. CASE HandlesQuery
  BY <1>2, <1>12 DEF HandlesQuery, Reads, Answer, Send
<1>13. CASE LooksUpDocument
  BY <1>13 DEF LooksUpDocument, Send
<1>14. CASE HandlesUnsupported
  BY <1>2, <1>14 DEF HandlesUnsupported, Reads, Answer, Send
<1>15. CASE MainWrites
  BY <1>15 DEF MainWrites
<1>16. CASE Exits
  BY <1>16 DEF Exits
<1>17. QED
  BY <1>3, <1>4, <1>5, <1>6, <1>7, <1>8, <1>9, <1>10, <1>11, <1>12, <1>13, <1>14, <1>15, <1>16
     DEF MainLoop

LEMMA RefreshLoopOwn ==
  ASSUME OwnInv, RefreshLoop
  PROVE  OwnInv'
<1> USE DEF OwnInv, ProcessTypeOK, WorksOnLast, clientVars, sessionVars, docVars, refreshVars
<1>1. CASE RefreshStops
  BY <1>1 DEF RefreshStops
<1>2. CASE RefreshTakesTick
  BY <1>2 DEF RefreshTakesTick
<1>3. CASE ScanLocks
  BY <1>3 DEF ScanLocks
<1>4. CASE ScanEnds
  BY <1>4 DEF ScanEnds, UnlockMu, NextRound
<1>5. CASE RefreshWrites
  BY <1>5 DEF RefreshWrites, NextRound
<1>6. QED  BY <1>1, <1>2, <1>3, <1>4, <1>5 DEF RefreshLoop

LEMMA EnvironmentOwn ==
  ASSUME OwnInv, Environment
  PROVE  OwnInv'
<1> USE DEF OwnInv, ProcessTypeOK, WorksOnLast, clientVars, sessionVars, docVars, refreshVars
<1>1. ASSUME NEW m \in Inbound, ClientSends(m) PROVE OwnInv'
  <2>1. m \in Message
    BY ServerAssumption
  <2>2. sent' \in Seq(Message) /\ Len(sent') = Len(sent) + 1
    BY <1>1, <2>1 DEF ClientSends
  <2>3. QED  BY <1>1, <2>2 DEF ClientSends
<1>2. CASE ClientStopsReading
  BY <1>2 DEF ClientStopsReading
<1>3. CASE Killed
  BY <1>3 DEF Killed
<1>4. CASE MinutePasses
  BY <1>4, ServerAssumption DEF MinutePasses
<1>5. QED  BY <1>1, <1>2, <1>3, <1>4 DEF Environment

LEMMA NextOwn == OwnInv /\ [Next]_vars => OwnInv'
<1> SUFFICES ASSUME OwnInv, [Next]_vars PROVE OwnInv'
  OBVIOUS
<1>1. CASE UNCHANGED vars
  BY <1>1 DEF vars, OwnInv, ProcessTypeOK, WorksOnLast
<1>2. QED  BY <1>1, MainLoopOwn, RefreshLoopOwn, EnvironmentOwn DEF Next

LEMMA SpecOwn == Spec => []OwnInv
BY InitOwn, NextOwn, PTL DEF Spec

-------------------------------------------------------------------------------
(* What the two loops do to the connection, Connection allows. *)

LEMMA InitUsesConn == Init => Conn!Init
BY DEF Init

LEMMA MainLoopUsesConn ==
  ASSUME OwnInv, MainLoop
  PROVE  [Conn!Next]_(Conn!connVars)
<1> USE DEF Conn!connVars, conn
<1>1. ASSUME NEW f \in Frame, Conn!Call("main", f) PROVE Conn!Next
  BY <1>1 DEF Conn!Next
<1>2. ASSUME NEW c \in Codes, Answer(c), received' = received + 1 PROVE Conn!Next
  <2>1. Response(received', c, 0) \in Frame
    BY <1>2, FramesAreFrames DEF OwnInv, ProcessTypeOK
  <2>2. QED  BY <1>1, <1>2, <2>1 DEF Answer, Send
<1>3. CASE ReadsStreamEnd
  BY <1>3 DEF ReadsStreamEnd
<1>4. CASE ReadsInvalidJSON
  BY <1>2, <1>4 DEF ReadsInvalidJSON, Reads, Codes
<1>5. CASE ReadsResponse
  BY <1>5 DEF ReadsResponse, Ignore
<1>6. CASE Refuses
  <2>1. CASE Ignore
    BY <2>1 DEF Ignore
  <2>2. ASSUME NEW c \in Codes, Answer(c) PROVE Conn!Next
    BY <1>2, <1>6, <2>2 DEF Refuses, Reads
  <2>3. QED  BY <1>6, <2>1, <2>2 DEF Refuses, Codes
<1>7. CASE HandlesInitialize
  <2>1. received' = received + 1
    BY <1>7 DEF HandlesInitialize, Reads
  <2>2. \E c \in Codes : Answer(c)
    BY <1>7 DEF HandlesInitialize, Codes
  <2>3. QED  BY <1>2, <2>1, <2>2
<1>8. CASE HandlesShutdown
  BY <1>2, <1>8 DEF HandlesShutdown, Reads, Codes
<1>9. CASE HandlesExit
  BY <1>9 DEF HandlesExit
<1>10. CASE HandlesNotification
  BY <1>10 DEF HandlesNotification
<1>11. CASE StoresDocument
  <2>1. \E d \in Nat : Send(Publish(received, d))
    BY <1>11 DEF StoresDocument, OwnInv, ProcessTypeOK
  <2>2. QED  BY <1>1, <2>1, FramesAreFrames DEF Send, OwnInv, ProcessTypeOK, Codes
<1>12. CASE HandlesQuery
  <2>1. CASE Incoming.valid
    BY <1>12, <2>1 DEF HandlesQuery
  <2>2. CASE ~Incoming.valid
    BY <1>2, <1>12, <2>2 DEF HandlesQuery, Reads, Codes
  <2>3. QED  BY <2>1, <2>2
<1>13. CASE LooksUpDocument
  <2>1. sent[received] \in Message
    BY <1>13, SentMessages DEF LooksUpDocument, OwnInv, ProcessTypeOK, WorksOnLast
  <2>2. documents[sent[received].uri] \in Nat
    BY <2>1 DEF Message, OwnInv, ProcessTypeOK
  <2>3. Response(received, "ok", documents[sent[received].uri]) \in Frame
    BY <2>2, FramesAreFrames DEF OwnInv, ProcessTypeOK, Codes
  <2>4. QED  BY <1>1, <1>13, <2>3 DEF LooksUpDocument, Send
<1>14. CASE HandlesUnsupported
  BY <1>2, <1>14 DEF HandlesUnsupported, Reads, Codes
<1>15. CASE MainWrites
  BY <1>15 DEF MainWrites, Conn!Next, Conn!Write
<1>16. CASE Exits
  BY <1>16 DEF Exits
<1>17. QED
  BY <1>3, <1>4, <1>5, <1>6, <1>7, <1>8, <1>9, <1>10, <1>11, <1>12, <1>13, <1>14, <1>15, <1>16
     DEF MainLoop

LEMMA RefreshLoopUsesConn ==
  ASSUME OwnInv, RefreshLoop
  PROVE  [Conn!Next]_(Conn!connVars)
<1> USE DEF Conn!connVars, conn
<1>1. CASE RefreshStops \/ RefreshTakesTick \/ ScanLocks
  BY <1>1 DEF RefreshStops, RefreshTakesTick, ScanLocks
<1>2. CASE ScanEnds
  <2>1. RefreshRequest(n) \in Frame
    BY FramesAreFrames DEF OwnInv, ProcessTypeOK, Codes
  <2>2. QED  BY <1>2, <2>1 DEF ScanEnds, Conn!Next
<1>3. CASE RefreshWrites
  BY <1>3 DEF RefreshWrites, Conn!Next, Conn!Write
<1>4. QED  BY <1>1, <1>2, <1>3 DEF RefreshLoop

LEMMA EnvironmentUsesConn ==
  ASSUME Environment
  PROVE  [Conn!Next]_(Conn!connVars)
BY DEF Environment, ClientSends, ClientStopsReading, Killed, MinutePasses, conn, Conn!connVars, Conn!Next

(* The process uses its connection as Connection has it, so that what is   *)
(* proved of Connection holds in the process.                              *)
THEOREM ServerUsesConnection == Spec => Conn!Spec
<1>1. OwnInv /\ [Next]_vars => [Conn!Next]_(Conn!connVars)
  <2> SUFFICES ASSUME OwnInv, [Next]_vars PROVE [Conn!Next]_(Conn!connVars)
    OBVIOUS
  <2>1. CASE UNCHANGED vars
    BY <2>1 DEF vars, Conn!connVars
  <2>2. QED  BY <2>1, MainLoopUsesConn, RefreshLoopUsesConn, EnvironmentUsesConn DEF Next
<1>2. QED  BY <1>1, InitUsesConn, SpecOwn, PTL DEF Spec, Conn!Spec

(* Neither loop ever writes into a frame of the other (connection.mu). *)
THEOREM ServerFramesStayIntact == Spec => []ServerFramesIntact
BY ServerUsesConnection, ConnFrames, PTL

(* The variables of the process and of its connection keep their types. *)
THEOREM ServerTypeOK == Spec => []TypeOK
<1>1. Conn!Spec => []Conn!TypeOK
  BY ConnTypes
<1>2. OwnInv /\ Conn!TypeOK => TypeOK
  BY DEF OwnInv, TypeOK
<1>3. QED  BY <1>1, <1>2, SpecOwn, ServerUsesConnection, PTL

-------------------------------------------------------------------------------
(* No refresh request before the initialize result. The refresh loop asks  *)
(* only when a document is open; a document is only opened when the        *)
(* message loop is done with initialize, that is, when its result is out.  *)

IsResult(f, s) ==
  /\ f \in Frame
  /\ f.kind = "response" /\ f.code = "ok"
  /\ f.re \in 1..Len(s) /\ s[f.re].method = "initialize"

ResultBefore(p, w, s) == \E q \in 1..(p - 1) : w[q].part = "body" /\ IsResult(w[q].msg, s)
ResultOut == ResultBefore(Len(wire) + 1, wire, sent)

LoopKnows ==
  /\ initialized /\ main \in {"read", "store", "lookup"} => ResultOut
  /\ initialized /\ main = "write" => ResultOut \/ IsResult(out["main"], sent)
  /\ ~initialized => main \notin {"store", "lookup"}

DocumentsAfterResult == \A u \in URIs : documents[u] # 0 => ResultOut

FramesAfterResult ==
  /\ out["main"] # NoMessage => out["main"].kind # "refresh"
  /\ out["refresh"] # NoMessage => ResultOut
  /\ \A p \in 1..Len(wire) : wire[p].msg.kind = "refresh" => ResultBefore(p, wire, sent)

ResultInv == LoopKnows /\ DocumentsAfterResult /\ FramesAfterResult

LEMMA ResultInvSuffices == ResultInv => RefreshAfterInitializeResult
BY DEF ResultInv, FramesAfterResult, ResultBefore, IsResult, RefreshAfterInitializeResult

LEMMA InitResult == Init => ResultInv
<1> SUFFICES ASSUME Init PROVE ResultInv
  OBVIOUS
<1>1. ~initialized /\ main = "read" /\ \A u \in URIs : documents[u] = 0
  BY Zenon DEF Init
<1>2. wire = <<>> /\ out["main"] = NoMessage /\ out["refresh"] = NoMessage
  BY DEF Init, Conn!Init
<1>3. LoopKnows
  BY <1>1 DEF LoopKnows
<1>4. DocumentsAfterResult /\ FramesAfterResult
  BY <1>1, <1>2 DEF DocumentsAfterResult, FramesAfterResult
<1>5. QED  BY <1>3, <1>4 DEF ResultInv

(* What is on the wire, and what the client has sent, stays. *)
Extends(s, t) == Len(s) <= Len(t) /\ \A i \in 1..Len(s) : t[i] = s[i]

LEMMA ResultStays ==
  ASSUME NEW s \in Seq(Message), NEW s2 \in Seq(Message), Extends(s, s2),
         NEW w \in Seq(Conn!Chunk), NEW w2 \in Seq(Conn!Chunk), Extends(w, w2)
  PROVE  /\ \A f \in Frame : IsResult(f, s) => IsResult(f, s2)
         /\ \A p \in 1..(Len(w) + 1) : ResultBefore(p, w, s) => ResultBefore(p, w2, s2)
         /\ ResultBefore(Len(w) + 1, w, s) => ResultBefore(Len(w2) + 1, w2, s2)
<1>1. /\ Len(s) \in Nat /\ Len(s2) \in Nat /\ Len(w) \in Nat /\ Len(w2) \in Nat
      /\ \A i \in 1..Len(w) : w[i] \in Conn!Chunk
  OBVIOUS
<1>2. \A f \in Frame : IsResult(f, s) => IsResult(f, s2)
  BY <1>1 DEF IsResult, Extends
<1>3. ASSUME NEW p \in 1..(Len(w) + 1), NEW p2 \in Nat, p <= p2, ResultBefore(p, w, s)
      PROVE  ResultBefore(p2, w2, s2)
  <2>1. PICK q \in 1..(p - 1) : w[q].part = "body" /\ IsResult(w[q].msg, s)
    BY <1>3 DEF ResultBefore
  <2>2. q \in 1..Len(w) /\ w[q].msg \in Frame /\ w2[q] = w[q]
    BY <1>1, <2>1 DEF Extends, Conn!Chunk
  <2>3. IsResult(w2[q].msg, s2)
    BY <1>2, <2>1, <2>2
  <2>4. QED  BY <1>3, <2>1, <2>2, <2>3 DEF ResultBefore
<1>4. Len(w) + 1 \in 1..(Len(w) + 1) /\ Len(w) + 1 <= Len(w2) + 1 /\ Len(w2) + 1 \in Nat
  BY <1>1 DEF Extends
<1>5. QED  BY <1>2, <1>3, <1>4

(* The steps on the connection, as far as ResultInv is concerned. *)
LEMMA ConnStepResult ==
  ASSUME TypeOK, TypeOK', ResultInv, UNCHANGED sent, ConnTheorems!HasMessage,
         NEW g \in {"main", "refresh"},
         Conn!Lock(g) \/ Conn!WriteHeader(g) \/ Conn!WriteBody(g) \/ Conn!Fail(g)
  PROVE  /\ FramesAfterResult'
         /\ ResultOut => ResultOut'
         /\ Conn!WriteBody("main") /\ IsResult(out["main"], sent) => ResultOut'
         /\ out'["main"] \in {out["main"], NoMessage}
<1>1. /\ wire \in Seq(Conn!Chunk) /\ wire' \in Seq(Conn!Chunk) /\ sent \in Seq(Message)
      /\ out \in [{"main", "refresh"} -> Frame \union {NoMessage}]
      /\ stage \in [{"main", "refresh"} -> {"idle", "locking", "header", "body"}]
      /\ Len(wire) \in Nat
  BY DEF TypeOK, ProcessTypeOK, Conn!TypeOK
<1>2. out[g] # NoMessage
  BY <1>1 DEF ConnTheorems!HasMessage, Conn!Lock, Conn!WriteHeader, Conn!WriteBody, Conn!Fail
<1>3. out' = out \/ out' = [out EXCEPT ![g] = NoMessage]
  BY DEF Conn!Lock, Conn!WriteHeader, Conn!WriteBody, Conn!Fail, Conn!Return
<1>4. \/ wire' = wire
      \/ \E part \in {"header", "body"} :
           wire' = Append(wire, [part |-> part, msg |-> out[g]])
  BY DEF Conn!Lock, Conn!WriteHeader, Conn!WriteBody, Conn!Fail, Conn!Header, Conn!Body
<1>5. Extends(sent, sent') /\ Extends(wire, wire')
  <2>1. CASE wire' = wire
    BY <1>1, <2>1 DEF Extends
  <2>2. ASSUME NEW c, wire' = Append(wire, c) PROVE Extends(wire, wire')
    BY <1>1, <2>2 DEF Extends
  <2>3. Extends(sent, sent')
    BY <1>1 DEF Extends
  <2>4. QED  BY <1>4, <2>1, <2>2, <2>3
<1>6. /\ ResultOut => ResultOut'
      /\ \A p \in 1..(Len(wire) + 1) : ResultBefore(p, wire, sent) => ResultBefore(p, wire', sent')
  BY <1>1, <1>5, ResultStays DEF ResultOut
<1>7. out'["main"] \in {out["main"], NoMessage} /\ out'["refresh"] \in {out["refresh"], NoMessage}
  BY <1>1, <1>3
<1>8. ASSUME NEW p \in 1..Len(wire'), wire'[p].msg.kind = "refresh"
      PROVE  ResultBefore(p, wire', sent')
  <2>1. CASE p \in 1..Len(wire)
    BY <1>1, <1>5, <1>6, <1>8, <2>1 DEF Extends, ResultInv, FramesAfterResult
  <2>2. CASE p \notin 1..Len(wire)
    <3>1. p = Len(wire) + 1 /\ wire'[p].msg = out[g]
      BY <1>1, <1>4, <2>2
    <3>2. g = "refresh"
      BY <1>2, <1>8, <3>1 DEF ResultInv, FramesAfterResult
    <3>3. ResultOut
      BY <1>2, <3>2 DEF ResultInv, FramesAfterResult
    <3>4. QED  BY <1>1, <1>6, <3>1, <3>3 DEF ResultOut
  <2>3. QED  BY <2>1, <2>2
<1>9. FramesAfterResult'
  BY <1>6, <1>7, <1>8 DEF ResultInv, FramesAfterResult
<1>10. ASSUME Conn!WriteBody("main"), IsResult(out["main"], sent) PROVE ResultOut'
  <2>1. /\ Len(wire') = Len(wire) + 1 /\ wire'[Len(wire) + 1] = Conn!Body(out["main"])
    BY <1>1, <1>10 DEF Conn!WriteBody
  <2>2. IsResult(wire'[Len(wire) + 1].msg, sent') /\ wire'[Len(wire) + 1].part = "body"
    BY <1>10, <2>1 DEF Conn!Body
  <2>3. QED  BY <1>1, <2>1, <2>2 DEF ResultOut, ResultBefore
<1>11. QED  BY <1>6, <1>7, <1>9, <1>10

(* A step that reads a message and leaves initialized alone. *)
LEMMA ReadResult ==
  ASSUME TypeOK, ResultInv, main = "read", initialized' = initialized,
         UNCHANGED <<sent, documents, wire>>,
         main' \in {"store", "lookup"} => initialized,
         \/ out' = out
         \/ \E f \in Frame : f.kind # "refresh" /\ out' = [out EXCEPT !["main"] = f]
  PROVE  ResultInv'
<1>1. out \in [{"main", "refresh"} -> Frame \union {NoMessage}]
  BY DEF TypeOK, Conn!TypeOK
<1>2. ResultOut' <=> ResultOut
  BY DEF ResultOut
<1>3. initialized => ResultOut
  BY DEF ResultInv, LoopKnows
<1>4. LoopKnows'
  BY <1>2, <1>3 DEF LoopKnows
<1>5. DocumentsAfterResult'
  BY <1>2 DEF ResultInv, DocumentsAfterResult
<1>6. FramesAfterResult'
  <2>1. /\ out'["main"] # NoMessage => out'["main"].kind # "refresh"
        /\ out'["refresh"] = out["refresh"]
    BY <1>1 DEF ResultInv, FramesAfterResult
  <2>2. QED  BY <1>2, <2>1 DEF ResultInv, FramesAfterResult
<1>7. QED  BY <1>4, <1>5, <1>6 DEF ResultInv

LEMMA MainLoopResult ==
  ASSUME TypeOK, TypeOK', WorksOnLast, ResultInv, MainLoop, ConnTheorems!HasMessage
  PROVE  ResultInv'
<1> USE DEF clientVars, sessionVars, docVars, refreshVars, conn
<1>1. /\ out \in [{"main", "refresh"} -> Frame \union {NoMessage}]
      /\ received \in Nat /\ received <= Len(sent) /\ Len(sent) \in Nat
      /\ documents \in [URIs -> 0..received]
  BY DEF TypeOK, ProcessTypeOK, Conn!TypeOK
<1>2. ASSUME NEW c \in Codes, NEW d \in Nat, Send(Response(received', c, d)), received' \in Nat
      PROVE  \E f \in Frame : /\ f.kind # "refresh" /\ out' = [out EXCEPT !["main"] = f]
                              /\ UNCHANGED wire
  <2>1. Response(received', c, d) \in Frame /\ Response(received', c, d).kind # "refresh"
    BY <1>2, FramesAreFrames DEF Response
  <2>2. QED  BY <1>2, <2>1 DEF Send, Conn!Call
<1>3. CASE ReadsStreamEnd
  BY <1>3, ReadResult DEF ReadsStreamEnd, Reads
<1>4. CASE ReadsInvalidJSON
  BY <1>1, <1>2, <1>4, ReadResult DEF ReadsInvalidJSON, Reads, Answer, Send, Codes
<1>5. CASE ReadsResponse
  BY <1>5, ReadResult DEF ReadsResponse, Reads, Ignore
<1>6. CASE Refuses
  <2>1. CASE Ignore
    BY <1>6, <2>1, ReadResult DEF Refuses, Reads, Ignore
  <2>2. ASSUME NEW c \in Codes, Answer(c) PROVE ResultInv'
    BY <1>1, <1>2, <1>6, <2>2, ReadResult DEF Refuses, Reads, Answer, Send
  <2>3. QED  BY <1>6, <2>1, <2>2 DEF Refuses, Codes
<1>7. CASE HandlesInitialize
  <2>1. CASE ~initialized /\ Incoming.valid
    <3>1. out' = [out EXCEPT !["main"] = Response(received', "ok", 0)] /\ UNCHANGED wire
      BY <1>7, <2>1 DEF HandlesInitialize, Answer, Send, Conn!Call
    <3>2. IsResult(out'["main"], sent') /\ out'["main"].kind # "refresh"
      <4>1. out'["main"] = Response(received', "ok", 0) /\ received' \in Nat
        BY <1>1, <1>7, <3>1 DEF HandlesInitialize, Reads
      <4>2. out'["main"] \in Frame
        BY <4>1, FramesAreFrames DEF Codes
      <4>3. received' \in 1..Len(sent') /\ sent'[received'].method = "initialize"
        BY <1>1, <1>7 DEF HandlesInitialize, Reads, Incoming
      <4>4. QED  BY <4>1, <4>2, <4>3 DEF IsResult, Response
    <3>3. main' = "write" /\ (ResultOut' <=> ResultOut)
      BY <1>7, <2>1, <3>1 DEF HandlesInitialize, Answer, Send, ResultOut
    <3>4. LoopKnows'
      BY <3>2, <3>3 DEF LoopKnows
    <3>5. DocumentsAfterResult'
      BY <1>7, <3>3 DEF HandlesInitialize, ResultInv, DocumentsAfterResult
    <3>6. FramesAfterResult'
      BY <1>1, <1>7, <3>1, <3>2, <3>3 DEF HandlesInitialize, ResultInv, FramesAfterResult
    <3>7. QED  BY <3>4, <3>5, <3>6 DEF ResultInv
  <2>2. CASE ~(~initialized /\ Incoming.valid)
    <3>1. \E c \in Codes : Answer(c)
      BY <1>7, <2>2 DEF HandlesInitialize, Codes
    <3>2. QED  BY <1>1, <1>2, <1>7, <2>2, <3>1, ReadResult DEF HandlesInitialize, Reads, Answer, Send
  <2>3. QED  BY <2>1, <2>2
<1>8. CASE HandlesShutdown
  BY <1>1, <1>2, <1>8, ReadResult DEF HandlesShutdown, Reads, Answer, Send, Codes
<1>9. CASE HandlesExit
  BY <1>9, ReadResult DEF HandlesExit, Reads
<1>10. CASE HandlesNotification
  BY <1>10, ReadResult DEF HandlesNotification, Reads
<1>11. CASE StoresDocument
  <2>1. ResultOut /\ (ResultOut' <=> ResultOut)
    BY <1>11 DEF StoresDocument, Send, Conn!Call, ResultInv, LoopKnows, ResultOut
  <2>2. \E f : f.kind = "publish" /\ out' = [out EXCEPT !["main"] = f]
    <3>1. \E d : Send(Publish(received, d))
      BY <1>11 DEF StoresDocument
    <3>2. \A d : Publish(received, d).kind = "publish"
      BY DEF Publish
    <3>3. QED  BY <3>1, <3>2 DEF Send, Conn!Call
  <2>3. LoopKnows' /\ DocumentsAfterResult'
    BY <1>11, <2>1 DEF StoresDocument, Send, ResultInv, LoopKnows, DocumentsAfterResult
  <2>4. FramesAfterResult'
    BY <1>1, <1>11, <2>1, <2>2 DEF StoresDocument, Send, Conn!Call, ResultInv, FramesAfterResult
  <2>5. QED  BY <2>3, <2>4 DEF ResultInv
<1>12. CASE HandlesQuery
  <2>1. CASE Incoming.valid
    BY <1>12, <2>1, ReadResult DEF HandlesQuery, Reads
  <2>2. CASE ~Incoming.valid
    BY <1>1, <1>2, <1>12, <2>2, ReadResult DEF HandlesQuery, Reads, Answer, Send, Codes
  <2>3. QED  BY <2>1, <2>2
<1>13. CASE LooksUpDocument
  <2>1. ResultOut /\ (ResultOut' <=> ResultOut)
    BY <1>13 DEF LooksUpDocument, Send, Conn!Call, ResultInv, LoopKnows, ResultOut
  <2>2. \E f : f.kind = "response" /\ out' = [out EXCEPT !["main"] = f]
    BY <1>13 DEF LooksUpDocument, Send, Conn!Call, Response
  <2>3. LoopKnows' /\ DocumentsAfterResult'
    BY <1>13, <2>1 DEF LooksUpDocument, Send, ResultInv, LoopKnows, DocumentsAfterResult
  <2>4. FramesAfterResult'
    BY <1>1, <1>13, <2>1, <2>2 DEF LooksUpDocument, Send, Conn!Call, ResultInv, FramesAfterResult
  <2>5. QED  BY <2>3, <2>4 DEF ResultInv
<1>14. CASE HandlesUnsupported
  BY <1>1, <1>2, <1>14, ReadResult DEF HandlesUnsupported, Reads, Answer, Send, Codes
<1>15. CASE MainWrites
  <2>1. /\ FramesAfterResult'
        /\ ResultOut => ResultOut'
        /\ Conn!WriteBody("main") /\ IsResult(out["main"], sent) => ResultOut'
    BY <1>15, ConnStepResult DEF MainWrites
  <2>2. DocumentsAfterResult'
    BY <1>15, <2>1 DEF MainWrites, ResultInv, DocumentsAfterResult
  <2>3. LoopKnows'
    <3>1. CASE Conn!Lock("main") /\ main' = main
      BY <1>15, <2>1, <3>1 DEF MainWrites, Conn!Lock, ResultInv, LoopKnows
    <3>2. CASE Conn!WriteHeader("main") /\ main' = main
      BY <1>15, <2>1, <3>2 DEF MainWrites, Conn!WriteHeader, ResultInv, LoopKnows
    <3>3. CASE Conn!WriteBody("main") /\ main' = "read"
      BY <1>15, <2>1, <3>3 DEF MainWrites, ResultInv, LoopKnows
    <3>4. CASE Conn!Fail("main") /\ main' = "failed"
      BY <1>15, <2>1, <3>4 DEF MainWrites, ResultInv, LoopKnows
    <3>5. QED  BY <1>15, <3>1, <3>2, <3>3, <3>4 DEF MainWrites
  <2>4. QED  BY <2>1, <2>2, <2>3 DEF ResultInv
<1>16. CASE Exits
  BY <1>16 DEF Exits, ResultInv, LoopKnows, DocumentsAfterResult, FramesAfterResult, ResultOut
<1>17. QED
  BY <1>3, <1>4, <1>5, <1>6, <1>7, <1>8, <1>9, <1>10, <1>11, <1>12, <1>13, <1>14, <1>15, <1>16
     DEF MainLoop

LEMMA RefreshLoopResult ==
  ASSUME TypeOK, TypeOK', ResultInv, RefreshLoop, ConnTheorems!HasMessage
  PROVE  ResultInv'
<1> USE DEF clientVars, sessionVars, docVars, refreshVars, conn
<1>1. CASE RefreshStops \/ RefreshTakesTick \/ ScanLocks
  BY <1>1 DEF RefreshStops, RefreshTakesTick, ScanLocks, ResultInv, LoopKnows,
              DocumentsAfterResult, FramesAfterResult, ResultOut
<1>2. CASE ScanEnds
  <2>1. CASE HasRunningOpenRange
    <3>1. ResultOut
      BY <2>1 DEF HasRunningOpenRange, ResultInv, DocumentsAfterResult
    <3>2. UNCHANGED <<sent, wire, documents, main, initialized>>
          /\ out' = [out EXCEPT !["refresh"] = RefreshRequest(n)]
      BY <1>2, <2>1 DEF ScanEnds, Conn!Call
    <3>3. ResultOut' /\ out'["main"] = out["main"]
      BY <3>1, <3>2 DEF ResultOut, TypeOK, Conn!TypeOK
    <3>4. QED
      BY <3>2, <3>3 DEF ResultInv, LoopKnows, DocumentsAfterResult, FramesAfterResult
  <2>2. CASE ~HasRunningOpenRange
    BY <1>2, <2>2 DEF ScanEnds, ResultInv, LoopKnows, DocumentsAfterResult, FramesAfterResult,
                      ResultOut
  <2>3. QED  BY <2>1, <2>2
<1>3. CASE RefreshWrites
  <2>1. /\ FramesAfterResult' /\ (ResultOut => ResultOut')
        /\ out'["main"] = out["main"]
    <3>1. \E f : out' = [out EXCEPT !["refresh"] = f] \/ out' = out
      BY <1>3 DEF RefreshWrites, Conn!Lock, Conn!WriteHeader, Conn!WriteBody, Conn!Fail, Conn!Return
    <3>2. out'["main"] = out["main"]
      BY <3>1 DEF TypeOK, Conn!TypeOK
    <3>3. QED  BY <1>3, <3>2, ConnStepResult DEF RefreshWrites
  <2>2. UNCHANGED <<sent, documents, main, initialized>>
    BY <1>3 DEF RefreshWrites
  <2>3. QED  BY <2>1, <2>2 DEF ResultInv, LoopKnows, DocumentsAfterResult
<1>4. QED  BY <1>1, <1>2, <1>3 DEF RefreshLoop

LEMMA EnvironmentResult ==
  ASSUME TypeOK, TypeOK', ResultInv, Environment
  PROVE  ResultInv'
<1> USE DEF clientVars, sessionVars, docVars, refreshVars, conn
<1>1. ASSUME NEW m \in Inbound, ClientSends(m) PROVE ResultInv'
  <2>1. /\ sent \in Seq(Message) /\ sent' \in Seq(Message) /\ wire \in Seq(Conn!Chunk)
        /\ out \in [{"main", "refresh"} -> Frame \union {NoMessage}]
        /\ Len(wire) \in Nat
    BY DEF TypeOK, ProcessTypeOK, Conn!TypeOK
  <2>2. Extends(sent, sent') /\ Extends(wire, wire)
    BY <1>1, <2>1 DEF ClientSends, Extends
  <2>3. /\ \A f \in Frame : IsResult(f, sent) => IsResult(f, sent')
        /\ \A p \in 1..(Len(wire) + 1) : ResultBefore(p, wire, sent) => ResultBefore(p, wire, sent')
    BY <2>1, <2>2, ResultStays
  <2>4. ResultOut => ResultOut'
    BY <1>1, <2>1, <2>3 DEF ClientSends, ResultOut
  <2>5. LoopKnows'
    <3>1. IsResult(out["main"], sent) => IsResult(out["main"], sent')
      BY <2>3 DEF IsResult
    <3>2. QED
      BY <1>1, <2>4, <3>1 DEF ClientSends, ResultInv, LoopKnows
  <2>6. DocumentsAfterResult'
    BY <1>1, <2>4 DEF ClientSends, ResultInv, DocumentsAfterResult
  <2>7. FramesAfterResult'
    BY <1>1, <2>1, <2>3, <2>4 DEF ClientSends, ResultInv, FramesAfterResult
  <2>8. QED  BY <2>5, <2>6, <2>7 DEF ResultInv
<1>2. CASE ClientStopsReading \/ MinutePasses
  BY <1>2 DEF ClientStopsReading, Conn!Break, MinutePasses, ResultInv, LoopKnows,
              DocumentsAfterResult, FramesAfterResult, ResultOut
<1>3. CASE Killed
  BY <1>3 DEF Killed, ResultInv, LoopKnows, DocumentsAfterResult, FramesAfterResult, ResultOut
<1>4. QED  BY <1>1, <1>2, <1>3 DEF Environment

(* The client sees the result of initialize before any refresh request,    *)
(* whatever the ticker does while handle is at work.                       *)
THEOREM ServerRefreshAfterInitializeResult == Spec => []RefreshAfterInitializeResult
<1>1. Spec => []ConnTheorems!HasMessage
  <2>1. ConnTheorems!Spec => []ConnTheorems!IInv
    BY ConnAssumption, ConnTheorems!SpecIInv
  <2>2. ConnTheorems!IInv => ConnTheorems!HasMessage
    BY DEF ConnTheorems!IInv
  <2>3. QED  BY <2>1, <2>2, ServerUsesConnection, SameSpec, PTL
<1>2. OwnInv => WorksOnLast
  BY DEF OwnInv
<1>3. /\ TypeOK /\ TypeOK' /\ WorksOnLast /\ ConnTheorems!HasMessage
      /\ ResultInv /\ [Next]_vars
      => ResultInv'
  <2> SUFFICES ASSUME TypeOK, TypeOK', WorksOnLast, ConnTheorems!HasMessage, ResultInv, [Next]_vars
               PROVE  ResultInv'
    OBVIOUS
  <2>1. CASE UNCHANGED vars
    BY <2>1 DEF vars, ResultInv, LoopKnows, DocumentsAfterResult, FramesAfterResult, ResultOut
  <2>2. QED  BY <2>1, MainLoopResult, RefreshLoopResult, EnvironmentResult DEF Next
<1>4. QED
  BY <1>1, <1>2, <1>3, InitResult, ResultInvSuffices, ServerTypeOK, SpecOwn, PTL DEF Spec

-------------------------------------------------------------------------------
(* While the refresh loop goes through the documents, it has server.mu.    *)
ScansUnderMu == refresh = "scan" => docMu # Free

LEMMA ScanStep ==
  ASSUME ScansUnderMu, [Next]_vars
  PROVE  ScansUnderMu' /\ (refresh = "scan" => UNCHANGED documents)
<1> USE DEF ScansUnderMu, sessionVars, docVars, refreshVars
<1>1. CASE MainLoop
  <2>1. CASE StoresDocument
    BY <2>1 DEF StoresDocument, UnderMu
  <2>2. CASE HandlesInitialize
    BY <2>2 DEF HandlesInitialize, StartsRefresh
  <2>3. (UNCHANGED docVars /\ UNCHANGED refreshVars) \/ StoresDocument \/ HandlesInitialize
    BY <1>1, Zenon DEF MainLoop, ReadsStreamEnd, ReadsInvalidJSON, ReadsResponse, Refuses, HandlesShutdown,
         HandlesExit, HandlesNotification, HandlesQuery, LooksUpDocument, HandlesUnsupported, MainWrites, Exits
  <2> QED BY <2>1, <2>2, <2>3
<1>2. CASE RefreshLoop
  <2>1. CASE RefreshStops
    BY <2>1 DEF RefreshStops
  <2>2. CASE RefreshTakesTick
    BY <2>2 DEF RefreshTakesTick
  <2>3. CASE ScanLocks
    BY <2>3, ServerAssumption DEF ScanLocks
  <2>4. CASE ScanEnds
    BY <2>4 DEF ScanEnds, NextRound
  <2>5. CASE RefreshWrites
    BY <2>5 DEF RefreshWrites, NextRound
  <2> QED BY <1>2, <2>1, <2>2, <2>3, <2>4, <2>5 DEF RefreshLoop
<1>3. CASE Environment
  BY <1>3 DEF Environment, ClientSends, ClientStopsReading, Killed, MinutePasses
<1>4. CASE UNCHANGED vars
  BY <1>4 DEF vars
<1> QED BY <1>1, <1>2, <1>3, <1>4 DEF Next

(* The message loop changes no document while hasRunningOpenRange goes     *)
(* through them (server.mu).                                               *)
THEOREM ServerScanIsAtomic == Spec => ScanIsAtomic
<1>1. Init => ScansUnderMu
  BY DEF Init, ScansUnderMu
<1>2. ScansUnderMu /\ [Next]_vars => ScansUnderMu'
  BY ScanStep
<1>3. ScansUnderMu /\ [Next]_vars => [refresh = "scan" => UNCHANGED documents]_vars
  BY ScanStep
<1> QED BY <1>1, <1>2, <1>3, PTL DEF Spec, ScanIsAtomic

-------------------------------------------------------------------------------
(* Where the two goroutines are tells what each of them holds and waits for.*)
Locks ==
  /\ docMu # Free => refresh = "scan"
  /\ Alive => (main = "write" <=> stage["main"] # "idle")
  /\ refresh = "write" <=> stage["refresh"] # "idle"
  /\ ~initialized => refresh = "off"

LEMMA InitLocks == Init => Locks
BY DEF Init, Conn!Init, Locks

(* What a step of write does to the stages. *)
LEMMA WriteStages ==
  ASSUME Conn!TypeOK, NEW g \in {"main", "refresh"}, NEW h \in {"main", "refresh"}, h # g
  PROVE  /\ \A f : Conn!Call(g, f) => stage'[g] # "idle" /\ stage'[h] = stage[h]
         /\ Conn!Lock(g) \/ Conn!WriteHeader(g) => stage'[g] # "idle" /\ stage'[h] = stage[h]
         /\ Conn!WriteBody(g) \/ Conn!Fail(g) => stage'[g] = "idle" /\ stage'[h] = stage[h]
BY DEF Conn!TypeOK, Conn!Call, Conn!Lock, Conn!WriteHeader, Conn!WriteBody, Conn!Fail, Conn!Return

(* The steps of the message loop: the connection is left alone, or write is*)
(* called, or goes on.                                                     *)
LEMMA MainSteps ==
  ASSUME MainLoop
  PROVE  /\ Alive
         /\ UNCHANGED docMu
         /\ \/ UNCHANGED initialized /\ UNCHANGED refresh
            \/ initialized' /\ (UNCHANGED refresh \/ (~initialized /\ refresh' = "select"))
         /\ \/ main # "write" /\ main' # "write" /\ UNCHANGED conn
            \/ main # "write" /\ main' = "write" /\ \E f : Conn!Call("main", f)
            \/ main = "write" /\ main' = "write" /\ (Conn!Lock("main") \/ Conn!WriteHeader("main"))
            \/ main = "write" /\ main' # "write" /\ (Conn!WriteBody("main") \/ Conn!Fail("main"))
<1> USE DEF Alive, sessionVars, docVars, refreshVars, Reads, Answer, Send, Ignore
<1>1. CASE ReadsStreamEnd BY <1>1, Zenon DEF ReadsStreamEnd
<1>2. CASE ReadsInvalidJSON BY <1>2, Zenon DEF ReadsInvalidJSON
<1>3. CASE ReadsResponse BY <1>3, Zenon DEF ReadsResponse
<1>4. CASE Refuses BY <1>4, Zenon DEF Refuses
<1>5. CASE HandlesInitialize
  <2>1. main = "read" /\ main' = "write" /\ UNCHANGED docMu /\ \E f : Conn!Call("main", f)
    BY <1>5, Zenon DEF HandlesInitialize
  <2>2. CASE ~initialized /\ Incoming.valid
    <3>1. initialized' = TRUE /\ (refresh' = "select" \/ refresh' = refresh)
      BY <1>5, <2>2 DEF HandlesInitialize, StartsRefresh
    <3> QED
      BY <2>1, <2>2, <3>1, Zenon
  <2>3. CASE ~(~initialized /\ Incoming.valid)
    <3>1. UNCHANGED <<initialized, refresh>>
      BY <1>5, <2>3, Zenon DEF HandlesInitialize
    <3> QED
      BY <2>1, <3>1, Zenon
  <2> QED
    BY <2>2, <2>3
<1>6. CASE HandlesShutdown BY <1>6, Zenon DEF HandlesShutdown
<1>7. CASE HandlesExit BY <1>7, Zenon DEF HandlesExit
<1>8. CASE HandlesNotification BY <1>8, Zenon DEF HandlesNotification
<1>9. CASE StoresDocument BY <1>9, Zenon DEF StoresDocument
<1>10. CASE HandlesQuery BY <1>10, Zenon DEF HandlesQuery
<1>11. CASE LooksUpDocument BY <1>11, Zenon DEF LooksUpDocument
<1>12. CASE HandlesUnsupported BY <1>12, Zenon DEF HandlesUnsupported
<1>13. CASE MainWrites BY <1>13, Zenon DEF MainWrites
<1>14. CASE Exits BY <1>14, Zenon DEF Exits
<1> QED
  BY <1>1, <1>2, <1>3, <1>4, <1>5, <1>6, <1>7, <1>8, <1>9, <1>10, <1>11, <1>12, <1>13, <1>14 DEF MainLoop

LEMMA NextLocks ==
  ASSUME Conn!TypeOK, ProcessTypeOK, Locks, [Next]_vars
  PROVE  Locks'
<1>1. CASE MainLoop
  <2>1. /\ Alive /\ UNCHANGED docMu
        /\ \/ UNCHANGED initialized /\ UNCHANGED refresh
           \/ initialized' /\ (UNCHANGED refresh \/ (~initialized /\ refresh' = "select"))
    BY <1>1, MainSteps
  <2>2. /\ main' = "write" <=> stage'["main"] # "idle"
        /\ stage'["refresh"] = stage["refresh"]
    <3>1. CASE main # "write" /\ main' # "write" /\ UNCHANGED conn
      BY <2>1, <3>1 DEF Locks, conn
    <3>2. CASE main # "write" /\ main' = "write" /\ \E f : Conn!Call("main", f)
      BY <3>2, WriteStages
    <3>3. CASE main = "write" /\ main' = "write" /\ (Conn!Lock("main") \/ Conn!WriteHeader("main"))
      BY <3>3, WriteStages
    <3>4. CASE main = "write" /\ main' # "write" /\ (Conn!WriteBody("main") \/ Conn!Fail("main"))
      BY <3>4, WriteStages
    <3> QED
      BY <1>1, <3>1, <3>2, <3>3, <3>4, MainSteps
  <2>3. ~initialized => refresh' # "write" /\ refresh # "write"
    BY <2>1 DEF Locks
  <2> QED
    BY <2>1, <2>2, <2>3 DEF Locks
<1>2. CASE RefreshLoop
  <2>1. CASE RefreshStops
    BY <2>1 DEF RefreshStops, Locks, Alive, conn, docVars, sessionVars
  <2>2. CASE RefreshTakesTick
    BY <2>2 DEF RefreshTakesTick, Locks, Alive, conn, docVars, sessionVars
  <2>3. CASE ScanLocks
    BY <2>3 DEF ScanLocks, Locks, Alive, conn, sessionVars
  <2>4. CASE ScanEnds
    <3>1. main' = main /\ initialized' = initialized /\ docMu' = Free /\ refresh = "scan"
      BY <2>4 DEF ScanEnds, UnlockMu, sessionVars
    <3>2. CASE refresh' = "write" /\ Conn!Call("refresh", RefreshRequest(n))
      <4>1. stage'["refresh"] # "idle" /\ stage'["main"] = stage["main"]
        BY <3>2, WriteStages
      <4> QED
        BY <3>1, <3>2, <4>1 DEF Locks, Alive
    <3>3. CASE refresh' = "select" /\ UNCHANGED conn
      BY <3>1, <3>3 DEF Locks, Alive, conn
    <3> QED
      BY <2>4, <3>2, <3>3, Zenon DEF ScanEnds, NextRound
  <2>5. CASE RefreshWrites
    <3>1. main' = main /\ initialized' = initialized /\ docMu' = docMu /\ refresh = "write"
      BY <2>5 DEF RefreshWrites, docVars, sessionVars
    <3>2. CASE (Conn!Lock("refresh") \/ Conn!WriteHeader("refresh")) /\ refresh' = refresh
      <4>1. stage'["refresh"] # "idle" /\ stage'["main"] = stage["main"]
        BY <3>2, WriteStages
      <4> QED
        BY <3>1, <3>2, <4>1 DEF Locks, Alive
    <3>3. CASE (Conn!WriteBody("refresh") \/ Conn!Fail("refresh")) /\ refresh' = "select"
      <4>1. stage'["refresh"] = "idle" /\ stage'["main"] = stage["main"]
        BY <3>3, WriteStages
      <4> QED
        BY <3>1, <3>3, <4>1 DEF Locks, Alive
    <3> QED
      BY <2>5, <3>2, <3>3, Zenon DEF RefreshWrites, NextRound
  <2> QED
    BY <1>2, <2>1, <2>2, <2>3, <2>4, <2>5 DEF RefreshLoop
<1>3. CASE Environment
  <2>1. UNCHANGED <<docMu, refresh, initialized, stage>> /\ (main' = main \/ main' = "gone")
    BY <1>3, Zenon DEF Environment, ClientSends, ClientStopsReading, Killed, MinutePasses,
         docVars, sessionVars, refreshVars, conn, Conn!Break
  <2> QED
    BY <2>1 DEF Locks, Alive
<1>4. CASE UNCHANGED vars
  BY <1>4 DEF vars, Locks, Alive
<1> QED
  BY <1>1, <1>2, <1>3, <1>4 DEF Next

(* Nobody waits for somebody who waits: the message loop and the refresh   *)
(* loop cannot block each other, whatever they are at (the order in which  *)
(* server.mu and connection.mu are taken and given back).                  *)
THEOREM ServerHasNoCircularWait == Spec => []NoCircularWait
<1>1. Spec => []Locks
  <2>1. OwnInv /\ Conn!TypeOK /\ Locks /\ [Next]_vars => Locks'
    BY NextLocks DEF OwnInv
  <2> QED
    BY <2>1, InitLocks, SpecOwn, ServerUsesConnection, ConnTypes, PTL DEF Spec
<1>2. Spec => []ConnTheorems!HolderWrites
  <2>1. ConnTheorems!Spec => []ConnTheorems!IInv
    BY ConnAssumption, ConnTheorems!SpecIInv
  <2>2. ConnTheorems!IInv => ConnTheorems!HolderWrites
    BY DEF ConnTheorems!IInv
  <2> QED
    BY <2>1, <2>2, ServerUsesConnection, SameSpec, PTL
<1>3. ASSUME OwnInv, Locks, ConnTheorems!HolderWrites PROVE NoCircularWait
  <2> SUFFICES ASSUME Alive, NEW g \in {"main", "refresh"}, NEW h \in {"main", "refresh"}, WaitsFor(g, h)
               PROVE  g # h /\ Works(h)
    BY DEF NoCircularWait
  <2>1. docMu \in {Free, "refresh"}
    BY <1>3 DEF OwnInv, ProcessTypeOK
  <2>2. Free \notin {"main", "refresh"}
    BY ServerAssumption
  <2>3. CASE docMu = h /\ (IF g = "main" THEN main \in {"store", "lookup"} ELSE refresh = "lock")
    <3>1. h = "refresh" /\ refresh = "scan"
      BY <1>3, <2>1, <2>2, <2>3 DEF Locks
    <3> QED
      BY <2>3, <3>1 DEF Works
  <2>4. CASE connMu = h /\ stage[g] = "locking"
    <3>1. stage[h] \in {"header", "body"}
      BY <1>3, <2>4 DEF ConnTheorems!HolderWrites
    <3>2. (IF h = "main" THEN main ELSE refresh) = "write"
      BY <1>3, <3>1 DEF Locks
    <3> QED
      BY <2>4, <3>1, <3>2 DEF Works
  <2> QED
    BY <2>3, <2>4 DEF WaitsFor
<1> QED
  BY <1>1, <1>2, <1>3, SpecOwn, PTL
===============================================================================
