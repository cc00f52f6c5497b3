----------------------------- MODULE SessionProofs -----------------------------
(***************************************************************************)
(* What klog-ls owes its client, proved of Server for any documents, texts,*)
(* alphabet and bounds: what it remembers of a session is what the session *)
(* was, so that each message is followed by what it is due, in order.      *)
(***************************************************************************)
EXTENDS ServerProofs

(* What has been said of the messages so far stays true when more follow.  *)
LEMMA HistoryStays ==
  ASSUME sent \in Seq(Message), sent' \in Seq(Message), Extends(sent, sent')
  PROVE  /\ \A k \in 0..Len(sent) : /\ InitializedBy(k)' <=> InitializedBy(k)
                                    /\ ShutdownBy(k)' <=> ShutdownBy(k)
         /\ \A i \in 1..Len(sent), u \in URIs : Touches(i, u)' <=> Touches(i, u)
         /\ \A i \in 1..Len(sent) : Code(i)' = Code(i) /\ (IsResponse(i)' <=> IsResponse(i))
<1>1. ASSUME NEW i \in 1..Len(sent) PROVE sent'[i] = sent[i]
  BY DEF Extends
<1>2. ASSUME NEW k \in 0..Len(sent) PROVE InitializedBy(k)' <=> InitializedBy(k)
  BY <1>1 DEF InitializedBy
<1>3. ASSUME NEW k \in 0..Len(sent) PROVE ShutdownBy(k)' <=> ShutdownBy(k)
  <2>1. ASSUME NEW i \in 1..k PROVE sent'[i] = sent[i] /\ (InitializedBy(i - 1)' <=> InitializedBy(i - 1))
    BY <1>1, <1>2
  <2> QED BY <2>1, Zenon DEF ShutdownBy
<1>4. ASSUME NEW i \in 1..Len(sent)
      PROVE  /\ InitializedBy(i - 1)' <=> InitializedBy(i - 1)
             /\ ShutdownBy(i - 1)' <=> ShutdownBy(i - 1)
  BY <1>2, <1>3
<1>5. ASSUME NEW i \in 1..Len(sent), NEW u \in URIs PROVE Touches(i, u)' <=> Touches(i, u)
  BY <1>1, <1>4, Zenon DEF Touches, ReadyFor
<1>6. ASSUME NEW i \in 1..Len(sent) PROVE Code(i)' = Code(i) /\ (IsResponse(i)' <=> IsResponse(i))
  <2>1. Code(i)' = Code(i) BY <1>1, <1>4 DEF Code
  <2>2. IsResponse(i)' <=> IsResponse(i) BY <1>1, Zenon DEF IsResponse
  <2> QED BY <2>1, <2>2
<1> QED BY <1>2, <1>3, <1>5, <1>6

LEMMA TextStays ==
  ASSUME sent \in Seq(Message), sent' \in Seq(Message), Extends(sent, sent'),
         NEW u \in URIs, NEW k \in 0..Len(sent), NEW d \in Nat
  PROVE  IsText(u, k, d)' <=> IsText(u, k, d)
<1>1. \A i \in 1..k : Touches(i, u)' <=> Touches(i, u)
  BY HistoryStays
<1>2. \A i \in 1..k : sent'[i] = sent[i]
  BY DEF Extends
<1>3. /\ \A i \in (d + 1)..k : i \in 1..k
      /\ \A i \in 1..k, j \in Nat : j \in i..k => j \in 1..k
      /\ \A j \in 1..k, l \in Nat : l \in (j + 1)..k => l \in 1..k
  OBVIOUS
<1>4. \A i \in 1..k : i..k \subseteq 1..k /\ (i + 1)..k \subseteq 1..k
  OBVIOUS
<1> QED BY <1>1, <1>2, <1>3, <1>4 DEF IsText

LEMMA DueStays ==
  ASSUME sent \in Seq(Message), sent' \in Seq(Message), Extends(sent, sent'),
         NEW i \in 1..Len(sent), NEW f \in Frame
  PROVE  (Owes(i)' <=> Owes(i)) /\ (Due(i, f)' <=> Due(i, f))
<1>1. /\ \A u \in URIs : Touches(i, u)' <=> Touches(i, u)
      /\ Code(i)' = Code(i)
      /\ IsResponse(i)' <=> IsResponse(i)
      /\ sent'[i] = sent[i]
  BY HistoryStays DEF Extends
<1>2. Owes(i)' <=> Owes(i)
  BY <1>1, Zenon DEF Owes
<1>3. sent[i].uri \in URIs /\ f.doc \in Nat /\ i \in 0..Len(sent)
  <2>1. sent[i] \in Message
    OBVIOUS
  <2> QED BY <2>1 DEF Message, Frame
<1>4. IsText(sent[i].uri, i, f.doc)' <=> IsText(sent[i].uri, i, f.doc)
  BY <1>1, <1>3, TextStays
<1> QED BY <1>1, <1>2, <1>4 DEF Due

(* What one more message adds to it. *)
LEMMA OneMoreMessage ==
  ASSUME NEW k \in Nat, NEW i, i = k + 1
  PROVE  /\ InitializedBy(i) <=> InitializedBy(k) \/ (sent[i].method = "initialize" /\ sent[i].valid)
         /\ ShutdownBy(i) <=> ShutdownBy(k) \/ (sent[i].method = "shutdown" /\ InitializedBy(k))
         /\ ReadyFor(i) <=> InitializedBy(k) /\ ~ShutdownBy(k)
         /\ ~InitializedBy(0) /\ ~ShutdownBy(0)
<1>1. \A j : j \in 1..i <=> j \in 1..k \/ j = i
  OBVIOUS
<1>2. i - 1 = k /\ \A j : j \notin 1..0
  OBVIOUS
<1>3. InitializedBy(i) <=> InitializedBy(k) \/ (sent[i].method = "initialize" /\ sent[i].valid)
  BY <1>1, Zenon DEF InitializedBy
<1>4. ShutdownBy(i) <=> ShutdownBy(k) \/ (sent[i].method = "shutdown" /\ InitializedBy(i - 1))
  BY <1>1, Zenon DEF ShutdownBy
<1>5. ~InitializedBy(0) /\ ~ShutdownBy(0)
  BY <1>2, Zenon DEF InitializedBy, ShutdownBy
<1> QED BY <1>2, <1>3, <1>4, <1>5 DEF ReadyFor

LEMMA TextAfterOneMore ==
  ASSUME NEW u \in URIs, NEW k \in Nat, NEW i, i = k + 1, NEW d \in Nat
  PROVE  /\ ~Touches(i, u) /\ IsText(u, k, d) => IsText(u, i, d)
         /\ Touches(i, u) /\ sent[i].method # "didClose" => IsText(u, i, i)
         /\ Touches(i, u) /\ sent[i].method = "didClose" => IsText(u, i, 0)
<1>1. /\ \A j : j \in 1..i <=> j \in 1..k \/ j = i
      /\ \A j \in 1..i : i \in j..i
      /\ \A l : l \notin (i + 1)..i
      /\ i \in 1..i
  OBVIOUS
<1>2. ASSUME Touches(i, u), sent[i].method # "didClose" PROVE IsText(u, i, i)
  BY <1>1, <1>2, Zenon DEF IsText
<1>3. ASSUME Touches(i, u), sent[i].method = "didClose" PROVE IsText(u, i, 0)
  BY <1>1, <1>3, Zenon DEF IsText
<1>4. ASSUME ~Touches(i, u), IsText(u, k, d) PROVE IsText(u, i, d)
  <2>1. \A j, l : l \in j..i => l \in j..k \/ l = i
    OBVIOUS
  <2>2. CASE d \in 1..k /\ Touches(d, u) /\ sent[d].method # "didClose"
             /\ \A l \in (d + 1)..k : ~Touches(l, u)
    BY <1>1, <1>4, <2>1, <2>2 DEF IsText
  <2>3. CASE d = 0 /\ \A j \in 1..k : Touches(j, u) =>
                         \E l \in j..k : Touches(l, u) /\ sent[l].method = "didClose"
                                        /\ \A o \in (l + 1)..k : ~Touches(o, u)
    <3>1. ASSUME NEW j \in 1..i, Touches(j, u)
          PROVE  \E l \in j..i : Touches(l, u) /\ sent[l].method = "didClose"
                                /\ \A o \in (l + 1)..i : ~Touches(o, u)
      <4>1. j \in 1..k
        BY <1>1, <1>4, <3>1
      <4>2. PICK l \in j..k : Touches(l, u) /\ sent[l].method = "didClose"
                              /\ \A o \in (l + 1)..k : ~Touches(o, u)
        BY <2>3, <3>1, <4>1
      <4>3. l \in j..i /\ \A o \in (l + 1)..i : o \in (l + 1)..k \/ o = i
        OBVIOUS
      <4> QED BY <1>4, <4>2, <4>3
    <3> QED BY <2>3, <3>1 DEF IsText
  <2> QED BY <1>4, <2>2, <2>3 DEF IsText
<1> QED BY <1>2, <1>3, <1>4

-------------------------------------------------------------------------------
(* server.initialized and server.shutdown are what the session says.       *)
FlagsAreHistory ==
  /\ initialized <=> InitializedBy(received)
  /\ shutdown <=> ShutdownBy(received)
  /\ shutdown => initialized

(* What the message loop is working on, and what it is due.                *)
WorksOnDue ==
  /\ main = "store" => Touches(received, sent[received].uri)
  /\ main = "lookup" => sent[received].method = "query" /\ Code(received) = "ok"
  /\ out["main"] # NoMessage =>
       /\ main \in {"write", "gone"}
       /\ out["main"].kind # "refresh"
       /\ out["main"].re = received
       /\ received > 0
       /\ Due(received, out["main"])
  /\ main = "write" => out["main"] # NoMessage
  /\ out["refresh"] # NoMessage => out["refresh"].kind = "refresh" /\ out["refresh"].re = n

(* What is on the wire.                                                    *)
Busy == main \in {"store", "lookup", "write"}
AnswerIsDue(f) ==
  /\ f.re \in 1..received
  /\ Busy => f.re < received
  /\ Due(f.re, f)
WireIsDue ==
  \A p \in 1..Len(wire) :
    wire[p].part = "body" =>
      IF wire[p].msg.kind = "refresh" THEN wire[p].msg.re < n ELSE AnswerIsDue(wire[p].msg)

AllFollowed(k) == \A i \in 1..k : Owes(i) => Followed(i)
NoneForgotten ==
  /\ main \in {"read", "returned"} => AllFollowed(received)
  /\ Busy => AllFollowed(received - 1)

(* How the message loop ended, and the process.                            *)
Cut == broken \/ (received > 0 /\ sent[received].method = "brokenFrame")
EndIsTold ==
  /\ main = "failed" => Cut
  /\ main # "gone" => exitCode = "none"
  /\ exitCode = "success" => ShutdownBy(received) /\ AllFollowed(received)
  /\ exitCode = "failure" => ~ShutdownBy(received) \/ Cut

SessionInv ==
  /\ FlagsAreHistory
  /\ DocumentsMirrorClient
  /\ WorksOnDue
  /\ WireIsDue
  /\ InOrder
  /\ NoneForgotten
  /\ EndIsTold

(* An answer is cut off only while the message loop writes it, or for ever *)
(* when it fails.                                                          *)
AnswersAreWhole ==
  IsCutOff /\ wire[Len(wire)].msg.kind # "refresh" =>
    main \in {"write", "failed", "gone"} /\ exitCode # "success"

(* The refresh loop has a message only while it writes.                    *)
RefreshHasMessage ==
  /\ refresh # "write" => out["refresh"] = NoMessage
  /\ ~initialized => refresh = "off"

(* What is needed of types.                                                *)
TypeInv == TypeOK /\ WorksOnLast /\ ConnTheorems!HasMessage /\ RefreshHasMessage

LEMMA SessionInvSuffices ==
  SessionInv => DocumentsMirrorClient /\ NothingUnasked /\ NothingForgotten /\ InOrder
<1> SUFFICES ASSUME SessionInv PROVE NothingUnasked /\ NothingForgotten
  BY DEF SessionInv
<1>1. NothingUnasked
  BY DEF SessionInv, WireIsDue, AnswerIsDue, NothingUnasked
<1>2. NothingForgotten
  BY Zenon DEF SessionInv, NoneForgotten, AllFollowed, EndIsTold, NothingForgotten
<1> QED BY <1>1, <1>2

LEMMA HonestExit == SessionInv /\ AnswersAreWhole => ExitCodeIsHonest
BY Zenon DEF SessionInv, EndIsTold, Cut, AllFollowed, AnswersAreWhole, ExitCodeIsHonest

LEMMA MainLoopRefreshMessage ==
  ASSUME TypeOK, RefreshHasMessage, MainLoop
  PROVE  RefreshHasMessage'
<1>1. out \in [{"main", "refresh"} -> Frame \union {NoMessage}]
  BY DEF TypeOK, Conn!TypeOK
<1>2. ASSUME NEW f, out' = [out EXCEPT !["main"] = f] PROVE out'["refresh"] = out["refresh"]
  BY <1>1, <1>2
<1>3. \/ out' = out
      \/ \E f : out' = [out EXCEPT !["main"] = f]
  BY DEF MainLoop, ReadsStreamEnd, ReadsInvalidJSON, ReadsResponse, Refuses, HandlesInitialize,
         HandlesShutdown, HandlesExit, HandlesNotification, StoresDocument, HandlesQuery,
         LooksUpDocument, HandlesUnsupported, MainWrites, Exits, Ignore, Answer, Send, conn,
         Conn!Call, Conn!Lock, Conn!WriteHeader, Conn!WriteBody, Conn!Fail, Conn!Return
<1>4. out'["refresh"] = out["refresh"]
  BY <1>2, <1>3
<1>5. \/ UNCHANGED <<initialized, refresh>>
      \/ ~initialized /\ initialized' /\ refresh' \in {"select", refresh}
  BY DEF MainLoop, ReadsStreamEnd, ReadsInvalidJSON, ReadsResponse, Refuses, HandlesInitialize,
         StartsRefresh, HandlesShutdown, HandlesExit, HandlesNotification, StoresDocument, HandlesQuery,
         LooksUpDocument, HandlesUnsupported, MainWrites, Exits, sessionVars, refreshVars
<1> QED BY <1>4, <1>5 DEF RefreshHasMessage

LEMMA RefreshLoopRefreshMessage ==
  ASSUME TypeOK, RefreshHasMessage, RefreshLoop
  PROVE  RefreshHasMessage'
<1>1. out \in [{"main", "refresh"} -> Frame \union {NoMessage}]
  BY DEF TypeOK, Conn!TypeOK
<1>2. initialized' = initialized /\ refresh # "off"
  BY DEF RefreshLoop, RefreshStops, RefreshTakesTick, ScanLocks, ScanEnds, RefreshWrites, sessionVars
<1>3. refresh' # "write" => out'["refresh"] = NoMessage
  <2>1. CASE RefreshStops \/ RefreshTakesTick \/ ScanLocks
    BY <2>1 DEF RefreshStops, RefreshTakesTick, ScanLocks, conn, RefreshHasMessage
  <2>2. CASE ScanEnds
    BY <2>2 DEF ScanEnds, NextRound, conn, RefreshHasMessage
  <2>3. CASE RefreshWrites
    BY <1>1, <2>3 DEF RefreshWrites, NextRound, Conn!Lock, Conn!WriteHeader, Conn!WriteBody, Conn!Fail,
                      Conn!Return
  <2> QED BY <2>1, <2>2, <2>3 DEF RefreshLoop
<1> QED BY <1>2, <1>3 DEF RefreshHasMessage

LEMMA SpecRefreshMessage == Spec => []RefreshHasMessage
<1>1. Init => RefreshHasMessage
  BY DEF Init, Conn!Init, RefreshHasMessage
<1>2. TypeOK /\ RefreshHasMessage /\ [Next]_vars => RefreshHasMessage'
  <2> SUFFICES ASSUME TypeOK, RefreshHasMessage, [Next]_vars PROVE RefreshHasMessage'
    OBVIOUS
  <2>1. CASE UNCHANGED vars
    BY <2>1 DEF vars, RefreshHasMessage
  <2>2. CASE Environment
    BY <2>2 DEF Environment, ClientSends, ClientStopsReading, Killed, MinutePasses, sessionVars,
                refreshVars, conn, Conn!Break, RefreshHasMessage
  <2> QED BY <2>1, <2>2, MainLoopRefreshMessage, RefreshLoopRefreshMessage DEF Next
<1> QED BY <1>1, <1>2, ServerTypeOK, PTL DEF Spec

LEMMA SpecTypes == Spec => []TypeInv
<1>1. Spec => []ConnTheorems!HasMessage
  <2>1. ConnTheorems!Spec => []ConnTheorems!IInv
    BY ConnAssumption, ConnTheorems!SpecIInv
  <2>2. ConnTheorems!IInv => ConnTheorems!HasMessage
    BY DEF ConnTheorems!IInv
  <2> QED BY <2>1, <2>2, ServerUsesConnection, SameSpec, PTL
<1>2. OwnInv => WorksOnLast
  BY DEF OwnInv
<1>3. TypeOK /\ WorksOnLast /\ ConnTheorems!HasMessage /\ RefreshHasMessage => TypeInv
  BY DEF TypeInv
<1> QED BY <1>1, <1>2, <1>3, ServerTypeOK, SpecOwn, SpecRefreshMessage, PTL

-------------------------------------------------------------------------------
(* What stays, while more is sent in either direction.                     *)
Goes == TypeOK /\ TypeOK' /\ Extends(sent, sent') /\ Extends(wire, wire')

LEMMA Types ==
  ASSUME TypeOK
  PROVE  /\ sent \in Seq(Message) /\ Len(sent) \in Nat /\ received \in 0..Len(sent)
         /\ \A i \in 1..Len(sent) : sent[i] \in Message /\ sent[i].uri \in URIs
         /\ documents \in [URIs -> 0..received]
         /\ wire \in Seq(Conn!Chunk) /\ Len(wire) \in Nat
         /\ \A p \in 1..Len(wire) : wire[p].msg \in Frame /\ wire[p].part \in {"header", "body"}
         /\ out \in [{"main", "refresh"} -> Frame \union {NoMessage}]
         /\ n \in Nat
<1>1. sent \in Seq(Message) /\ wire \in Seq(Conn!Chunk)
  BY DEF TypeOK, ProcessTypeOK, Conn!TypeOK
<1>2. \A i \in 1..Len(sent) : sent[i] \in Message
  BY <1>1
<1>3. \A i \in 1..Len(sent) : sent[i].uri \in URIs
  BY <1>2 DEF Message
<1>4. \A p \in 1..Len(wire) : wire[p] \in Conn!Chunk
  BY <1>1
<1>5. \A p \in 1..Len(wire) : wire[p].msg \in Frame /\ wire[p].part \in {"header", "body"}
  BY <1>4 DEF Conn!Chunk
<1> QED BY <1>1, <1>2, <1>3, <1>5 DEF TypeOK, ProcessTypeOK, Conn!TypeOK

LEMMA FramesHaveTypes ==
  ASSUME NEW f \in Frame PROVE f.re \in Nat /\ f.doc \in Nat
BY DEF Frame

LEMMA SameStays ==
  /\ TypeOK /\ UNCHANGED sent => Extends(sent, sent')
  /\ TypeOK /\ UNCHANGED wire => Extends(wire, wire')
BY Types DEF Extends

LEMMA AllStays ==
  ASSUME Goes
  PROVE  /\ \A k \in 0..Len(sent) : /\ InitializedBy(k)' <=> InitializedBy(k)
                                    /\ ShutdownBy(k)' <=> ShutdownBy(k)
         /\ \A i \in 1..Len(sent) : /\ sent'[i] = sent[i]
                                    /\ Code(i)' = Code(i)
                                    /\ Owes(i)' <=> Owes(i)
                                    /\ \A u \in URIs : Touches(i, u)' <=> Touches(i, u)
                                    /\ \A f \in Frame : Due(i, f)' <=> Due(i, f)
         /\ \A u \in URIs, k \in 0..Len(sent), d \in Nat : IsText(u, k, d)' <=> IsText(u, k, d)
         /\ \A p \in 1..Len(wire) : p \in 1..Len(wire') /\ wire'[p] = wire[p]
<1>1. sent \in Seq(Message) /\ sent' \in Seq(Message) /\ Extends(sent, sent') /\ Extends(wire, wire')
      /\ Len(wire) \in Nat /\ Len(wire') \in Nat
  BY Types DEF Goes, TypeOK, ProcessTypeOK, Conn!TypeOK
<1>2. \A p \in 1..Len(wire) : p \in 1..Len(wire') /\ wire'[p] = wire[p]
  BY <1>1 DEF Extends
<1>3. \A i \in 1..Len(sent) : sent'[i] = sent[i]
  BY <1>1 DEF Extends
<1>4. \A i \in 1..Len(sent), f \in Frame : Due(i, f)' <=> Due(i, f)
  BY <1>1, DueStays
<1>5. \A i \in 1..Len(sent) : Owes(i)' <=> Owes(i)
  <2>1. Response(0, "ok", 0) \in Frame
    BY FramesAreFrames DEF Codes
  <2> QED BY <1>1, <2>1, DueStays
<1>6. \A u \in URIs, k \in 0..Len(sent), d \in Nat : IsText(u, k, d)' <=> IsText(u, k, d)
  BY <1>1, TextStays
<1> QED BY <1>1, <1>2, <1>3, <1>4, <1>5, <1>6, HistoryStays

LEMMA FollowedStays ==
  ASSUME Goes, NEW k \in 0..Len(sent), AllFollowed(k)
  PROVE  AllFollowed(k)'
<1>1. ASSUME NEW i \in 1..k, Owes(i)' PROVE Followed(i)'
  <2>1. i \in 1..Len(sent)
    BY Types DEF Goes
  <2>2. Followed(i)
    BY <1>1, <2>1, AllStays DEF AllFollowed
  <2>3. PICK p \in 1..Len(wire) : wire[p].part = "body" /\ Due(i, wire[p].msg)
    BY <2>2 DEF Followed
  <2>4. wire[p].msg \in Frame
    BY Types DEF Goes
  <2>5. p \in 1..Len(wire') /\ wire'[p] = wire[p]
    BY AllStays
  <2>6. \A f \in Frame : Due(i, f)' <=> Due(i, f)
    BY <2>1, AllStays
  <2> QED BY <2>3, <2>4, <2>5, <2>6 DEF Followed
<1> QED BY <1>1 DEF AllFollowed

-------------------------------------------------------------------------------
(* The message loop reads a message, and does with it what it is due.      *)

Drops(i) == main' \in {"read", "returned"} /\ ~IsResponse(i) /\ out' = out
Gives(i) == main' = "failed" /\ sent[i].method = "brokenFrame" /\ out' = out
Queries(i) == main' = "lookup" /\ sent[i].method = "query" /\ Code(i) = "ok" /\ out' = out
Replies(i) ==
  /\ main' = "write"
  /\ IsResponse(i)
  /\ sent[i].method = "query" => Code(i) # "ok"
  /\ out' = [out EXCEPT !["main"] = Response(i, Code(i), 0)]
Updates(i) == main' = "store" /\ Touches(i, sent[i].uri) /\ out' = out

ReadsDuly ==
  LET i == received + 1 IN
  /\ main = "read" /\ received < Len(sent) /\ received' = i
  /\ FlagsAreHistory'
  /\ UNCHANGED <<sent, documents, n, exitCode, wire, broken>>
  /\ \/ Updates(i)
     \/ (\A u \in URIs : ~Touches(i, u)) /\ (Drops(i) \/ Gives(i) \/ Queries(i) \/ Replies(i))

LEMMA CodesAreCodes == ASSUME NEW i PROVE Code(i) \in Codes
BY DEF Code, Codes

LEMMA ReadsDulySession ==
  ASSUME TypeInv, TypeOK', SessionInv, ReadsDuly
  PROVE  SessionInv'
<1> DEFINE i == received + 1
<1>1. /\ received \in Nat /\ received \in 0..Len(sent) /\ i \in 1..Len(sent) /\ i - 1 = received
      /\ received' = i /\ main = "read" /\ UNCHANGED <<sent, documents, n, exitCode, wire, broken>>
      /\ main' # "gone" /\ i \in 0..Len(sent)
  BY Types DEF TypeInv, ReadsDuly, Updates, Drops, Gives, Queries, Replies
<1> HIDE DEF i
<1>2. Goes
  BY <1>1, SameStays DEF Goes, TypeInv
<1>3. exitCode = "none"
  BY <1>1 DEF SessionInv, EndIsTold
<1>4. out["main"] = NoMessage
  BY <1>1 DEF SessionInv, WorksOnDue
<1>5. DocumentsMirrorClient'
  <2> SUFFICES ASSUME NEW u \in URIs, NEW k, NEW d,
                      k = IF main' = "store" THEN i - 1 ELSE i, d = documents[u]
               PROVE  IsText(u, k, d)'
    BY <1>1 DEF DocumentsMirrorClient
  <2>1. documents[u] \in Nat
    BY Types DEF TypeInv
  <2>2. IsText(u, received, documents[u])
    BY <1>1, <1>3 DEF SessionInv, DocumentsMirrorClient
  <2>3. IsText(u, k, d) /\ k \in 0..Len(sent)
    <3>1. CASE main' = "store"
      BY <1>1, <2>2, <3>1
    <3>2. CASE main' # "store"
      <4>1. ~Touches(i, u)
        BY <3>2 DEF ReadsDuly, Updates, i
      <4> QED BY <1>1, <2>1, <2>2, <3>2, <4>1, TextAfterOneMore DEF i
    <3> QED BY <3>1, <3>2
  <2> QED BY <1>1, <1>2, <2>1, <2>3, AllStays
<1>6. WorksOnDue'
  <2>1. out \in [{"main", "refresh"} -> Frame \union {NoMessage}]
    BY Types DEF TypeInv
  <2>2. out["refresh"] # NoMessage => out["refresh"].kind = "refresh" /\ out["refresh"].re = n
    BY DEF SessionInv, WorksOnDue
  <2>3. CASE Updates(i)
    <3>1. ASSUME NEW k, NEW u, k = i, u = sent[i].uri PROVE Touches(k, u)'
      <4>1. u \in URIs /\ Touches(k, u)
        BY <1>1, <2>3, <3>1, Types DEF TypeInv, Updates
      <4> QED BY <1>1, <1>2, <3>1, <4>1, AllStays
    <3> QED BY <1>1, <1>4, <2>2, <2>3, <3>1 DEF WorksOnDue, Updates
  <2>4. CASE Drops(i) \/ Gives(i)
    BY <1>1, <1>4, <2>2, <2>4 DEF WorksOnDue, Drops, Gives
  <2>5. CASE Queries(i)
    <3>1. ASSUME NEW k, k = i PROVE Code(k)' = "ok"
      BY <1>1, <1>2, <2>5, <3>1, AllStays DEF Queries
    <3> QED BY <1>1, <1>4, <2>2, <2>5, <3>1 DEF WorksOnDue, Queries
  <2>6. CASE Replies(i)
    <3> DEFINE f == Response(i, Code(i), 0)
    <3>1. f \in Frame /\ f # NoMessage
      BY <1>1, CodesAreCodes, FramesAreFrames, ServerAssumption
    <3>2. f.kind = "response" /\ f.re = i /\ f.doc = 0
      BY DEF Response
    <3>3. Due(i, f)
      BY <2>6, <3>2 DEF Due, Replies
    <3>4. out'["main"] = f /\ out'["refresh"] = out["refresh"]
      BY <2>1, <2>6 DEF Replies
    <3> HIDE DEF f
    <3>5. ASSUME NEW k, NEW g, k = i, g = f PROVE Due(k, g)'
      BY <1>1, <1>2, <3>1, <3>3, <3>5, AllStays
    <3> QED BY <1>1, <2>2, <2>6, <3>1, <3>2, <3>4, <3>5 DEF WorksOnDue, Replies
  <2> QED BY <2>3, <2>4, <2>5, <2>6 DEF ReadsDuly, i
<1>7. WireIsDue'
  <2>1. ASSUME NEW p \in 1..Len(wire), wire[p].part = "body", wire[p].msg.kind # "refresh"
        PROVE  AnswerIsDue(wire[p].msg)'
    <3>1. wire[p].msg \in Frame /\ wire[p].msg.re \in 1..received /\ Due(wire[p].msg.re, wire[p].msg)
      BY <2>1, Types DEF TypeInv, SessionInv, WireIsDue, AnswerIsDue
    <3> QED BY <1>1, <1>2, <3>1, AllStays DEF AnswerIsDue
  <2> QED BY <1>1, <2>1 DEF SessionInv, WireIsDue
<1>8. InOrder'
  BY <1>1 DEF SessionInv, InOrder
<1>9. NoneForgotten'
  <2>1. ASSUME NEW k, k = received PROVE AllFollowed(k)'
    BY <1>1, <1>2, <2>1, FollowedStays DEF SessionInv, NoneForgotten
  <2>2. main' \in {"read", "returned"} => ~Owes(i)
    BY DEF ReadsDuly, Updates, Drops, Gives, Queries, Replies, Owes, i
  <2>3. ASSUME NEW k, k = i, main' \in {"read", "returned"} PROVE AllFollowed(k)'
    <3>1. ~Owes(k)'
      BY <1>1, <1>2, <2>2, <2>3, AllStays
    <3>2. PICK l : l = received
      OBVIOUS
    <3>3. AllFollowed(l)' /\ \A j \in 1..k : j \in 1..l \/ j = k
      BY <1>1, <2>1, <2>3, <3>2 DEF i
    <3> QED BY <3>1, <3>3 DEF AllFollowed
  <2> QED BY <1>1, <2>1, <2>3 DEF NoneForgotten, Busy
<1>10. EndIsTold'
  <2>1. main' = "failed" => sent[i].method = "brokenFrame"
    BY DEF ReadsDuly, Updates, Drops, Gives, Queries, Replies, i
  <2> QED BY <1>1, <1>3, <2>1 DEF EndIsTold, Cut
<1> QED BY <1>5, <1>6, <1>7, <1>8, <1>9, <1>10 DEF SessionInv, ReadsDuly

(* What the flags mean for the next message.                               *)
LEMMA NextMessage ==
  ASSUME TypeInv, SessionInv, NEW i, i = received + 1
  PROVE  /\ InitializedBy(i) <=> initialized \/ (sent[i].method = "initialize" /\ sent[i].valid)
         /\ ShutdownBy(i) <=> shutdown \/ (sent[i].method = "shutdown" /\ initialized)
         /\ \A u : Touches(i, u) <=>
              initialized /\ ~shutdown /\ sent[i].method \in DocumentNotifications
              /\ sent[i].valid /\ sent[i].uri = u
         /\ InitializedBy(i - 1) <=> initialized
         /\ ShutdownBy(i - 1) <=> shutdown
<1>1. received \in Nat /\ i - 1 = received
  BY Types DEF TypeInv
<1>2. /\ initialized <=> InitializedBy(received)
      /\ shutdown <=> ShutdownBy(received)
  BY DEF SessionInv, FlagsAreHistory
<1>3. ReadyFor(i) <=> initialized /\ ~shutdown
  BY <1>1, <1>2, OneMoreMessage
<1>4. \A u : Touches(i, u) <=>
        initialized /\ ~shutdown /\ sent[i].method \in DocumentNotifications
        /\ sent[i].valid /\ sent[i].uri = u
  BY <1>3, Zenon DEF Touches
<1>5. /\ InitializedBy(i) <=> InitializedBy(received) \/ (sent[i].method = "initialize" /\ sent[i].valid)
      /\ ShutdownBy(i) <=> ShutdownBy(received) \/ (sent[i].method = "shutdown" /\ InitializedBy(received))
  BY <1>1, OneMoreMessage
<1>6. /\ InitializedBy(i - 1) <=> initialized
      /\ ShutdownBy(i - 1) <=> shutdown
  BY <1>1, <1>2
<1> QED BY <1>2, <1>4, <1>5, <1>6, Zenon

LEMMA FlagsFollow ==
  ASSUME TypeInv, TypeOK', SessionInv, NEW i, i = received + 1, i \in 1..Len(sent),
         received' = i, UNCHANGED <<sent, wire>>,
         initialized' <=> initialized \/ (sent[i].method = "initialize" /\ sent[i].valid),
         shutdown' <=> shutdown \/ (sent[i].method = "shutdown" /\ initialized)
  PROVE  FlagsAreHistory'
<1>1. Goes /\ i \in 0..Len(sent)
  BY SameStays DEF TypeInv, Goes
<1>2. (InitializedBy(i)' <=> InitializedBy(i)) /\ (ShutdownBy(i)' <=> ShutdownBy(i))
  BY <1>1, AllStays
<1>3. initialized' <=> InitializedBy(i)'
  BY <1>2, NextMessage
<1>4. shutdown' <=> ShutdownBy(i)'
  BY <1>2, NextMessage
<1>5. shutdown' => initialized'
  BY DEF SessionInv, FlagsAreHistory
<1> QED BY <1>3, <1>4, <1>5 DEF FlagsAreHistory

Reading ==
  \/ ReadsStreamEnd \/ ReadsInvalidJSON \/ ReadsResponse \/ Refuses
  \/ HandlesInitialize \/ HandlesShutdown \/ HandlesExit
  \/ HandlesNotification \/ HandlesQuery \/ HandlesUnsupported

LEMMA ReadingIsDue ==
  ASSUME TypeInv, TypeOK', SessionInv, Reading
  PROVE  ReadsDuly
<1> DEFINE i == received + 1
           m == sent[i].method
<1> USE DEF clientVars, sessionVars, docVars, refreshVars, conn
<1>1. /\ main = "read" /\ received < Len(sent) /\ received' = i
      /\ UNCHANGED <<sent, documents, n, exitCode, wire, broken>>
  BY DEF Reading, Reads, ReadsStreamEnd, ReadsInvalidJSON, ReadsResponse, Refuses, HandlesInitialize,
         HandlesShutdown, HandlesExit, HandlesNotification, HandlesQuery, HandlesUnsupported,
         Ignore, Answer, Send, Conn!Call
<1>2. i \in 1..Len(sent) /\ Incoming = sent[i]
  BY <1>1, Types DEF TypeInv, Incoming
<1>3. m \in Methods
  BY <1>2, Types DEF TypeInv, Message
<1>4. /\ \A u : Touches(i, u) <=>
           initialized /\ ~shutdown /\ m \in DocumentNotifications /\ sent[i].valid /\ sent[i].uri = u
      /\ InitializedBy(i - 1) <=> initialized
      /\ ShutdownBy(i - 1) <=> shutdown
  BY NextMessage
<1>5. shutdown => initialized
  BY DEF SessionInv, FlagsAreHistory
<1>6. i = received + 1
  OBVIOUS
<1> HIDE DEF i
<1>7. ASSUME initialized' <=> initialized \/ (m = "initialize" /\ sent[i].valid),
             shutdown' <=> shutdown \/ (m = "shutdown" /\ initialized)
      PROVE  FlagsAreHistory'
  BY <1>1, <1>2, <1>6, <1>7, FlagsFollow
<1>8. ASSUME NEW c, Answer(c), c = Code(i), m \in Requests \union {"invalidJSON"}, m = "query" => c # "ok"
      PROVE  Replies(i)
  BY <1>1, <1>8 DEF Replies, IsResponse, Answer, Send, Conn!Call
<1>9. ASSUME FlagsAreHistory', m \notin DocumentNotifications,
             Drops(i) \/ Gives(i) \/ Queries(i) \/ Replies(i)
      PROVE  ReadsDuly
  BY <1>1, <1>4, <1>6, <1>9 DEF ReadsDuly
<1> USE DEF Reads, Requests, Notifications, DocumentNotifications, StreamEnds
<1>10. CASE ReadsStreamEnd
  <2>1. m \in StreamEnds /\ UNCHANGED <<initialized, shutdown, out>>
    BY <1>2, <1>10 DEF ReadsStreamEnd
  <2>2. Drops(i) \/ Gives(i)
    BY <1>2, <1>10, <2>1 DEF ReadsStreamEnd, Drops, Gives, IsResponse
  <2> QED BY <1>7, <1>9, <2>1, <2>2
<1>11. CASE ReadsInvalidJSON
  <2>1. m = "invalidJSON" /\ UNCHANGED <<initialized, shutdown>> /\ Answer("parseError")
    BY <1>2, <1>11 DEF ReadsInvalidJSON
  <2>2. Code(i) = "parseError"
    BY <2>1 DEF Code
  <2> QED BY <1>7, <1>8, <1>9, <2>1, <2>2
<1>12. CASE ReadsResponse
  <2>1. m = "response" /\ UNCHANGED <<initialized, shutdown, out>> /\ main' = "read"
    BY <1>2, <1>12 DEF ReadsResponse, Ignore
  <2> QED BY <1>7, <1>9, <2>1 DEF Drops, IsResponse
<1>13. CASE HandlesExit
  <2>1. m = "exit" /\ UNCHANGED <<initialized, shutdown, out>> /\ main' = "returned"
    BY <1>2, <1>13 DEF HandlesExit
  <2> QED BY <1>7, <1>9, <2>1 DEF Drops, IsResponse
<1>14. CASE HandlesShutdown
  <2>1. m = "shutdown" /\ initialized' = initialized /\ shutdown' /\ initialized /\ ~shutdown /\ Answer("ok")
    BY <1>2, <1>14 DEF HandlesShutdown
  <2>2. Code(i) = "ok"
    BY <1>4, <2>1 DEF Code
  <2> QED BY <1>7, <1>8, <1>9, <2>1, <2>2
<1>15. CASE HandlesUnsupported
  <2>1. m = "unsupported" /\ UNCHANGED <<initialized, shutdown>> /\ initialized /\ ~shutdown
        /\ Answer("methodNotFound")
    BY <1>2, <1>15 DEF HandlesUnsupported
  <2>2. Code(i) = "methodNotFound"
    BY <1>4, <2>1 DEF Code
  <2> QED BY <1>7, <1>8, <1>9, <2>1, <2>2
<1>16. CASE HandlesQuery
  <2>1. m = "query" /\ UNCHANGED <<initialized, shutdown>> /\ initialized /\ ~shutdown
    BY <1>2, <1>16 DEF HandlesQuery
  <2>2. CASE sent[i].valid
    <3>1. Code(i) = "ok" /\ main' = "lookup" /\ out' = out
      BY <1>2, <1>4, <1>16, <2>1, <2>2 DEF Code, HandlesQuery
    <3> QED BY <1>7, <1>9, <2>1, <3>1 DEF Queries
  <2>3. CASE ~sent[i].valid
    <3>1. Code(i) = "invalidParams" /\ Answer("invalidParams")
      BY <1>2, <1>4, <1>16, <2>1, <2>3 DEF Code, HandlesQuery
    <3> QED BY <1>7, <1>8, <1>9, <2>1, <3>1
  <2> QED BY <2>2, <2>3
<1>17. CASE HandlesInitialize
  <2>1. m = "initialize" /\ shutdown' = shutdown /\ ~shutdown
    BY <1>2, <1>17 DEF HandlesInitialize
  <2>2. CASE ~initialized /\ sent[i].valid
    <3>1. Code(i) = "ok" /\ Answer("ok") /\ initialized'
      BY <1>2, <1>4, <1>17, <2>1, <2>2 DEF Code, HandlesInitialize
    <3> QED BY <1>7, <1>8, <1>9, <2>1, <2>2, <3>1
  <2>3. CASE initialized
    <3>1. Code(i) = "invalidRequest" /\ Answer("invalidRequest") /\ initialized'
      BY <1>2, <1>4, <1>17, <2>1, <2>3 DEF Code, HandlesInitialize
    <3> QED BY <1>7, <1>8, <1>9, <2>1, <2>3, <3>1
  <2>4. CASE ~initialized /\ ~sent[i].valid
    <3>1. Code(i) = "invalidParams" /\ Answer("invalidParams") /\ ~initialized'
      BY <1>2, <1>4, <1>17, <2>1, <2>4 DEF Code, HandlesInitialize
    <3> QED BY <1>7, <1>8, <1>9, <2>1, <2>4, <3>1
  <2> QED BY <2>2, <2>3, <2>4
<1>18. CASE HandlesNotification
  <2>1. /\ m \in Notifications \ {"exit"} /\ UNCHANGED <<initialized, shutdown, out>>
        /\ initialized /\ ~shutdown
        /\ main' = IF m \in DocumentNotifications /\ sent[i].valid THEN "store" ELSE "read"
    BY <1>2, <1>18 DEF HandlesNotification
  <2>2. FlagsAreHistory'
    BY <1>7, <2>1
  <2>3. CASE m \in DocumentNotifications /\ sent[i].valid
    BY <1>1, <1>4, <1>6, <2>1, <2>2, <2>3 DEF ReadsDuly, Updates
  <2>4. CASE ~(m \in DocumentNotifications /\ sent[i].valid)
    <3>1. Drops(i) /\ \A u \in URIs : ~Touches(i, u)
      BY <1>4, <2>1, <2>4 DEF Drops, IsResponse
    <3> QED BY <1>1, <1>6, <2>2, <3>1 DEF ReadsDuly
  <2> QED BY <2>3, <2>4
<1>19. CASE Refuses
  <2>1. /\ UNCHANGED <<initialized, shutdown>>
        /\ \/ ~initialized /\ m \in (Requests \union Notifications) \ {"initialize", "exit"}
           \/ initialized /\ shutdown /\ m \in (Requests \union Notifications) \ {"exit"}
        /\ IF m \in Notifications
             THEN Ignore
             ELSE Answer(IF initialized THEN "invalidRequest" ELSE "notInitialized")
    BY <1>2, <1>19 DEF Refuses
  <2>2. FlagsAreHistory' /\ \A u \in URIs : ~Touches(i, u)
    BY <1>4, <1>7, <2>1
  <2>3. CASE m \in Notifications
    <3>1. Drops(i)
      BY <2>1, <2>3 DEF Ignore, Drops, IsResponse
    <3> QED BY <1>1, <1>6, <2>2, <3>1 DEF ReadsDuly
  <2>4. CASE m \in Requests
    <3>1. Answer(IF initialized THEN "invalidRequest" ELSE "notInitialized")
      BY <2>1, <2>4
    <3>2. Code(i) = IF initialized THEN "invalidRequest" ELSE "notInitialized"
      BY <1>4, <2>1, <2>4 DEF Code
    <3>3. Replies(i)
      BY <1>8, <2>4, <3>1, <3>2
    <3> QED BY <1>1, <1>6, <2>2, <3>3 DEF ReadsDuly
  <2> QED BY <2>1, <2>3, <2>4
<1> QED BY <1>10, <1>11, <1>12, <1>13, <1>14, <1>15, <1>16, <1>17, <1>18, <1>19 DEF Reading

-------------------------------------------------------------------------------
(* Steps that read no message.                                             *)

LEMMA FlagsKeep ==
  ASSUME TypeInv, SessionInv, Goes, UNCHANGED <<received, initialized, shutdown>>
  PROVE  FlagsAreHistory'
<1>1. ASSUME NEW k, k = received
      PROVE  (InitializedBy(k)' <=> InitializedBy(k)) /\ (ShutdownBy(k)' <=> ShutdownBy(k))
  BY <1>1, AllStays, Types DEF TypeInv
<1> QED BY <1>1 DEF SessionInv, FlagsAreHistory

LEMMA MirrorKeeps ==
  ASSUME TypeInv, SessionInv, Goes, UNCHANGED <<received, documents>>,
         main' = "store" <=> main = "store", exitCode' # "killed" => exitCode # "killed"
  PROVE  DocumentsMirrorClient'
<1> SUFFICES ASSUME NEW u \in URIs, NEW k, NEW d, exitCode' # "killed",
                    k = IF main = "store" THEN received - 1 ELSE received, d = documents[u]
             PROVE  IsText(u, k, d)'
  BY DEF DocumentsMirrorClient
<1>1. d \in Nat /\ received \in 0..Len(sent)
  BY Types DEF TypeInv
<1>2. k \in 0..Len(sent)
  BY <1>1 DEF TypeInv, WorksOnLast
<1>3. IsText(u, k, d)
  BY DEF SessionInv, DocumentsMirrorClient
<1> QED BY <1>1, <1>2, <1>3, AllStays

LEMMA AnswerKeeps ==
  ASSUME TypeInv, Goes, UNCHANGED received, Busy' => Busy,
         NEW f \in Frame, AnswerIsDue(f)
  PROVE  AnswerIsDue(f)'
<1>1. f.re \in 1..Len(sent) /\ Due(f.re, f)
  BY Types DEF TypeInv, AnswerIsDue
<1> QED BY <1>1, AllStays DEF AnswerIsDue

LEMMA WireKeeps ==
  ASSUME TypeInv, TypeOK', SessionInv, Goes, UNCHANGED <<received, wire>>, Busy' => Busy, n' >= n
  PROVE  WireIsDue' /\ InOrder'
<1>1. ASSUME NEW p \in 1..Len(wire), wire[p].part = "body"
      PROVE  IF wire[p].msg.kind = "refresh" THEN wire[p].msg.re < n' ELSE AnswerIsDue(wire[p].msg)'
  <2>1. wire[p].msg \in Frame /\ wire[p].msg.re \in Nat /\ n \in Nat /\ n' \in Nat
    <3>1. n' \in Nat
      BY DEF TypeOK, ProcessTypeOK
    <3> QED BY <3>1, Types, FramesHaveTypes DEF TypeInv
  <2>2. PICK f : f = wire[p].msg
    OBVIOUS
  <2>3. IF f.kind = "refresh" THEN f.re < n ELSE AnswerIsDue(f)
    BY <1>1, <2>2 DEF SessionInv, WireIsDue
  <2>4. IF f.kind = "refresh" THEN f.re < n' ELSE AnswerIsDue(f)'
    BY <2>1, <2>2, <2>3, AnswerKeeps
  <2> QED BY <2>2, <2>4
<1> QED BY <1>1 DEF SessionInv, WireIsDue, InOrder

LEMMA WorkKeeps ==
  ASSUME TypeInv, SessionInv, Goes, UNCHANGED <<received, main>>,
         out'["main"] = out["main"],
         out'["refresh"] # NoMessage => out'["refresh"].kind = "refresh" /\ out'["refresh"].re = n'
  PROVE  WorksOnDue'
<1>1. /\ received \in 0..Len(sent)
      /\ out["main"] # NoMessage => out["main"] \in Frame
  BY Types DEF TypeInv
<1>2. ASSUME NEW k, NEW u, main = "store", k = received, u = sent'[k].uri PROVE Touches(k, u)'
  <2>1. k \in 1..Len(sent)
    BY <1>1, <1>2 DEF TypeInv, WorksOnLast
  <2>2. u = sent[k].uri /\ u \in URIs
    BY <1>2, <2>1, AllStays, Types DEF TypeInv
  <2>3. Touches(k, u)
    BY <1>2, <2>2 DEF SessionInv, WorksOnDue
  <2> QED BY <2>1, <2>2, <2>3, AllStays
<1>3. ASSUME NEW k, main = "lookup", k = received
      PROVE  sent'[k].method = "query" /\ Code(k)' = "ok"
  <2>1. k \in 1..Len(sent)
    BY <1>1, <1>3 DEF TypeInv, WorksOnLast
  <2> QED BY <1>3, <2>1, AllStays DEF SessionInv, WorksOnDue
<1>4. ASSUME NEW k, NEW f, out["main"] # NoMessage, k = received, f = out["main"] PROVE Due(k, f)'
  <2>1. k \in 1..Len(sent) /\ f \in Frame /\ Due(k, f)
    BY <1>1, <1>4 DEF SessionInv, WorksOnDue
  <2> QED BY <2>1, AllStays
<1>5. /\ out["main"] # NoMessage =>
           main \in {"write", "gone"} /\ out["main"].kind # "refresh" /\ out["main"].re = received
           /\ received > 0
      /\ main = "write" => out["main"] # NoMessage
  BY DEF SessionInv, WorksOnDue
<1> QED BY <1>2, <1>3, <1>4, <1>5 DEF WorksOnDue

LEMMA ForgottenKeeps ==
  ASSUME TypeInv, SessionInv, Goes, UNCHANGED received,
         main' \in {"read", "returned"} => main \in {"read", "returned"}, Busy' => Busy
  PROVE  NoneForgotten'
<1>1. ASSUME NEW k, k \in {received, received - 1}, k \in Nat, AllFollowed(k) PROVE AllFollowed(k)'
  BY <1>1, FollowedStays, Types DEF TypeInv
<1>2. /\ received \in Nat
      /\ Busy => received - 1 \in Nat
  <2>1. received \in Nat
    BY Types DEF TypeInv
  <2>2. main = "write" => received > 0
    BY DEF SessionInv, WorksOnDue
  <2> QED BY <2>1, <2>2 DEF TypeInv, WorksOnLast, Busy
<1> QED BY <1>1, <1>2 DEF SessionInv, NoneForgotten

LEMMA EndKeeps ==
  ASSUME TypeInv, SessionInv, Goes, UNCHANGED <<received, main, exitCode>>, broken => broken'
  PROVE  EndIsTold'
<1>1. received \in 0..Len(sent)
  BY Types DEF TypeInv
<1>2. Cut => Cut'
  BY <1>1, AllStays DEF Cut
<1>3. ASSUME NEW k, k = received
      PROVE  /\ ShutdownBy(k)' <=> ShutdownBy(k)
             /\ AllFollowed(k) => AllFollowed(k)'
  BY <1>1, <1>3, AllStays, FollowedStays
<1> QED BY <1>2, <1>3 DEF SessionInv, EndIsTold

LEMMA KeepsSession ==
  ASSUME TypeInv, TypeOK', SessionInv, Goes,
         UNCHANGED <<received, initialized, shutdown, documents, main, exitCode>>,
         broken => broken', out'["main"] = out["main"],
         out'["refresh"] # NoMessage => out'["refresh"].kind = "refresh" /\ out'["refresh"].re = n',
         WireIsDue' /\ InOrder'
  PROVE  SessionInv'
<1>1. Busy' <=> Busy
  BY DEF Busy
<1> QED
  BY <1>1, FlagsKeep, MirrorKeeps, WorkKeeps, ForgottenKeeps, EndKeeps DEF SessionInv

(* A chunk is written.                                                     *)
InTurn(c) ==
  IF c.msg.kind = "refresh" THEN c.msg.re = n /\ n' > n
  ELSE Busy /\ ~Busy' /\ c.msg.re = received /\ Due(received, c.msg)

LEMMA ChunkInTurn ==
  ASSUME TypeInv, TypeOK', SessionInv, Goes, UNCHANGED received, Busy' => Busy, n' >= n,
         NEW c \in Conn!Chunk, wire' = Append(wire, c), c.part = "body" => InTurn(c)
  PROVE  WireIsDue' /\ InOrder'
<1> DEFINE last == Len(wire) + 1
<1>1. /\ Len(wire) \in Nat /\ Len(wire') = last /\ wire'[last] = c
      /\ \A p \in 1..Len(wire) : wire'[p] = wire[p]
      /\ \A p : p \in 1..last <=> p \in 1..Len(wire) \/ p = last
  BY Types DEF TypeInv
<1> HIDE DEF last
<1>2. c.msg \in Frame /\ n \in Nat /\ n' \in Nat
  <2>1. n' \in Nat
    BY DEF TypeOK, ProcessTypeOK
  <2>2. c.msg \in Frame
    BY DEF Conn!Chunk
  <2> QED BY <2>1, <2>2, Types DEF TypeInv
<1>3. ASSUME NEW p \in 1..Len(wire), wire[p].part = "body"
      PROVE  /\ IF wire[p].msg.kind = "refresh" THEN wire[p].msg.re < n' ELSE AnswerIsDue(wire[p].msg)'
             /\ IF wire[p].msg.kind = "refresh" THEN wire[p].msg.re < n
                                               ELSE Busy => wire[p].msg.re < received
  <2>1. wire[p].msg \in Frame /\ wire[p].msg.re \in Nat
    BY Types, FramesHaveTypes DEF TypeInv
  <2>2. PICK f : f = wire[p].msg
    OBVIOUS
  <2>3. IF f.kind = "refresh" THEN f.re < n ELSE AnswerIsDue(f)
    BY <1>3, <2>2 DEF SessionInv, WireIsDue
  <2>4. IF f.kind = "refresh" THEN f.re < n' ELSE AnswerIsDue(f)'
    BY <1>2, <2>1, <2>2, <2>3, AnswerKeeps
  <2> QED BY <2>2, <2>3, <2>4 DEF AnswerIsDue
<1>4. ASSUME c.part = "body"
      PROVE  IF c.msg.kind = "refresh" THEN c.msg.re < n' ELSE AnswerIsDue(c.msg)'
  <2>1. CASE c.msg.kind = "refresh"
    BY <1>2, <1>4, <2>1 DEF InTurn
  <2>2. CASE c.msg.kind # "refresh"
    <3>1. received \in 1..Len(sent)
      <4>1. received \in 0..Len(sent) /\ Busy
        BY <1>4, <2>2, Types DEF TypeInv, InTurn
      <4>2. received # 0
        BY <4>1 DEF Busy, TypeInv, WorksOnLast, SessionInv, WorksOnDue
      <4> QED BY <4>1, <4>2
    <3>2. ASSUME NEW k, k = received PROVE Due(k, c.msg)'
      BY <1>2, <1>4, <2>2, <3>1, <3>2, AllStays DEF InTurn
    <3> QED BY <1>4, <2>2, <3>1, <3>2 DEF InTurn, AnswerIsDue
  <2> QED BY <2>1, <2>2
<1>5. WireIsDue'
  BY <1>1, <1>3, <1>4 DEF WireIsDue
<1>6. InOrder'
  <2> SUFFICES ASSUME NEW p \in 1..last, NEW q \in 1..last, p < q,
                      wire'[p].part = "body", wire'[q].part = "body",
                      wire'[p].msg.kind = "refresh" <=> wire'[q].msg.kind = "refresh"
               PROVE  wire'[p].msg.re < wire'[q].msg.re
    BY <1>1 DEF InOrder
  <2>1. p \in 1..Len(wire)
    BY <1>1 DEF last
  <2>2. CASE q \in 1..Len(wire)
    BY <1>1, <2>1, <2>2 DEF SessionInv, InOrder
  <2>3. CASE q = last
    BY <1>1, <1>3, <2>1, <2>3 DEF InTurn
  <2> QED BY <1>1, <2>2, <2>3
<1> QED BY <1>5, <1>6

(* A document is stored or looked up, and what follows from it is sent.    *)
LEMMA SendingSession ==
  ASSUME TypeInv, TypeOK', SessionInv,
         main \in {"store", "lookup"}, main' = "write",
         UNCHANGED <<sent, received, initialized, shutdown, n, exitCode, wire, broken>>,
         NEW f \in Frame, f.kind # "refresh", f.re = received, Due(received, f),
         out' = [out EXCEPT !["main"] = f],
         DocumentsMirrorClient'
  PROVE  SessionInv'
<1>1. Goes
  BY SameStays DEF TypeInv, Goes
<1>2. FlagsAreHistory' /\ WireIsDue' /\ InOrder' /\ NoneForgotten'
  <2>1. n \in Nat /\ n' = n /\ Busy /\ Busy'
    BY Types DEF TypeInv, Busy
  <2> QED BY <1>1, <2>1, FlagsKeep, WireKeeps, ForgottenKeeps
<1>3. EndIsTold'
  BY DEF SessionInv, EndIsTold
<1>4. WorksOnDue'
  <2>1. received > 0 /\ received \in 1..Len(sent)
    BY Types DEF TypeInv, WorksOnLast
  <2>2. out'["main"] = f /\ out'["refresh"] = out["refresh"] /\ f # NoMessage
    BY Types, ServerAssumption DEF TypeInv
  <2>3. ASSUME NEW k, k = received PROVE Due(k, f)'
    BY <1>1, <2>1, <2>3, AllStays
  <2> QED BY <2>1, <2>2, <2>3 DEF SessionInv, WorksOnDue
<1> QED BY <1>2, <1>3, <1>4 DEF SessionInv

LEMMA MirrorAt ==
  ASSUME SessionInv, exitCode # "killed", NEW u \in URIs
  PROVE  /\ main # "store" => IsText(u, received, documents[u])
         /\ main = "store" => IsText(u, received - 1, documents[u])
BY DEF SessionInv, DocumentsMirrorClient

(* What is published of the document, or answered from it, is due.         *)
LEMMA StoredIsDue ==
  ASSUME TypeInv, SessionInv, main = "store",
         NEW d, d = IF sent[received].method = "didClose" THEN 0 ELSE received
  PROVE  /\ received \in 1..Len(sent) /\ sent[received].uri \in URIs /\ d \in 0..received
         /\ Owes(received) /\ ~IsResponse(received)
         /\ IsText(sent[received].uri, received, d)
         /\ Publish(received, d) \in Frame
         /\ Due(received, Publish(received, d))
<1> DEFINE u == sent[received].uri
           f == Publish(received, d)
<1>1. received \in 1..Len(sent) /\ u \in URIs /\ d \in 0..received /\ d \in Nat /\ received \in Nat
  BY Types DEF TypeInv, WorksOnLast
<1>2. Touches(received, u)
  BY DEF SessionInv, WorksOnDue
<1>3. f \in Frame /\ f.doc = d
  BY <1>1, FramesAreFrames DEF Publish, Codes
<1>4. received - 1 \in Nat /\ received = (received - 1) + 1
  BY <1>1
<1>5. IsText(u, received, d)
  BY <1>1, <1>2, <1>4, TextAfterOneMore
<1>6. Owes(received) /\ ~IsResponse(received)
  BY <1>1, <1>2 DEF Touches, Owes, IsResponse, DocumentNotifications, Requests
<1> HIDE DEF f
<1>7. Due(received, f)
  BY <1>3, <1>5, <1>6 DEF Due, f
<1> QED BY <1>1, <1>3, <1>5, <1>6, <1>7 DEF f

LEMMA FoundIsDue ==
  ASSUME TypeInv, SessionInv, main = "lookup", NEW d, d = documents[sent[received].uri]
  PROVE  /\ received \in 1..Len(sent) /\ d \in 0..received
         /\ Code(received) = "ok" /\ sent[received].method = "query" /\ IsResponse(received)
         /\ Response(received, "ok", d) \in Frame
         /\ Due(received, Response(received, "ok", d))
<1> DEFINE f == Response(received, "ok", d)
<1>1. received \in 1..Len(sent) /\ sent[received].uri \in URIs /\ d \in 0..received /\ received \in Nat
  BY Types DEF TypeInv, WorksOnLast
<1>2. f \in Frame /\ f.doc = d
  <2>1. "ok" \in Codes
    BY DEF Codes
  <2>2. f \in Frame
    BY <1>1, <2>1, FramesAreFrames
  <2> QED BY <2>2 DEF Response
<1>3. IsText(sent[received].uri, received, d)
  BY <1>1, MirrorAt DEF SessionInv, EndIsTold
<1>4. sent[received].method = "query" /\ Code(received) = "ok" /\ IsResponse(received)
  BY DEF SessionInv, WorksOnDue, IsResponse, Requests
<1> HIDE DEF f
<1>5. Due(received, f)
  BY <1>2, <1>3, <1>4 DEF Due, f
<1> QED BY <1>1, <1>2, <1>4, <1>5 DEF f

LEMMA StoresDocumentSession ==
  ASSUME TypeInv, TypeOK', SessionInv, StoresDocument
  PROVE  SessionInv'
<1> DEFINE u == sent[received].uri
           d == IF sent[received].method = "didClose" THEN 0 ELSE received
           f == Publish(received, d)
<1>1. /\ main = "store" /\ main' = "write" /\ exitCode' = exitCode
      /\ UNCHANGED <<sent, received, initialized, shutdown, n, exitCode, wire, broken>>
      /\ out' = [out EXCEPT !["main"] = f]
      /\ documents' = [documents EXCEPT ![u] = d]
  BY DEF StoresDocument, clientVars, sessionVars, refreshVars, Send, Conn!Call
<1>2. /\ received \in 1..Len(sent) /\ u \in URIs /\ d \in 0..received
      /\ IsText(u, received, d) /\ f \in Frame /\ Due(received, f)
  BY <1>1, StoredIsDue
<1>3. received \in 0..Len(sent) /\ received - 1 \in Nat /\ received = (received - 1) + 1 /\ d \in Nat
  BY <1>2
<1>4. f.kind # "refresh" /\ f.re = received
  BY DEF Publish
<1>5. DocumentsMirrorClient'
  <2>1. Goes
    BY <1>1, SameStays DEF TypeInv, Goes
  <2>2. ASSUME NEW v \in URIs, NEW k, NEW e, k = received, e = documents'[v] PROVE IsText(v, k, e)'
    <3>1. e \in Nat /\ IsText(v, k, e)
      <4>1. CASE v = u
        BY <1>1, <1>2, <1>3, <2>2, <4>1, Types DEF TypeInv
      <4>2. CASE v # u
        <5>1. e = documents[v] /\ e \in Nat
          BY <1>1, <1>2, <2>2, <4>2, Types DEF TypeInv
        <5>2. IsText(v, received - 1, e)
          BY <1>1, <5>1, MirrorAt DEF SessionInv, EndIsTold
        <5>3. ~Touches(received, v)
          BY <4>2 DEF Touches
        <5> QED BY <1>3, <2>2, <5>1, <5>2, <5>3, TextAfterOneMore
      <4> QED BY <4>1, <4>2
    <3> QED BY <1>3, <2>1, <2>2, <3>1, AllStays
  <2> QED BY <1>1, <2>2 DEF DocumentsMirrorClient
<1> HIDE DEF f
<1> QED BY <1>1, <1>2, <1>4, <1>5, SendingSession

LEMMA LooksUpDocumentSession ==
  ASSUME TypeInv, TypeOK', SessionInv, LooksUpDocument
  PROVE  SessionInv'
<1> DEFINE u == sent[received].uri
           f == Response(received, "ok", documents[u])
<1>1. /\ main = "lookup" /\ main' = "write"
      /\ UNCHANGED <<sent, received, initialized, shutdown, documents, n, exitCode, wire, broken>>
      /\ out' = [out EXCEPT !["main"] = f]
  BY DEF LooksUpDocument, clientVars, sessionVars, docVars, refreshVars, Send, Conn!Call
<1>2. f \in Frame /\ Due(received, f)
  BY <1>1, FoundIsDue
<1>3. f.kind # "refresh" /\ f.re = received
  BY DEF Response
<1>4. DocumentsMirrorClient'
  <2>1. Goes
    BY <1>1, SameStays DEF TypeInv, Goes
  <2> QED BY <1>1, <2>1, MirrorKeeps
<1> HIDE DEF f
<1> QED BY <1>1, <1>2, <1>3, <1>4, SendingSession

(* One of the two loops is in write.                                       *)
LEMMA WritingGoes ==
  ASSUME TypeInv, TypeOK', UNCHANGED sent, NEW g \in {"main", "refresh"},
         Conn!Lock(g) \/ Conn!WriteHeader(g) \/ Conn!WriteBody(g) \/ Conn!Fail(g)
  PROVE  /\ Goes
         /\ out[g] \in Frame
         /\ \A o \in {"main", "refresh"} \ {g} : out'[o] = out[o]
         /\ broken' = broken
         /\ Conn!Lock(g) => out' = out /\ wire' = wire
         /\ Conn!WriteHeader(g) => out' = out /\ wire' = Append(wire, Conn!Header(out[g]))
         /\ Conn!WriteBody(g) => out'[g] = NoMessage /\ wire' = Append(wire, Conn!Body(out[g]))
         /\ Conn!Fail(g) => out'[g] = NoMessage /\ wire' = wire /\ broken
<1>1. /\ out \in [{"main", "refresh"} -> Frame \union {NoMessage}]
      /\ wire \in Seq(Conn!Chunk) /\ Len(wire) \in Nat
  BY Types DEF TypeInv
<1>2. out[g] \in Frame
  BY <1>1 DEF TypeInv, ConnTheorems!HasMessage, Conn!Lock, Conn!WriteHeader, Conn!WriteBody, Conn!Fail
<1>3. \A o \in {"main", "refresh"} \ {g} : out'[o] = out[o]
  BY <1>1 DEF Conn!Lock, Conn!WriteHeader, Conn!WriteBody, Conn!Fail, Conn!Return
<1>4. /\ broken' = broken
      /\ Conn!Lock(g) => out' = out /\ wire' = wire
      /\ Conn!WriteHeader(g) => out' = out /\ wire' = Append(wire, Conn!Header(out[g]))
      /\ Conn!WriteBody(g) => out'[g] = NoMessage /\ wire' = Append(wire, Conn!Body(out[g]))
      /\ Conn!Fail(g) => out'[g] = NoMessage /\ wire' = wire /\ broken
  BY <1>1 DEF Conn!Lock, Conn!WriteHeader, Conn!WriteBody, Conn!Fail, Conn!Return
<1>5. Extends(wire, wire')
  <2>1. ASSUME NEW c, wire' = Append(wire, c) PROVE Extends(wire, wire')
    BY <1>1, <2>1 DEF Extends
  <2> QED BY <1>4, <2>1, SameStays DEF TypeInv
<1>6. Goes
  BY <1>5, SameStays DEF TypeInv, Goes
<1> QED BY <1>2, <1>3, <1>4, <1>6

LEMMA ChunksOf ==
  ASSUME NEW f \in Frame
  PROVE  /\ Conn!Header(f) \in Conn!Chunk /\ Conn!Header(f).part # "body"
         /\ Conn!Body(f) \in Conn!Chunk /\ Conn!Body(f).msg = f
BY DEF Conn!Header, Conn!Body, Conn!Chunk

LEMMA MainWritesSession ==
  ASSUME TypeInv, TypeOK', SessionInv, MainWrites
  PROVE  SessionInv'
<1> USE DEF clientVars, sessionVars, docVars, refreshVars
<1>1. /\ main = "write" /\ received \in 0..Len(sent) /\ n \in Nat
      /\ UNCHANGED <<sent, received, initialized, shutdown, documents, n, exitCode>>
  BY Types DEF MainWrites, TypeInv
<1>2. Conn!Lock("main") \/ Conn!WriteHeader("main") \/ Conn!WriteBody("main") \/ Conn!Fail("main")
  BY DEF MainWrites
<1>3. Goes /\ out["main"] \in Frame /\ out'["refresh"] = out["refresh"] /\ broken' = broken
  BY <1>1, <1>2, WritingGoes
<1>4. /\ out["main"].kind # "refresh" /\ out["main"].re = received /\ Due(received, out["main"])
      /\ received \in 1..Len(sent)
  BY <1>1, <1>3, ServerAssumption DEF SessionInv, WorksOnDue
<1>5. out["refresh"] # NoMessage => out["refresh"].kind = "refresh" /\ out["refresh"].re = n
  BY DEF SessionInv, WorksOnDue
<1>6. CASE Conn!Lock("main") /\ main' = main
  <2>1. out' = out /\ wire' = wire
    BY <1>1, <1>6, WritingGoes
  <2>2. WireIsDue' /\ InOrder'
    BY <1>1, <1>3, <1>6, <2>1, WireKeeps DEF Busy
  <2> QED BY <1>1, <1>3, <1>5, <1>6, <2>1, <2>2, KeepsSession
<1>7. CASE Conn!WriteHeader("main") /\ main' = main
  <2>1. out' = out /\ wire' = Append(wire, Conn!Header(out["main"]))
    BY <1>1, <1>7, WritingGoes
  <2>2. WireIsDue' /\ InOrder'
    BY <1>1, <1>3, <1>7, <2>1, ChunkInTurn, ChunksOf DEF Busy
  <2> QED BY <1>1, <1>3, <1>5, <1>7, <2>1, <2>2, KeepsSession
<1>8. CASE Conn!WriteBody("main") /\ main' = "read"
  <2>1. out'["main"] = NoMessage /\ wire' = Append(wire, Conn!Body(out["main"]))
    BY <1>1, <1>8, WritingGoes
  <2>2. InTurn(Conn!Body(out["main"]))
    BY <1>1, <1>3, <1>4, <1>8, ChunksOf DEF InTurn, Busy
  <2>3. WireIsDue' /\ InOrder'
    BY <1>1, <1>3, <1>8, <2>1, <2>2, ChunkInTurn, ChunksOf DEF Busy
  <2>4. FlagsAreHistory' /\ DocumentsMirrorClient'
    BY <1>1, <1>3, <1>8, FlagsKeep, MirrorKeeps
  <2>5. WorksOnDue'
    BY <1>1, <1>3, <1>5, <1>8, <2>1 DEF WorksOnDue
  <2>6. NoneForgotten'
    <3>1. ASSUME NEW k, k = received PROVE AllFollowed(k)'
      <4>1. k \in 1..Len(sent) /\ k - 1 \in 0..Len(sent) /\ \A i \in 1..k : i \in 1..(k - 1) \/ i = k
        BY <1>4, <3>1
      <4>2. AllFollowed(k - 1)
        BY <1>1, <3>1 DEF SessionInv, NoneForgotten, Busy
      <4>3. AllFollowed(k - 1)'
        BY <1>3, <4>1, <4>2, FollowedStays
      <4>4. Followed(k)'
        <5>1. PICK f \in Frame : f = out["main"]
          BY <1>3
        <5>2. Due(k, f)'
          BY <1>3, <1>4, <3>1, <4>1, <5>1, AllStays
        <5>3. wire' = Append(wire, Conn!Body(f)) /\ wire \in Seq(Conn!Chunk)
          BY <2>1, <5>1, Types DEF TypeInv
        <5>4. PICK p : p = Len(wire')
          OBVIOUS
        <5>5. p \in 1..Len(wire') /\ wire'[p] = Conn!Body(f)
          BY <5>3, <5>4
        <5>6. wire'[p].part = "body" /\ wire'[p].msg = f
          BY <5>5 DEF Conn!Body
        <5> QED BY <5>2, <5>5, <5>6 DEF Followed
      <4> QED BY <4>1, <4>3, <4>4 DEF AllFollowed
    <3> QED BY <1>1, <1>8, <3>1 DEF NoneForgotten, Busy
  <2>7. EndIsTold'
    BY <1>1, <1>8 DEF SessionInv, EndIsTold
  <2> QED BY <2>3, <2>4, <2>5, <2>6, <2>7 DEF SessionInv
<1>9. CASE Conn!Fail("main") /\ main' = "failed"
  <2>1. out'["main"] = NoMessage /\ wire' = wire /\ broken'
    BY <1>1, <1>3, <1>9, WritingGoes
  <2>2. WireIsDue' /\ InOrder' /\ NoneForgotten' /\ FlagsAreHistory' /\ DocumentsMirrorClient'
    BY <1>1, <1>3, <1>9, <2>1, WireKeeps, ForgottenKeeps, FlagsKeep, MirrorKeeps DEF Busy
  <2>3. WorksOnDue'
    BY <1>1, <1>3, <1>5, <1>9, <2>1 DEF WorksOnDue
  <2>4. EndIsTold'
    BY <1>1, <1>9, <2>1 DEF SessionInv, EndIsTold, Cut
  <2> QED BY <2>2, <2>3, <2>4 DEF SessionInv
<1> QED BY <1>6, <1>7, <1>8, <1>9 DEF MainWrites

LEMMA ExitsSession ==
  ASSUME TypeInv, TypeOK', SessionInv, Exits
  PROVE  SessionInv'
<1>1. /\ main \in {"returned", "failed"} /\ main' = "gone"
      /\ exitCode' = IF main = "returned" /\ shutdown THEN "success" ELSE "failure"
      /\ UNCHANGED <<sent, received, initialized, shutdown, documents, n, wire, out, broken>>
      /\ n \in Nat /\ received \in 0..Len(sent)
  BY Types DEF Exits, clientVars, sessionVars, docVars, refreshVars, conn, TypeInv
<1>2. Goes
  BY <1>1, SameStays DEF TypeInv, Goes
<1>3. exitCode = "none"
  BY <1>1 DEF SessionInv, EndIsTold
<1>4. WireIsDue' /\ InOrder' /\ NoneForgotten' /\ FlagsAreHistory' /\ DocumentsMirrorClient'
  BY <1>1, <1>2, <1>3, WireKeeps, ForgottenKeeps, FlagsKeep, MirrorKeeps DEF Busy
<1>5. WorksOnDue'
  BY <1>1 DEF SessionInv, WorksOnDue
<1>6. EndIsTold'
  <2>1. ASSUME NEW k, k = received
        PROVE  /\ shutdown <=> ShutdownBy(k)'
               /\ main = "returned" => AllFollowed(k)'
    BY <1>1, <1>2, <2>1, AllStays, FollowedStays DEF SessionInv, FlagsAreHistory, NoneForgotten
  <2>2. main = "failed" => Cut'
    BY <1>1 DEF SessionInv, EndIsTold, Cut
  <2> QED BY <1>1, <2>1, <2>2 DEF EndIsTold
<1> QED BY <1>4, <1>5, <1>6 DEF SessionInv

LEMMA MainLoopSession ==
  ASSUME TypeInv, TypeOK', SessionInv, MainLoop
  PROVE  SessionInv'
BY ReadingIsDue, ReadsDulySession, StoresDocumentSession, LooksUpDocumentSession,
   MainWritesSession, ExitsSession DEF MainLoop, Reading

LEMMA RefreshLoopSession ==
  ASSUME TypeInv, TypeOK', SessionInv, RefreshLoop
  PROVE  SessionInv'
<1> USE DEF clientVars, sessionVars, docVars, refreshVars, conn
<1>1. /\ UNCHANGED <<sent, received, initialized, shutdown, documents, main, exitCode>>
      /\ n \in Nat /\ (Busy' <=> Busy)
  BY Types DEF RefreshLoop, RefreshStops, RefreshTakesTick, ScanLocks, ScanEnds, RefreshWrites,
               TypeInv, Busy
<1>2. /\ out["refresh"] # NoMessage => out["refresh"].kind = "refresh" /\ out["refresh"].re = n
      /\ out \in [{"main", "refresh"} -> Frame \union {NoMessage}]
  BY Types DEF SessionInv, WorksOnDue, TypeInv
<1>3. CASE RefreshStops \/ RefreshTakesTick \/ ScanLocks
  <2>1. UNCHANGED <<n, wire, out, broken>>
    BY <1>3 DEF RefreshStops, RefreshTakesTick, ScanLocks
  <2>2. Goes
    BY <1>1, <2>1, SameStays DEF TypeInv, Goes
  <2> QED BY <1>1, <1>2, <2>1, <2>2, WireKeeps, KeepsSession
<1>4. CASE ScanEnds
  <2>1. UNCHANGED <<wire, broken>>
    BY <1>4 DEF ScanEnds, Conn!Call
  <2>2. \/ n' = n /\ out' = [out EXCEPT !["refresh"] = RefreshRequest(n)]
        \/ n' = n + 1 /\ out' = out
    BY <1>4 DEF ScanEnds, NextRound, Conn!Call
  <2>3. Goes
    BY <1>1, <2>1, SameStays DEF TypeInv, Goes
  <2>4. n' >= n /\ out'["main"] = out["main"]
    BY <1>1, <1>2, <2>2
  <2>5. out'["refresh"] # NoMessage => out'["refresh"].kind = "refresh" /\ out'["refresh"].re = n'
    <3>1. CASE n' = n /\ out' = [out EXCEPT !["refresh"] = RefreshRequest(n)]
      BY <1>2, <3>1 DEF RefreshRequest
    <3>2. CASE n' = n + 1 /\ out' = out
      <4>1. out["refresh"] = NoMessage
        BY <1>4 DEF ScanEnds, TypeInv, RefreshHasMessage
      <4> QED BY <3>2, <4>1
    <3> QED BY <2>2, <3>1, <3>2
  <2> QED BY <1>1, <2>1, <2>3, <2>4, <2>5, WireKeeps, KeepsSession
<1>5. CASE RefreshWrites
  <2>1. Conn!Lock("refresh") \/ Conn!WriteHeader("refresh") \/ Conn!WriteBody("refresh")
        \/ Conn!Fail("refresh")
    BY <1>5 DEF RefreshWrites
  <2>2. Goes /\ out["refresh"] \in Frame /\ out'["main"] = out["main"] /\ broken' = broken
    BY <1>1, <2>1, WritingGoes
  <2>3. out["refresh"].kind = "refresh" /\ out["refresh"].re = n
    BY <1>2, <2>2, ServerAssumption
  <2>4. CASE Conn!Lock("refresh") /\ n' = n
    <3>1. out' = out /\ wire' = wire
      BY <1>1, <2>4, WritingGoes
    <3> QED BY <1>1, <1>2, <2>2, <2>4, <3>1, WireKeeps, KeepsSession
  <2>5. CASE Conn!WriteHeader("refresh") /\ n' = n
    <3>1. out' = out /\ wire' = Append(wire, Conn!Header(out["refresh"]))
      BY <1>1, <2>5, WritingGoes
    <3>2. WireIsDue' /\ InOrder'
      BY <1>1, <2>2, <2>5, <3>1, ChunkInTurn, ChunksOf
    <3> QED BY <1>1, <1>2, <2>2, <2>5, <3>1, <3>2, KeepsSession
  <2>6. CASE Conn!WriteBody("refresh") /\ n' = n + 1
    <3>1. out'["refresh"] = NoMessage /\ wire' = Append(wire, Conn!Body(out["refresh"]))
      BY <1>1, <2>6, WritingGoes
    <3>2. InTurn(Conn!Body(out["refresh"]))
      BY <1>1, <2>2, <2>3, <2>6, ChunksOf DEF InTurn
    <3>3. WireIsDue' /\ InOrder'
      BY <1>1, <2>2, <2>6, <3>1, <3>2, ChunkInTurn, ChunksOf
    <3> QED BY <1>1, <1>2, <2>2, <2>6, <3>1, <3>3, KeepsSession
  <2>7. CASE Conn!Fail("refresh") /\ n' = n + 1
    <3>1. out'["refresh"] = NoMessage /\ wire' = wire
      BY <1>1, <2>7, WritingGoes
    <3> QED BY <1>1, <1>2, <2>2, <2>7, <3>1, WireKeeps, KeepsSession
  <2> QED BY <1>5, <2>4, <2>5, <2>6, <2>7 DEF RefreshWrites, NextRound
<1> QED BY <1>3, <1>4, <1>5 DEF RefreshLoop

LEMMA EnvironmentSession ==
  ASSUME TypeInv, TypeOK', SessionInv, Environment
  PROVE  SessionInv'
<1> USE DEF clientVars, sessionVars, docVars, refreshVars, conn
<1>1. /\ UNCHANGED <<received, initialized, shutdown, documents, n, out, wire>>
      /\ broken => broken'
  BY DEF Environment, ClientSends, ClientStopsReading, Killed, MinutePasses, Conn!Break
<1>2. Extends(sent, sent')
  <2>1. ASSUME NEW m \in Inbound, ClientSends(m) PROVE Extends(sent, sent')
    BY <2>1, Types DEF ClientSends, Extends, TypeInv
  <2>2. CASE ClientStopsReading \/ Killed \/ MinutePasses
    BY <2>2, SameStays DEF ClientStopsReading, Killed, MinutePasses, TypeInv
  <2> QED BY <2>1, <2>2 DEF Environment
<1>3. Goes
  BY <1>1, <1>2, SameStays DEF TypeInv, Goes
<1>4. n \in Nat /\ received \in 0..Len(sent) /\ (out["main"] # NoMessage => out["main"] \in Frame)
  BY Types DEF TypeInv
<1>5. out["refresh"] # NoMessage => out["refresh"].kind = "refresh" /\ out["refresh"].re = n
  BY DEF SessionInv, WorksOnDue
<1>6. CASE UNCHANGED <<main, exitCode>>
  BY <1>1, <1>3, <1>4, <1>5, <1>6, WireKeeps, KeepsSession DEF Busy
<1>7. CASE Killed
  <2>1. main' = "gone" /\ exitCode' = "killed" /\ sent' = sent
    BY <1>7 DEF Killed
  <2>2. WireIsDue' /\ InOrder' /\ NoneForgotten' /\ FlagsAreHistory'
    BY <1>1, <1>3, <1>4, <2>1, WireKeeps, ForgottenKeeps, FlagsKeep DEF Busy
  <2>3. DocumentsMirrorClient' /\ EndIsTold'
    BY <2>1 DEF DocumentsMirrorClient, EndIsTold
  <2>4. WorksOnDue'
    <3>1. ASSUME NEW k, NEW f, out["main"] # NoMessage, k = received, f = out["main"] PROVE Due(k, f)'
      BY <1>3, <1>4, <3>1, AllStays DEF SessionInv, WorksOnDue
    <3> QED BY <1>1, <1>5, <2>1, <3>1 DEF SessionInv, WorksOnDue
  <2> QED BY <2>2, <2>3, <2>4 DEF SessionInv
<1> QED
  BY <1>6, <1>7 DEF Environment, ClientSends, ClientStopsReading, MinutePasses

LEMMA InitSession == Init => SessionInv
<1> SUFFICES ASSUME Init PROVE SessionInv
  OBVIOUS
<1>1. /\ sent = <<>> /\ received = 0 /\ documents = [u \in URIs |-> 0]
      /\ main = "read" /\ refresh = "off" /\ exitCode = "none"
      /\ wire = <<>> /\ out["main"] = NoMessage /\ out["refresh"] = NoMessage
  BY DEF Init, Conn!Init
<1>2. ~initialized /\ ~shutdown
  BY Zenon DEF Init
<1>3. \A i : i \notin 1..0
  OBVIOUS
<1>4. FlagsAreHistory
  BY <1>1, <1>2, OneMoreMessage DEF FlagsAreHistory
<1>5. DocumentsMirrorClient
  BY <1>1, <1>3 DEF DocumentsMirrorClient, IsText
<1>6. WorksOnDue /\ WireIsDue /\ InOrder /\ NoneForgotten /\ EndIsTold
  BY <1>1, <1>3 DEF WorksOnDue, WireIsDue, InOrder, NoneForgotten, AllFollowed, Busy, EndIsTold
<1> QED BY <1>4, <1>5, <1>6 DEF SessionInv

LEMMA SpecSession == Spec => []SessionInv
<1>1. TypeInv /\ TypeOK' /\ SessionInv /\ [Next]_vars => SessionInv'
  <2> SUFFICES ASSUME TypeInv, TypeOK', SessionInv, [Next]_vars PROVE SessionInv'
    OBVIOUS
  <2>1. CASE UNCHANGED vars
    <3>1. /\ UNCHANGED <<sent, received, initialized, shutdown, documents, main, exitCode, n, wire, out, broken>>
          /\ n \in Nat
      BY <2>1, Types DEF vars, TypeInv
    <3>2. Goes
      BY <3>1, SameStays DEF TypeInv, Goes
    <3>3. out["refresh"] # NoMessage => out["refresh"].kind = "refresh" /\ out["refresh"].re = n
      BY DEF SessionInv, WorksOnDue
    <3> QED BY <3>1, <3>2, <3>3, WireKeeps, KeepsSession DEF Busy
  <2> QED BY <2>1, MainLoopSession, RefreshLoopSession, EnvironmentSession DEF Next
<1> QED BY <1>1, InitSession, SpecTypes, ServerTypeOK, PTL DEF Spec

(* An answer that is written is out whole before the next message is read. *)
LEMMA StepAnswersAreWhole ==
  ASSUME TypeInv, TypeOK', SessionInv, AnswersAreWhole, [Next]_vars
  PROVE  AnswersAreWhole'
<1> USE DEF clientVars, sessionVars, docVars, refreshVars, conn
<1>1. CASE UNCHANGED <<wire, main, exitCode>>
  BY <1>1 DEF AnswersAreWhole, IsCutOff
<1>2. CASE Reading
  <2>1. main = "read" /\ wire' = wire
    BY <1>2, ReadingIsDue DEF ReadsDuly
  <2> QED BY <2>1 DEF AnswersAreWhole, IsCutOff
<1>3. CASE StoresDocument \/ LooksUpDocument
  <2>1. main \in {"store", "lookup"} /\ wire' = wire
    BY <1>3 DEF StoresDocument, LooksUpDocument, Send, Conn!Call
  <2> QED BY <2>1 DEF AnswersAreWhole, IsCutOff
<1>4. CASE Exits
  <2>1. /\ wire' = wire /\ main \in {"returned", "failed"} /\ main' = "gone"
        /\ exitCode' = "success" => main = "returned"
    BY <1>4 DEF Exits
  <2> QED BY <2>1 DEF AnswersAreWhole, IsCutOff
<1>5. CASE MainWrites
  <2>1. main = "write" /\ exitCode' = exitCode /\ exitCode = "none"
    BY <1>5 DEF MainWrites, SessionInv, EndIsTold
  <2>2. CASE Conn!WriteBody("main")
    <3>1. wire' = Append(wire, Conn!Body(out["main"]))
      BY <2>2 DEF Conn!WriteBody
    <3>2. wire'[Len(wire')] = Conn!Body(out["main"])
      BY <3>1, Types DEF TypeInv
    <3> QED BY <3>2 DEF AnswersAreWhole, IsCutOff, Conn!Body
  <2>3. CASE main' \in {"write", "failed"}
    BY <2>1, <2>3 DEF AnswersAreWhole
  <2> QED BY <1>5, <2>1, <2>2, <2>3 DEF MainWrites
<1>6. CASE RefreshLoop
  <2>1. UNCHANGED <<main, exitCode>>
    BY <1>6 DEF RefreshLoop, RefreshStops, RefreshTakesTick, ScanLocks, ScanEnds, RefreshWrites
  <2>2. wire' = wire \/ \E c : wire' = Append(wire, c) /\ (c.part = "header" => c.msg.kind = "refresh")
    <3>1. out["refresh"] # NoMessage => out["refresh"].kind = "refresh"
      BY DEF SessionInv, WorksOnDue
    <3>2. CASE RefreshStops \/ RefreshTakesTick \/ ScanLocks \/ ScanEnds
      BY <3>2 DEF RefreshStops, RefreshTakesTick, ScanLocks, ScanEnds, Conn!Call
    <3>3. CASE RefreshWrites
      <4>1. CASE Conn!WriteHeader("refresh")
        <5>1. out["refresh"] \in Frame
          BY <3>3, <4>1, WritingGoes DEF RefreshWrites
        <5>2. wire' = Append(wire, Conn!Header(out["refresh"])) /\ out["refresh"].kind = "refresh"
          BY <3>1, <4>1, <5>1, ServerAssumption DEF Conn!WriteHeader
        <5> QED BY <5>2 DEF Conn!Header
      <4>2. CASE Conn!WriteBody("refresh")
        <5>1. wire' = Append(wire, Conn!Body(out["refresh"])) /\ Conn!Body(out["refresh"]).part = "body"
          BY <4>2 DEF Conn!WriteBody, Conn!Body
        <5> QED BY <5>1
      <4>3. CASE Conn!Lock("refresh") \/ Conn!Fail("refresh")
        BY <4>3 DEF Conn!Lock, Conn!Fail
      <4> QED BY <3>3, <4>1, <4>2, <4>3 DEF RefreshWrites
    <3> QED BY <1>6, <3>2, <3>3 DEF RefreshLoop
  <2>3. CASE wire' = wire
    BY <2>1, <2>3 DEF AnswersAreWhole, IsCutOff
  <2>4. ASSUME NEW c, wire' = Append(wire, c), c.part = "header" => c.msg.kind = "refresh"
        PROVE  AnswersAreWhole'
    <3>1. wire'[Len(wire')] = c
      BY <2>4, Types DEF TypeInv
    <3> QED BY <2>4, <3>1 DEF AnswersAreWhole, IsCutOff
  <2> QED BY <2>2, <2>3, <2>4
<1>7. CASE Environment
  <2>1. /\ wire' = wire
        /\ UNCHANGED <<main, exitCode>> \/ (main' = "gone" /\ exitCode' = "killed")
    BY <1>7 DEF Environment, ClientSends, ClientStopsReading, Killed, MinutePasses, Conn!Break
  <2> QED BY <2>1 DEF AnswersAreWhole, IsCutOff
<1> QED
  BY <1>1, <1>2, <1>3, <1>4, <1>5, <1>6, <1>7 DEF vars, Next, MainLoop, Reading

LEMMA SpecAnswersAreWhole == Spec => []AnswersAreWhole
<1>1. Init => AnswersAreWhole
  BY DEF Init, Conn!Init, AnswersAreWhole, IsCutOff
<1>2. TypeInv /\ TypeOK' /\ SessionInv /\ AnswersAreWhole /\ [Next]_vars => AnswersAreWhole'
  BY StepAnswersAreWhole
<1> QED BY <1>1, <1>2, SpecTypes, SpecSession, ServerTypeOK, PTL DEF Spec

-------------------------------------------------------------------------------
(* The server's copy of each document is the client's text, for any order  *)
(* of messages (handle, update).                                           *)
THEOREM ServerMirrorsDocuments == Spec => []DocumentsMirrorClient
BY SpecSession, SessionInvSuffices, PTL

(* Nothing is answered or published but what a message is due.             *)
THEOREM ServerAnswersNothingUnasked == Spec => []NothingUnasked
BY SpecSession, SessionInvSuffices, PTL

(* No message is left without what it is due, once the next one is read or *)
(* the process has ended with exit code 0.                                 *)
THEOREM ServerForgetsNothing == Spec => []NothingForgotten
BY SpecSession, SessionInvSuffices, PTL

(* Answers leave in the order of the messages, and ids of refresh requests *)
(* do not come again, whatever the two loops do between each other's steps.*)
THEOREM ServerAnswersInOrder == Spec => []InOrder
BY SpecSession, SessionInvSuffices, PTL

(* The exit code tells how the session went.                               *)
THEOREM ServerExitCodeIsHonest == Spec => []ExitCodeIsHonest
BY SpecSession, SpecAnswersAreWhole, HonestExit, PTL

-------------------------------------------------------------------------------
(* Server implements Session. How far Session is is how many messages have *)
(* taken effect; that the client supports refreshes has been said, and each*)
(* round of the refresh loop has used up a minute, or a tick for its start.*)
Handled == IF main \in {"store", "lookup"} THEN received - 1 ELSE received
Told(k) ==
  \E i \in 1..k :
    sent[i].method = "initialize" /\ sent[i].valid /\ sent[i].refresh /\ ~InitializedBy(i - 1)

InRound == refresh \in {"lock", "scan", "write"}
RoundsInv ==
  /\ refresh # "off" => Told(Handled)
  /\ n + (IF tick THEN 1 ELSE 0) + (IF InRound THEN 1 ELSE 0) <= now + 1

LEMMA HandledInRange ==
  ASSUME TypeInv
  PROVE  /\ Handled \in 0..Len(sent) /\ Handled \in Nat
         /\ main \notin {"store", "lookup"} => Handled = received
         /\ main \in {"store", "lookup"} => Handled = received - 1
BY Types DEF TypeInv, WorksOnLast, Handled

LEMMA ToldStays ==
  ASSUME Goes, NEW k \in 0..Len(sent), NEW j \in Nat, k <= j, Told(k)
  PROVE  Told(j)'
<1>1. PICK i \in 1..k : sent[i].method = "initialize" /\ sent[i].valid /\ sent[i].refresh
                        /\ ~InitializedBy(i - 1)
  BY DEF Told
<1>2. i \in 1..Len(sent) /\ i - 1 \in 0..Len(sent) /\ i \in 1..j
  BY Types DEF Goes
<1>3. sent'[i] = sent[i] /\ (InitializedBy(i - 1)' <=> InitializedBy(i - 1))
  BY <1>2, AllStays
<1> QED BY <1>1, <1>2, <1>3 DEF Told

LEMMA ToldKeeps ==
  ASSUME TypeInv, TypeOK', Goes, refresh # "off" => Told(Handled), refresh = "off" => refresh' = "off",
         Handled' \in Nat, Handled <= Handled'
  PROVE  (refresh # "off" => Told(Handled))'
<1>1. ASSUME NEW j, j = Handled', refresh' # "off" PROVE Told(j)'
  BY <1>1, HandledInRange, ToldStays
<1> QED BY <1>1

LEMMA RoundsStep ==
  ASSUME TypeInv, TypeOK', SessionInv, RoundsInv, [Next]_vars
  PROVE  RoundsInv'
<1> USE DEF clientVars, sessionVars, docVars, refreshVars, conn
<1> DEFINE Minutes == n + (IF tick THEN 1 ELSE 0) + (IF InRound THEN 1 ELSE 0) <= now + 1
<1>1. /\ n \in Nat /\ now \in Nat /\ received \in 0..Len(sent) /\ received \in Nat
      /\ refresh \in {"off", "select", "lock", "scan", "write", "done"} /\ tick \in BOOLEAN
      /\ Handled \in Nat /\ Handled <= received
      /\ main = "read" => Handled = received
  BY Types, HandledInRange DEF TypeInv, TypeOK, ProcessTypeOK
<1>2. CASE UNCHANGED vars
  <2>1. UNCHANGED <<refresh, n, tick, now>> /\ Handled' = Handled /\ Goes
    BY <1>2, SameStays DEF vars, Handled, Goes, TypeInv
  <2> QED BY <1>1, <2>1, ToldKeeps DEF RoundsInv, InRound
<1>3. CASE Reading
  <2>1. ReadsDuly
    BY <1>3, ReadingIsDue
  <2>2. /\ main = "read" /\ received < Len(sent) /\ received' = received + 1
        /\ UNCHANGED <<sent, wire>>
    BY <2>1 DEF ReadsDuly
  <2>3. Goes
    BY <2>2, SameStays DEF Goes, TypeInv
  <2>4. Handled' \in {received, received + 1}
    BY <1>1, <2>2 DEF Handled
  <2>5. UNCHANGED <<n, tick, now>>
    BY <1>3 DEF Reading, ReadsStreamEnd, ReadsInvalidJSON, ReadsResponse, Refuses, HandlesInitialize,
         HandlesShutdown, HandlesExit, HandlesNotification, HandlesQuery, HandlesUnsupported
  <2>6. CASE refresh' = refresh
    <3>1. Minutes'
      BY <2>5, <2>6 DEF RoundsInv, InRound
    <3>2. (refresh # "off" => Told(Handled))'
      BY <1>1, <2>2, <2>3, <2>4, <2>6, ToldKeeps DEF RoundsInv
    <3> QED BY <3>1, <3>2 DEF RoundsInv
  <2>7. CASE refresh' # refresh
    <3>1. HandlesInitialize
      BY <1>3, <2>7 DEF Reading, ReadsStreamEnd, ReadsInvalidJSON, ReadsResponse, Refuses,
         HandlesShutdown, HandlesExit, HandlesNotification, HandlesQuery, HandlesUnsupported
    <3>2. /\ ~initialized /\ Incoming.valid /\ Incoming.refresh /\ refresh' = "select" /\ main' = "write"
          /\ Incoming.method = "initialize"
      BY <2>7, <3>1 DEF HandlesInitialize, StartsRefresh, Answer, Send, Reads
    <3>3. ~InRound
      BY <3>2 DEF TypeInv, RefreshHasMessage, InRound
    <3>4. Minutes'
      BY <1>1, <2>5, <3>2, <3>3 DEF RoundsInv, InRound
    <3>5. ASSUME NEW j, j = Handled' PROVE Told(j)'
      <4>1. j = received + 1 /\ j \in 1..j /\ j \in 1..Len(sent) /\ j - 1 \in 0..Len(sent)
        BY <1>1, <2>2, <3>2, <3>5 DEF Handled
      <4>2. sent[j].method = "initialize" /\ sent[j].valid /\ sent[j].refresh
        BY <3>2, <4>1 DEF Incoming
      <4>3. ~InitializedBy(j - 1)
        BY <3>2, <4>1, NextMessage
      <4>4. ~InitializedBy(j - 1)' /\ sent' = sent
        BY <2>2, <2>3, <4>1, <4>3, AllStays
      <4> QED BY <4>1, <4>2, <4>4 DEF Told
    <3> QED BY <3>4, <3>5 DEF RoundsInv
  <2> QED BY <2>6, <2>7
<1>4. CASE StoresDocument \/ LooksUpDocument \/ MainWrites \/ Exits
  <2>1. UNCHANGED <<sent, received, refresh, n, tick, now>> /\ main' \notin {"store", "lookup"}
    BY <1>4 DEF StoresDocument, LooksUpDocument, MainWrites, Exits, Send
  <2>2. Handled' = received
    BY <2>1 DEF Handled
  <2>3. Extends(wire, wire')
    <3>1. CASE StoresDocument \/ LooksUpDocument \/ Exits
      BY <3>1, SameStays DEF TypeInv, StoresDocument, LooksUpDocument, Exits, Send, Conn!Call
    <3>2. CASE MainWrites
      BY <2>1, <3>2, WritingGoes DEF MainWrites, Goes
    <3> QED BY <1>4, <3>1, <3>2
  <2>4. Goes
    BY <2>1, <2>3, SameStays DEF Goes, TypeInv
  <2>5. (refresh # "off" => Told(Handled))'
    BY <1>1, <2>1, <2>2, <2>4, ToldKeeps DEF RoundsInv
  <2> QED BY <1>1, <2>1, <2>5 DEF RoundsInv, InRound
<1>5. CASE RefreshLoop
  <2>1. UNCHANGED <<sent, received, main, now>>
    BY <1>5 DEF RefreshLoop, RefreshStops, RefreshTakesTick, ScanLocks, ScanEnds, RefreshWrites
  <2>2. Handled' = Handled
    BY <2>1 DEF Handled
  <2>3. refresh # "off"
    BY <1>5 DEF RefreshLoop, RefreshStops, RefreshTakesTick, ScanLocks, ScanEnds, RefreshWrites
  <2>4. Extends(wire, wire')
    <3>1. CASE RefreshStops \/ RefreshTakesTick \/ ScanLocks \/ ScanEnds
      BY <3>1, SameStays DEF TypeInv, RefreshStops, RefreshTakesTick, ScanLocks, ScanEnds, Conn!Call
    <3>2. CASE RefreshWrites
      BY <2>1, <3>2, WritingGoes DEF RefreshWrites, Goes
    <3> QED BY <1>5, <3>1, <3>2 DEF RefreshLoop
  <2>5. Goes
    BY <2>1, <2>4, SameStays DEF Goes, TypeInv
  <2>6. (refresh # "off" => Told(Handled))'
    BY <1>1, <2>2, <2>3, <2>5, ToldKeeps DEF RoundsInv
  <2>7. Minutes'
    <3>1. \/ refresh = "select" /\ refresh' = "done" /\ n' = n /\ tick' = FALSE
          \/ refresh = "select" /\ refresh' = "lock" /\ n' = n /\ tick /\ tick' = FALSE
          \/ refresh = "lock" /\ refresh' = "scan" /\ n' = n /\ tick' = tick
          \/ refresh = "scan" /\ refresh' = "write" /\ n' = n /\ tick' = tick
          \/ refresh = "write" /\ refresh' = "write" /\ n' = n /\ tick' = tick
          \/ InRound /\ refresh' = "select" /\ n' = n + 1 /\ tick' = tick
      BY <1>5 DEF RefreshLoop, RefreshStops, RefreshTakesTick, ScanLocks, ScanEnds, RefreshWrites,
                  NextRound, InRound
    <3> QED BY <1>1, <2>1, <3>1 DEF RoundsInv, InRound
  <2> QED BY <2>6, <2>7 DEF RoundsInv
<1>6. CASE Environment
  <2>1. UNCHANGED <<received, refresh, n, wire>> /\ (main' = main \/ main' = "gone")
    BY <1>6 DEF Environment, ClientSends, ClientStopsReading, Killed, MinutePasses, Conn!Break
  <2>2. Extends(sent, sent')
    <3>1. ASSUME NEW m \in Inbound, ClientSends(m) PROVE Extends(sent, sent')
      BY <3>1, Types DEF ClientSends, Extends, TypeInv
    <3>2. CASE ClientStopsReading \/ Killed \/ MinutePasses
      BY <3>2, SameStays DEF ClientStopsReading, Killed, MinutePasses, TypeInv
    <3> QED BY <1>6, <3>1, <3>2 DEF Environment
  <2>3. Goes
    BY <2>1, <2>2, SameStays DEF Goes, TypeInv
  <2>4. Handled' \in {Handled, received}
    BY <2>1 DEF Handled
  <2>5. (refresh # "off" => Told(Handled))'
    BY <1>1, <2>1, <2>3, <2>4, ToldKeeps DEF RoundsInv
  <2>6. \/ tick' = tick /\ now' = now
        \/ tick' \in BOOLEAN /\ now' = now + 1
    BY <1>6 DEF Environment, ClientSends, ClientStopsReading, Killed, MinutePasses
  <2>7. Minutes'
    BY <1>1, <2>1, <2>6 DEF RoundsInv, InRound
  <2> QED BY <2>5, <2>7 DEF RoundsInv
<1> QED BY <1>2, <1>3, <1>4, <1>5, <1>6 DEF Next, MainLoop, Reading

LEMMA SpecRounds == Spec => []RoundsInv
<1>1. Init => RoundsInv
  BY DEF Init, RoundsInv, InRound
<1>2. TypeInv /\ TypeOK' /\ SessionInv /\ RoundsInv /\ [Next]_vars => RoundsInv'
  BY RoundsStep
<1> QED BY <1>1, <1>2, SpecTypes, SpecSession, ServerTypeOK, PTL DEF Spec

(* Session says in the same words what is due.                             *)
LEMMA SameDues ==
  /\ \A k : Sequential!InitializedBy(k) <=> InitializedBy(k)
  /\ \A k : Sequential!ShutdownBy(k) <=> ShutdownBy(k)
  /\ \A i : Sequential!Owes(i) <=> Owes(i)
  /\ \A i, f : Sequential!Due(i, f) <=> Due(i, f)
  /\ \A u, k, d : Sequential!IsText(u, k, d) <=> IsText(u, k, d)
  /\ \A i : Sequential!Code(i) = Code(i)
  /\ \A i, c, d : Sequential!Response(i, c, d) = Response(i, c, d)
  /\ \A i, d : Sequential!Publish(i, d) = Publish(i, d)
  /\ \A k : Sequential!RefreshRequest(k) = RefreshRequest(k)
<1>1. \A k : Sequential!InitializedBy(k) <=> InitializedBy(k)
  BY DEF Sequential!InitializedBy, InitializedBy
<1>2. \A k : Sequential!ShutdownBy(k) <=> ShutdownBy(k)
  BY <1>1, Zenon DEF Sequential!ShutdownBy, ShutdownBy
<1>3. \A i, u : Sequential!Touches(i, u) <=> Touches(i, u)
  BY <1>1, <1>2, Zenon DEF Sequential!Touches, Touches, Sequential!ReadyFor, ReadyFor,
     Sequential!DocumentNotifications, DocumentNotifications
<1>4. \A i : Sequential!IsResponse(i) <=> IsResponse(i)
  BY DEF Sequential!IsResponse, IsResponse, Sequential!Requests, Requests
<1>5. \A i : Sequential!Owes(i) <=> Owes(i)
  BY <1>3, <1>4, Zenon DEF Sequential!Owes, Owes
<1>6. \A u, k, d : Sequential!IsText(u, k, d) <=> IsText(u, k, d)
  BY <1>3, Zenon DEF Sequential!IsText, IsText
<1>7. \A i : Sequential!Code(i) = Code(i)
  BY <1>1, <1>2, Zenon DEF Sequential!Code, Code
<1>8. /\ \A i, c, d : Sequential!Response(i, c, d) = Response(i, c, d)
      /\ \A i, d : Sequential!Publish(i, d) = Publish(i, d)
      /\ \A k : Sequential!RefreshRequest(k) = RefreshRequest(k)
  BY DEF Sequential!Response, Response, Sequential!Publish, Publish, Sequential!RefreshRequest, RefreshRequest
<1>9. \A i, f : Sequential!Due(i, f) <=> Due(i, f)
  BY <1>4, <1>5, <1>6, <1>7, <1>8, Zenon DEF Sequential!Due, Due
<1> QED BY <1>1, <1>2, <1>5, <1>6, <1>7, <1>8, <1>9

(* The initial state, and then the steps, one kind at a time.              *)
LEMMA InitIsSequential == Init => Sequential!Init
<1> SUFFICES ASSUME Init PROVE Sequential!Init
  OBVIOUS
<1>1. Len(<<>>) \div 2 = 0
  OBVIOUS
<1>2. Conn!FramesRead(wire) = <<>>
  BY <1>1 DEF Init, Conn!Init, Conn!FramesRead
<1> QED BY <1>2 DEF Init, Conn!Init, Sequential!Init, Sequential!Writer!Init

(* Steps that do not show.                                                 *)
LEMMA SequentialVars ==
  Handled' = Handled
  /\ (main' \in {"read", "store", "lookup", "write"} <=> main \in {"read", "store", "lookup", "write"})
  /\ (main' \notin {"read", "store", "lookup", "write"} => main' = main)
  /\ Conn!FramesRead(wire)' = Conn!FramesRead(wire)
  /\ UNCHANGED <<sent, now, exitCode, out, broken>>
  => UNCHANGED Sequential!vars
BY DEF Sequential!vars, Handled

(* Message i takes effect, and what it is due is handed to write.          *)
LEMMA TakesEffect ==
  ASSUME main \in {"read", "store", "lookup"}, out["main"] = NoMessage,
         NEW i \in 1..Len(sent), Handled = i - 1, Handled' = i,
         UNCHANGED <<sent, now, exitCode, wire, broken>>,
         main' \notin {"store", "lookup", "gone"},
         Sequential!LoopAfter(sent[i]) = IF main' \in {"read", "write"} THEN "runs" ELSE main',
         \/ ~Owes(i) /\ out' = out
         \/ /\ Owes(i)
            /\ \E d \in 0..i :
                 \E f \in {Response(i, Code(i), d), Publish(i, d)} :
                   Due(i, f) /\ out' = [out EXCEPT !["main"] = f]
  PROVE  Sequential!HandlesMessage
<1>1. Conn!FramesRead(wire)' = Conn!FramesRead(wire)
  BY DEF Conn!FramesRead
<1>2. IF Sequential!Owes(i)
        THEN \E f \in Sequential!Answers(i) : out' = [out EXCEPT !["main"] = f]
        ELSE out' = out
  BY SameDues DEF Sequential!Answers
<1>3. Handled + 1 = i /\ Handled < Len(sent)
  OBVIOUS
<1> QED
  BY <1>1, <1>2, <1>3 DEF Sequential!HandlesMessage, Sequential!Writer!Call, Sequential!writer, Handled

(* Which messages end the loop.                                            *)
LEMMA ReadingEnds ==
  ASSUME TypeInv, Reading, NEW m, m = Incoming.method
  PROVE  /\ main' = "returned" <=> m \in {"exit", "eof"}
         /\ main' = "failed" <=> m = "brokenFrame"
         /\ main' \in {"read", "write", "store", "lookup", "returned", "failed"}
         /\ now' = now
<1> USE DEF Reads, Requests, Notifications, DocumentNotifications, StreamEnds
<1>1. CASE ReadsStreamEnd
  BY <1>1 DEF ReadsStreamEnd
<1>2. CASE ReadsInvalidJSON
  BY <1>2 DEF ReadsInvalidJSON, Answer, Send
<1>3. CASE ReadsResponse
  BY <1>3 DEF ReadsResponse, Ignore
<1>4. CASE Refuses
  BY <1>4 DEF Refuses, Ignore, Answer, Send
<1>5. CASE HandlesInitialize
  BY <1>5 DEF HandlesInitialize, Answer, Send
<1>6. CASE HandlesShutdown
  BY <1>6 DEF HandlesShutdown, Answer, Send
<1>7. CASE HandlesExit
  BY <1>7 DEF HandlesExit
<1>8. CASE HandlesNotification
  BY <1>8 DEF HandlesNotification
<1>9. CASE HandlesQuery
  BY <1>9 DEF HandlesQuery, Answer, Send
<1>10. CASE HandlesUnsupported
  BY <1>10 DEF HandlesUnsupported, Answer, Send
<1> QED BY <1>1, <1>2, <1>3, <1>4, <1>5, <1>6, <1>7, <1>8, <1>9, <1>10 DEF Reading

LEMMA ReadingIsSequential ==
  ASSUME TypeInv, TypeOK', SessionInv, Reading
  PROVE  Sequential!HandlesMessage \/ UNCHANGED Sequential!vars
<1> DEFINE i == received + 1
<1>1. ReadsDuly
  BY ReadingIsDue
<1>2. /\ main = "read" /\ received' = i /\ received \in Nat /\ i \in 1..Len(sent)
      /\ UNCHANGED <<sent, exitCode, wire, broken>>
      /\ Incoming = sent[i] /\ i - 1 = received
  BY <1>1, Types DEF ReadsDuly, TypeInv, Incoming
<1>3. Handled = i - 1
  BY <1>2 DEF Handled
<1>4. out["main"] = NoMessage
  BY <1>2 DEF SessionInv, WorksOnDue
<1>5. /\ main' = "returned" <=> sent[i].method \in {"exit", "eof"}
      /\ main' = "failed" <=> sent[i].method = "brokenFrame"
      /\ main' \in {"read", "write", "store", "lookup", "returned", "failed"}
      /\ now' = now
  BY <1>2, ReadingEnds
<1>6. Sequential!LoopAfter(sent[i]) = IF main' \in {"returned", "failed"} THEN main' ELSE "runs"
  BY <1>5 DEF Sequential!LoopAfter
<1> HIDE DEF i
<1>7. CASE Updates(i) \/ Queries(i)
  <2>1. main' \in {"store", "lookup"} /\ out' = out
    BY <1>7 DEF Updates, Queries
  <2>2. Handled' = Handled
    BY <1>2, <1>3, <2>1 DEF Handled
  <2>3. Conn!FramesRead(wire)' = Conn!FramesRead(wire)
    BY <1>2 DEF Conn!FramesRead
  <2> QED BY <1>2, <1>5, <2>1, <2>2, <2>3, SequentialVars
<1>8. CASE (\A u \in URIs : ~Touches(i, u)) /\ (Drops(i) \/ Gives(i))
  <2>1. ~Owes(i)
    BY <1>8 DEF Drops, Gives, Owes, IsResponse, Requests
  <2>2. main' \in {"read", "returned", "failed"} /\ out' = out
    BY <1>8 DEF Drops, Gives
  <2>3. Handled' = i
    BY <1>2, <2>2 DEF Handled
  <2> QED BY <1>2, <1>3, <1>4, <1>5, <1>6, <2>1, <2>2, <2>3, TakesEffect
<1>9. CASE Replies(i)
  <2> DEFINE f == Response(i, Code(i), 0)
  <2>1. Owes(i) /\ f.doc = 0 /\ main' = "write"
    BY <1>9 DEF Owes, Replies, Response
  <2>2. Due(i, f)
    BY <1>9, <2>1 DEF Due, Replies
  <2>3. out' = [out EXCEPT !["main"] = f]
    BY <1>9 DEF Replies
  <2>4. \E d \in 0..i : \E g \in {Response(i, Code(i), d), Publish(i, d)} :
          Due(i, g) /\ out' = [out EXCEPT !["main"] = g]
    <3> HIDE DEF f
    <3>1. 0 \in 0..i
      BY <1>2
    <3>2. f \in {Response(i, Code(i), 0), Publish(i, 0)}
      BY DEF f
    <3> QED BY <2>2, <2>3, <3>1, <3>2, Zenon
  <2>5. Handled' = i
    BY <1>2, <2>1 DEF Handled
  <2> HIDE DEF f
  <2> QED BY <1>2, <1>3, <1>4, <1>5, <1>6, <2>1, <2>4, <2>5, TakesEffect
<1> QED BY <1>1, <1>7, <1>8, <1>9 DEF ReadsDuly, i

LEMMA StoringIsSequential ==
  ASSUME TypeInv, SessionInv, StoresDocument \/ LooksUpDocument
  PROVE  Sequential!HandlesMessage
<1> DEFINE d == IF main = "lookup" THEN documents[sent[received].uri]
                ELSE IF sent[received].method = "didClose" THEN 0 ELSE received
           f == IF main = "lookup" THEN Response(received, Code(received), d) ELSE Publish(received, d)
<1>1. /\ main \in {"store", "lookup"} /\ main' = "write"
      /\ UNCHANGED <<sent, received, now, exitCode, wire, broken>>
  BY DEF StoresDocument, LooksUpDocument, clientVars, Send, Conn!Call
<1>2. out["main"] = NoMessage
  BY <1>1 DEF SessionInv, WorksOnDue
<1>3. CASE main = "store"
  <2>1. d = IF sent[received].method = "didClose" THEN 0 ELSE received
    BY <1>3
  <2>2. /\ received \in 1..Len(sent) /\ d \in 0..received /\ Owes(received) /\ ~IsResponse(received)
        /\ Due(received, Publish(received, d))
    BY <1>3, <2>1, StoredIsDue
  <2>3. out' = [out EXCEPT !["main"] = Publish(received, d)]
    BY <1>3, <2>1 DEF StoresDocument, LooksUpDocument, Send, Conn!Call
  <2>4. Handled = received - 1 /\ Handled' = received
    BY <1>1 DEF Handled
  <2>5. sent[received].method \notin {"exit", "eof", "brokenFrame"}
    BY <1>3 DEF SessionInv, WorksOnDue, Touches, DocumentNotifications
  <2>6. Sequential!LoopAfter(sent[received]) = "runs"
    BY <2>5 DEF Sequential!LoopAfter
  <2> HIDE DEF d
  <2> QED BY <1>1, <1>2, <2>2, <2>3, <2>4, <2>6, TakesEffect
<1>4. CASE main = "lookup"
  <2>1. d = documents[sent[received].uri]
    BY <1>4
  <2>2. /\ received \in 1..Len(sent) /\ d \in 0..received /\ IsResponse(received)
        /\ Code(received) = "ok" /\ sent[received].method = "query"
        /\ Due(received, Response(received, "ok", d))
    BY <1>4, <2>1, FoundIsDue
  <2>3. out' = [out EXCEPT !["main"] = Response(received, "ok", d)]
    BY <1>4, <2>1 DEF StoresDocument, LooksUpDocument, Send, Conn!Call
  <2>4. Handled = received - 1 /\ Handled' = received
    BY <1>1 DEF Handled
  <2>5. Sequential!LoopAfter(sent[received]) = "runs" /\ Owes(received)
    BY <2>2 DEF Sequential!LoopAfter, Owes
  <2> HIDE DEF d
  <2> QED BY <1>1, <1>2, <2>2, <2>3, <2>4, <2>5, TakesEffect
<1> QED BY <1>1, <1>3, <1>4

(* What write does, as the client sees it.                                 *)
LEMMA SameFrames ==
  /\ \A w : Conn!FramesRead(w) = ConnTheorems!FramesRead(w)
  /\ \A f : Conn!Header(f) = ConnTheorems!Header(f) /\ Conn!Body(f) = ConnTheorems!Body(f)
BY DEF Conn!FramesRead, ConnTheorems!FramesRead, Conn!Header, ConnTheorems!Header, Conn!Body,
       ConnTheorems!Body, Conn!Garbled, ConnTheorems!Garbled

LEMMA WritingShows ==
  ASSUME TypeInv, ConnTheorems!IInv, NEW g \in {"main", "refresh"}
  PROVE  /\ Conn!Lock(g) \/ Conn!WriteHeader(g) =>
              UNCHANGED <<out, broken>> /\ Conn!FramesRead(wire)' = Conn!FramesRead(wire)
         /\ Conn!WriteBody(g) => Sequential!Writer!Deliver(g)
         /\ Conn!Fail(g) => Sequential!Writer!Drop(g)
<1>1. Conn!Header(out[g]) = ConnTheorems!Header(out[g]) /\ Conn!Body(out[g]) = ConnTheorems!Body(out[g])
  BY SameFrames
<1>2. ASSUME Conn!Lock(g)
      PROVE  UNCHANGED <<out, broken>> /\ Conn!FramesRead(wire)' = Conn!FramesRead(wire)
  <2>1. UNCHANGED <<out, broken, wire>>
    BY <1>2 DEF Conn!Lock
  <2> QED BY <2>1 DEF Conn!FramesRead
<1>3. ASSUME Conn!WriteHeader(g)
      PROVE  UNCHANGED <<out, broken>> /\ Conn!FramesRead(wire)' = Conn!FramesRead(wire)
  <2>1. ConnTheorems!WriteHeader(g)
    BY <1>1, <1>3 DEF Conn!WriteHeader, ConnTheorems!WriteHeader
  <2>2. ConnTheorems!FramesRead(wire') = ConnTheorems!FramesRead(wire)
    BY <2>1, ConnAssumption, ConnTheorems!HeaderIsNotRead
  <2>3. UNCHANGED <<out, broken>>
    BY <1>3 DEF Conn!WriteHeader
  <2>4. Conn!FramesRead(wire)' = Conn!FramesRead(wire)
    BY <2>2, SameFrames
  <2> QED BY <2>3, <2>4
<1>4. ASSUME Conn!WriteBody(g) PROVE Sequential!Writer!Deliver(g)
  <2>1. ConnTheorems!WriteBody(g)
    BY <1>1, <1>4 DEF Conn!WriteBody, ConnTheorems!WriteBody, Conn!Return, ConnTheorems!Return
  <2>2. ConnTheorems!FramesRead(wire') = Append(ConnTheorems!FramesRead(wire), out[g])
    BY <2>1, ConnAssumption, ConnTheorems!BodyIsRead
  <2>3. out[g] # NoMessage
    BY <1>4, ServerAssumption DEF Conn!WriteBody, TypeInv, ConnTheorems!HasMessage
  <2>4. Conn!FramesRead(wire)' = Append(Conn!FramesRead(wire), out[g])
    BY <2>2, SameFrames
  <2> QED BY <1>4, <2>3, <2>4 DEF Conn!WriteBody, Conn!Return, Sequential!Writer!Deliver
<1>5. ASSUME Conn!Fail(g) PROVE Sequential!Writer!Drop(g)
  <2>1. out[g] # NoMessage
    BY <1>5, ServerAssumption DEF Conn!Fail, TypeInv, ConnTheorems!HasMessage
  <2>2. wire' = wire
    BY <1>5 DEF Conn!Fail
  <2>3. Conn!FramesRead(wire)' = Conn!FramesRead(wire)
    BY <2>2 DEF Conn!FramesRead
  <2> QED BY <1>5, <2>1, <2>3 DEF Conn!Fail, Conn!Return, Sequential!Writer!Drop
<1> QED BY <1>2, <1>3, <1>4, <1>5

LEMMA SequentialStutter ==
  ASSUME UNCHANGED <<sent, received, main, now, exitCode, out, broken>>,
         Conn!FramesRead(wire)' = Conn!FramesRead(wire)
  PROVE  UNCHANGED Sequential!vars
BY SequentialVars DEF Handled

LEMMA MainWritesIsSequential ==
  ASSUME TypeInv, ConnTheorems!IInv, MainWrites
  PROVE  Sequential!Writes \/ UNCHANGED Sequential!vars
<1>1. main = "write" /\ UNCHANGED <<sent, received, now, exitCode>>
  BY DEF MainWrites, clientVars
<1>2. CASE (Conn!Lock("main") \/ Conn!WriteHeader("main")) /\ main' = main
  BY <1>1, <1>2, WritingShows, SequentialStutter
<1>3. CASE Conn!WriteBody("main") /\ main' = "read"
  <2>1. Sequential!Writer!Deliver("main")
    BY <1>3, WritingShows
  <2> QED BY <1>1, <1>3, <2>1 DEF Sequential!Writes
<1>4. CASE Conn!Fail("main") /\ main' = "failed"
  <2>1. Sequential!Writer!Drop("main")
    BY <1>4, WritingShows
  <2> QED BY <1>1, <1>4, <2>1 DEF Sequential!Writes
<1> QED BY <1>2, <1>3, <1>4 DEF MainWrites

LEMMA ExitsIsSequential ==
  ASSUME TypeInv, SessionInv, Exits
  PROVE  Sequential!Exits
<1>1. /\ main \in {"returned", "failed"} /\ main' = "gone"
      /\ exitCode' = IF main = "returned" /\ shutdown THEN "success" ELSE "failure"
      /\ UNCHANGED <<sent, received, now, wire, out, broken>>
  BY DEF Exits, clientVars, conn
<1>2. shutdown <=> Sequential!ShutdownBy(received)
  BY SameDues DEF SessionInv, FlagsAreHistory
<1>3. Conn!FramesRead(wire)' = Conn!FramesRead(wire)
  BY <1>1 DEF Conn!FramesRead
<1> QED BY <1>1, <1>2, <1>3 DEF Sequential!Exits, Sequential!writer

LEMMA EnvironmentIsSequential ==
  ASSUME TypeInv, Environment
  PROVE  Sequential!Next
<1>1. UNCHANGED <<received, wire, out>> /\ Conn!FramesRead(wire)' = Conn!FramesRead(wire)
  <2>1. UNCHANGED <<received, wire, out>>
    BY DEF Environment, ClientSends, ClientStopsReading, Killed, MinutePasses, Conn!Break, conn
  <2> QED BY <2>1 DEF Conn!FramesRead
<1>2. ASSUME NEW m \in Inbound, ClientSends(m) PROVE Sequential!ClientSends
  <2>1. sent' = Append(sent, m) /\ UNCHANGED <<main, now, exitCode, broken>>
    BY <1>2 DEF ClientSends, conn
  <2> QED BY <1>1, <2>1 DEF Sequential!ClientSends, Sequential!writer
<1>3. ASSUME ClientStopsReading PROVE Sequential!ClientStopsReading
  <2>1. broken' = TRUE /\ UNCHANGED <<sent, main, now, exitCode>>
    BY <1>3 DEF ClientStopsReading, Conn!Break, clientVars
  <2> QED BY <1>1, <2>1 DEF Sequential!ClientStopsReading, Sequential!Writer!Break
<1>4. ASSUME MinutePasses PROVE Sequential!MinutePasses
  <2>1. now' = now + 1 /\ UNCHANGED <<sent, main, exitCode, broken>>
    BY <1>4 DEF MinutePasses, clientVars, conn
  <2> QED BY <1>1, <2>1 DEF Sequential!MinutePasses, Sequential!writer
<1>5. ASSUME Killed PROVE Sequential!Killed
  <2>1. main # "gone" /\ main' = "gone" /\ exitCode' = "killed" /\ UNCHANGED <<sent, now, broken>>
    BY <1>5 DEF Killed, Alive, clientVars, conn
  <2>2. received \in {Handled, Handled + 1}
    BY Types, HandledInRange DEF TypeInv
  <2> QED BY <1>1, <2>1, <2>2 DEF Handled, Sequential!Killed, Sequential!writer
<1> QED BY <1>2, <1>3, <1>4, <1>5 DEF Environment, Sequential!Next

(* The ids of the refresh requests that the client can read are used up.   *)
LEMMA IdsAreUsed ==
  ASSUME TypeInv, SessionInv, ConnTheorems!IInv,
         NEW p \in 1..Len(Conn!FramesRead(wire)), Conn!FramesRead(wire)[p].kind = "refresh"
  PROVE  Conn!FramesRead(wire)[p].re < n
<1> DEFINE half == Len(wire) \div 2
<1>1. /\ wire \in Seq(ConnTheorems!Chunk)
      /\ \A i \in 1..Len(wire) : wire[i].part = "header" <=> i % 2 = 1
      /\ \A i \in 1..Len(wire) : wire[i].part = "body" =>
           i > 1 /\ wire[i - 1] = ConnTheorems!Header(wire[i].msg)
  BY DEF ConnTheorems!IInv, ConnTheorems!TypeOK, ConnTheorems!Alternates, ConnTheorems!FramesIntact
<1>2. /\ ConnTheorems!FramesRead(wire) = [k \in 1..half |-> wire[2 * k].msg]
      /\ Len(ConnTheorems!FramesRead(wire)) = half
  BY <1>1, ConnAssumption, ConnTheorems!ReadsBodies
<1>3. Conn!FramesRead(wire) = ConnTheorems!FramesRead(wire)
  BY SameFrames
<1>4. Len(wire) \in Nat /\ p \in 1..half
  BY <1>2, <1>3, Types DEF TypeInv
<1>5. 2 * p \in 1..Len(wire) /\ (2 * p) % 2 # 1
  BY <1>4
<1>6. wire[2 * p].part = "body"
  BY <1>1, <1>5, Types DEF TypeInv
<1>7. Conn!FramesRead(wire)[p] = wire[2 * p].msg
  BY <1>2, <1>3, <1>4
<1> QED BY <1>5, <1>6, <1>7 DEF SessionInv, WireIsDue

(* What the scan finds runs at the client.                                 *)
LEMMA FoundRuns ==
  ASSUME TypeInv, SessionInv, Alive, HasRunningOpenRange
  PROVE  Sequential!RangeRuns
<1>1. PICK u \in URIs : documents[u] # 0 /\ now \in RunningAt[sent[documents[u]].text]
  BY DEF HasRunningOpenRange
<1> DEFINE d == documents[u]
<1>2. d \in Nat /\ d # 0 /\ received \in Nat
  BY <1>1, Types DEF TypeInv
<1>3. exitCode # "killed"
  BY DEF Alive, SessionInv, EndIsTold
<1> HIDE DEF d
<1>4. IsText(u, Handled, d)
  <2>1. CASE main \notin {"store", "lookup"}
    BY <1>3, <2>1, MirrorAt DEF d, Handled
  <2>2. CASE main = "store"
    BY <1>3, <2>2, MirrorAt DEF d, Handled
  <2>3. CASE main = "lookup"
    <3>1. IsText(u, received, d)
      BY <1>3, <2>3, MirrorAt DEF d
    <3>2. ~Touches(received, u)
      BY <2>3 DEF SessionInv, WorksOnDue, Touches, DocumentNotifications
    <3>3. d \in 1..received /\ Touches(d, u) /\ sent[d].method # "didClose"
          /\ \A i \in (d + 1)..received : ~Touches(i, u)
      BY <1>2, <3>1 DEF IsText
    <3>4. d \in 1..(received - 1) /\ \A i \in (d + 1)..(received - 1) : i \in (d + 1)..received
      BY <1>2, <3>2, <3>3
    <3>5. Handled = received - 1
      BY <2>3 DEF Handled
    <3> QED BY <3>3, <3>4, <3>5 DEF IsText
  <2> QED BY <2>1, <2>2, <2>3
<1>5. d \in 1..Handled
  BY <1>2, <1>4 DEF IsText
<1>6. Sequential!IsText(u, Handled, d)
  BY <1>4, SameDues
<1>7. now \in RunningAt[sent[d].text]
  BY <1>1 DEF d
<1> QED BY <1>5, <1>6, <1>7 DEF Sequential!RangeRuns, Handled

LEMMA ScanEndsIsSequential ==
  ASSUME TypeInv, SessionInv, RoundsInv, ConnTheorems!IInv, ScanEnds
  PROVE  Sequential!AsksForHints \/ UNCHANGED Sequential!vars
<1>1. /\ Alive /\ refresh = "scan" /\ UNCHANGED <<sent, received, main, now, exitCode, wire, broken>>
      /\ n \in Nat \ {0} /\ now \in Nat
  BY Types DEF ScanEnds, clientVars, conn, Conn!Call, TypeInv, TypeOK, ProcessTypeOK
<1>2. Conn!FramesRead(wire)' = Conn!FramesRead(wire)
  BY <1>1 DEF Conn!FramesRead
<1>3. CASE ~HasRunningOpenRange
  <2>1. out' = out
    BY <1>3 DEF ScanEnds, conn
  <2> QED BY <1>1, <1>2, <2>1, SequentialStutter
<1>4. CASE HasRunningOpenRange
  <2>1. Sequential!RangeRuns
    BY <1>1, <1>4, FoundRuns
  <2>2. Sequential!Supported
    <3>1. Told(Handled)
      BY <1>1 DEF RoundsInv
    <3> QED BY <3>1, SameDues DEF Told, Sequential!Supported, Handled
  <2>3. n \in 1..now
    <3>1. n + (IF tick THEN 1 ELSE 0) + 1 <= now + 1
      BY <1>1 DEF RoundsInv, InRound
    <3> QED BY <1>1, <3>1
  <2>4. Sequential!Writer!Call("refresh", RefreshRequest(n))
    <3>1. out["refresh"] = NoMessage
      BY <1>1 DEF TypeInv, RefreshHasMessage
    <3>2. out' = [out EXCEPT !["refresh"] = RefreshRequest(n)]
      BY <1>4 DEF ScanEnds, Conn!Call
    <3> QED BY <1>1, <1>2, <3>1, <3>2 DEF Sequential!Writer!Call
  <2>5. \A p \in 1..Len(Conn!FramesRead(wire)) :
          Conn!FramesRead(wire)[p].kind = "refresh" => Conn!FramesRead(wire)[p].re < n
    BY IdsAreUsed
  <2>6. Sequential!RefreshRequest(n) = RefreshRequest(n)
    BY SameDues
  <2> QED BY <1>1, <2>1, <2>2, <2>3, <2>4, <2>5, <2>6 DEF Alive, Sequential!AsksForHints
<1> QED BY <1>3, <1>4

LEMMA RefreshLoopIsSequential ==
  ASSUME TypeInv, SessionInv, RoundsInv, ConnTheorems!IInv, RefreshLoop
  PROVE  [Sequential!Next]_(Sequential!vars)
<1>1. CASE RefreshStops \/ RefreshTakesTick \/ ScanLocks
  <2>1. UNCHANGED <<sent, received, main, now, exitCode, wire, out, broken>>
    BY <1>1 DEF RefreshStops, RefreshTakesTick, ScanLocks, clientVars, conn
  <2>2. Conn!FramesRead(wire)' = Conn!FramesRead(wire)
    BY <2>1 DEF Conn!FramesRead
  <2> QED BY <2>1, <2>2, SequentialStutter
<1>2. CASE ScanEnds
  BY <1>2, ScanEndsIsSequential DEF Sequential!Next
<1>3. CASE RefreshWrites
  <2>1. Alive /\ UNCHANGED <<sent, received, main, now, exitCode>>
    BY <1>3 DEF RefreshWrites, clientVars
  <2>2. CASE Conn!Lock("refresh") \/ Conn!WriteHeader("refresh")
    BY <2>1, <2>2, WritingShows, SequentialStutter
  <2>3. CASE Conn!WriteBody("refresh") \/ Conn!Fail("refresh")
    <3>1. Sequential!Writer!Deliver("refresh") \/ Sequential!Writer!Drop("refresh")
      BY <2>3, WritingShows
    <3>2. Sequential!Writes
      BY <2>1, <3>1 DEF Alive, Sequential!Writes
    <3> QED BY <3>2 DEF Sequential!Next
  <2> QED BY <1>3, <2>2, <2>3 DEF RefreshWrites
<1> QED BY <1>1, <1>2, <1>3 DEF RefreshLoop

LEMMA StepIsSequential ==
  ASSUME TypeInv, TypeOK', SessionInv, RoundsInv, ConnTheorems!IInv, [Next]_vars
  PROVE  [Sequential!Next]_(Sequential!vars)
<1>1. CASE UNCHANGED vars
  <2>1. UNCHANGED <<sent, received, main, now, exitCode, wire, out, broken>>
    BY <1>1 DEF vars
  <2>2. Conn!FramesRead(wire)' = Conn!FramesRead(wire)
    BY <2>1 DEF Conn!FramesRead
  <2> QED BY <2>1, <2>2, SequentialStutter
<1>2. CASE Reading
  BY <1>2, ReadingIsSequential DEF Sequential!Next
<1>3. CASE StoresDocument \/ LooksUpDocument
  BY <1>3, StoringIsSequential DEF Sequential!Next
<1>4. CASE MainWrites
  BY <1>4, MainWritesIsSequential DEF Sequential!Next
<1>5. CASE Exits
  BY <1>5, ExitsIsSequential DEF Sequential!Next
<1>6. CASE Environment
  BY <1>6, EnvironmentIsSequential
<1> QED
  BY <1>1, <1>2, <1>3, <1>4, <1>5, <1>6, RefreshLoopIsSequential DEF Next, MainLoop, Reading

(* To its client klog-ls handles one message after the other, as due, and  *)
(* asks for hints when a range runs; its two goroutines, its locks and its *)
(* own copies of documents do not show.                                    *)
THEOREM ServerIsSequential == Spec => HandlesOneByOne
<1>1. Init => Sequential!Init
  BY InitIsSequential
<1>2. TypeInv /\ TypeOK' /\ SessionInv /\ RoundsInv /\ ConnTheorems!IInv /\ [Next]_vars
        => [Sequential!Next]_(Sequential!vars)
  BY StepIsSequential
<1>3. Spec => []ConnTheorems!IInv
  <2>1. ConnTheorems!Spec => []ConnTheorems!IInv
    BY ConnAssumption, ConnTheorems!SpecIInv
  <2> QED BY <2>1, ServerUsesConnection, SameSpec, PTL
<1> QED
  BY <1>1, <1>2, <1>3, SpecTypes, SpecSession, SpecRounds, ServerTypeOK, PTL
     DEF Spec, HandlesOneByOne, Sequential!Spec
===============================================================================
