--------------------------- MODULE ConnectionProofs ---------------------------
(***************************************************************************)
(* Proofs about Connection, for any set of goroutines and messages: frames *)
(* are written whole, and write is atomic to a client that parses them.    *)
(***************************************************************************)
EXTENDS Connection, TLAPS

(* connection.mu is held by the goroutine that is writing. *)
HolderWrites ==
  \A g \in Goroutines : stage[g] \in {"header", "body"} <=> mu = g

(* A goroutine has a message to write while it is in write. *)
HasMessage ==
  \A g \in Goroutines : stage[g] = "idle" <=> out[g] = NoMessage

(* The header of a goroutine between its two writes is the last chunk out. *)
HeaderIsLast ==
  \A g \in Goroutines :
    stage[g] = "body" => Len(wire) > 0 /\ wire[Len(wire)] = Header(out[g])

(* Headers and bodies alternate. *)
Alternates ==
  \A i \in 1..Len(wire) : wire[i].part = "header" <=> i % 2 = 1

IInv == TypeOK /\ HolderWrites /\ HasMessage /\ HeaderIsLast /\ Alternates /\ FramesIntact

-------------------------------------------------------------------------------
LEMMA InitIInv == Init => IInv
<1> SUFFICES ASSUME Init PROVE IInv
  OBVIOUS
<1>1. Len(wire) = 0 /\ wire \in Seq(Chunk)
  BY DEF Init
<1>2. TypeOK /\ HolderWrites /\ HasMessage
  BY <1>1, ConnectionAssumption DEF Init, TypeOK, HolderWrites, HasMessage
<1>3. HeaderIsLast /\ Alternates /\ FramesIntact
  BY <1>1 DEF Init, HeaderIsLast, Alternates, FramesIntact
<1>4. QED  BY <1>2, <1>3 DEF IInv

LEMMA CallIInv ==
  ASSUME IInv, NEW g \in Goroutines, NEW m \in Payloads, Call(g, m)
  PROVE  IInv'
BY ConnectionAssumption
   DEF Call, IInv, TypeOK, HolderWrites, HasMessage, HeaderIsLast, Alternates, FramesIntact

LEMMA LockIInv ==
  ASSUME IInv, NEW g \in Goroutines, Lock(g)
  PROVE  IInv'
BY ConnectionAssumption
   DEF Lock, IInv, TypeOK, HolderWrites, HasMessage, HeaderIsLast, Alternates, FramesIntact

LEMMA BreakIInv ==
  ASSUME IInv, Break
  PROVE  IInv'
BY DEF Break, IInv, TypeOK, HolderWrites, HasMessage, HeaderIsLast, Alternates, FramesIntact

LEMMA FailIInv ==
  ASSUME IInv, NEW g \in Goroutines, Fail(g)
  PROVE  IInv'
BY ConnectionAssumption
   DEF Fail, Return, IInv, TypeOK, HolderWrites, HasMessage, HeaderIsLast, Alternates, FramesIntact

LEMMA WriteHeaderIInv ==
  ASSUME IInv, NEW g \in Goroutines, WriteHeader(g)
  PROVE  IInv'
<1> DEFINE len == Len(wire)
           c == Header(out[g])
<1>1. /\ wire \in Seq(Chunk) /\ mu = g /\ out[g] \in Payloads /\ c \in Chunk /\ len \in Nat
      /\ stage \in [Goroutines -> {"idle", "locking", "header", "body"}]
  BY DEF WriteHeader, IInv, TypeOK, HolderWrites, HasMessage, Header, Chunk
<1>2. /\ wire' = Append(wire, c) /\ wire' \in Seq(Chunk)
      /\ Len(wire') = len + 1 /\ wire'[len + 1] = c
      /\ \A i \in 1..len : wire'[i] = wire[i] /\ wire[i] \in Chunk
  BY <1>1 DEF WriteHeader
<1>3. \A h \in Goroutines : stage[h] # "body"
  BY <1>1 DEF WriteHeader, IInv, HolderWrites
<1>4. \A i \in 1..len : wire[i].part = "header" => i < len /\ wire[i + 1] = Body(wire[i].msg)
  BY <1>3 DEF WriteHeader, IInv, FramesIntact
<1>5. len % 2 = 0
  <2>1. CASE len = 0
    BY <2>1
  <2>2. CASE len # 0
    <3>1. len \in 1..len /\ wire[len].part # "header"
      BY <1>1, <1>4, <2>2
    <3>2. QED  BY <1>1, <3>1 DEF IInv, Alternates
  <2>3. QED  BY <2>1, <2>2
<1>6. TypeOK' /\ HolderWrites' /\ HasMessage'
  BY <1>1, <1>2 DEF WriteHeader, IInv, TypeOK, HolderWrites, HasMessage
<1>7. HeaderIsLast'
  BY <1>1, <1>2, <1>3 DEF WriteHeader, HeaderIsLast
<1>8. Alternates'
  <2> SUFFICES ASSUME NEW i \in 1..(len + 1)
               PROVE  wire'[i].part = "header" <=> i % 2 = 1
    BY <1>2 DEF Alternates
  <2>1. CASE i \in 1..len
    BY <1>2, <2>1 DEF IInv, Alternates
  <2>2. CASE i = len + 1
    BY <1>1, <1>2, <1>5, <2>2 DEF Header
  <2>3. QED  BY <1>1, <2>1, <2>2
<1>9. FramesIntact'
  <2> SUFFICES ASSUME NEW i \in 1..(len + 1)
               PROVE  /\ wire'[i].part = "body" => i > 1 /\ wire'[i - 1] = Header(wire'[i].msg)
                      /\ wire'[i].part = "header" =>
                           IF i < len + 1
                             THEN wire'[i + 1] = Body(wire'[i].msg)
                             ELSE broken' \/ \E h \in Goroutines :
                                               stage'[h] = "body" /\ out'[h] = wire'[i].msg
    BY <1>2 DEF FramesIntact
  <2>1. CASE i \in 1..len
    <3>1. wire[i].part = "body" => i > 1 /\ wire[i - 1] = Header(wire[i].msg)
      BY <2>1 DEF IInv, FramesIntact
    <3>2. QED  BY <1>1, <1>2, <1>4, <2>1, <3>1
  <2>2. CASE i = len + 1
    BY <1>1, <1>2, <2>2 DEF WriteHeader, Header
  <2>3. QED  BY <1>1, <2>1, <2>2
<1>10. QED  BY <1>6, <1>7, <1>8, <1>9 DEF IInv

LEMMA WriteBodyIInv ==
  ASSUME IInv, NEW g \in Goroutines, WriteBody(g)
  PROVE  IInv'
<1> DEFINE len == Len(wire)
           c == Body(out[g])
<1>1. /\ wire \in Seq(Chunk) /\ mu = g /\ out[g] \in Payloads /\ c \in Chunk /\ len \in Nat
      /\ stage \in [Goroutines -> {"idle", "locking", "header", "body"}]
      /\ out \in [Goroutines -> Payloads \union {NoMessage}]
  BY DEF WriteBody, IInv, TypeOK, HolderWrites, HasMessage, Body, Chunk
<1>2. /\ wire' = Append(wire, c) /\ wire' \in Seq(Chunk)
      /\ Len(wire') = len + 1 /\ wire'[len + 1] = c
      /\ \A i \in 1..len : wire'[i] = wire[i] /\ wire[i] \in Chunk
  BY <1>1 DEF WriteBody
<1>3. \A h \in Goroutines : stage[h] \in {"header", "body"} => h = g
  BY <1>1 DEF WriteBody, IInv, HolderWrites
<1>4. len > 0 /\ wire[len] = Header(out[g])
  BY DEF WriteBody, IInv, HeaderIsLast
<1>5. len % 2 = 1
  BY <1>1, <1>4 DEF IInv, Alternates, Header
<1>6. TypeOK' /\ HolderWrites' /\ HasMessage'
  BY <1>1, <1>2, <1>3, ConnectionAssumption
     DEF WriteBody, Return, IInv, TypeOK, HolderWrites, HasMessage
<1>7. HeaderIsLast'
  BY <1>1, <1>3 DEF WriteBody, Return, HeaderIsLast
<1>8. Alternates'
  <2> SUFFICES ASSUME NEW i \in 1..(len + 1)
               PROVE  wire'[i].part = "header" <=> i % 2 = 1
    BY <1>2 DEF Alternates
  <2>1. CASE i \in 1..len
    BY <1>2, <2>1 DEF IInv, Alternates
  <2>2. CASE i = len + 1
    <3>1. i % 2 = 0
      BY <1>1, <1>5, <2>2
    <3>2. wire'[i].part = "body"
      BY <1>2, <2>2 DEF Body
    <3>3. QED  BY <3>1, <3>2
  <2>3. QED  BY <1>1, <2>1, <2>2
<1>9. FramesIntact'
  <2> SUFFICES ASSUME NEW i \in 1..(len + 1)
               PROVE  /\ wire'[i].part = "body" => i > 1 /\ wire'[i - 1] = Header(wire'[i].msg)
                      /\ wire'[i].part = "header" =>
                           i < len + 1 /\ wire'[i + 1] = Body(wire'[i].msg)
    BY <1>2 DEF FramesIntact
  <2>1. CASE i \in 1..(len - 1)
    <3>1. /\ wire[i].part = "body" => i > 1 /\ wire[i - 1] = Header(wire[i].msg)
          /\ wire[i].part = "header" => wire[i + 1] = Body(wire[i].msg)
      BY <1>1, <2>1 DEF IInv, FramesIntact
    <3>2. QED  BY <1>1, <1>2, <2>1, <3>1
  <2>2. CASE i = len
    BY <1>1, <1>2, <1>4, <2>2 DEF Header
  <2>3. CASE i = len + 1
    BY <1>1, <1>2, <1>4, <2>3 DEF Body
  <2>4. QED  BY <1>1, <2>1, <2>2, <2>3
<1>10. QED  BY <1>6, <1>7, <1>8, <1>9 DEF IInv

LEMMA NextIInv == IInv /\ [Next]_connVars => IInv'
<1> SUFFICES ASSUME IInv, [Next]_connVars PROVE IInv'
  OBVIOUS
<1>1. CASE \E g \in Goroutines, m \in Payloads : Call(g, m)
  BY <1>1, CallIInv
<1>2. CASE \E g \in Goroutines : Write(g)
  BY <1>2, LockIInv, WriteHeaderIInv, WriteBodyIInv, FailIInv DEF Write
<1>3. CASE Break
  BY <1>3, BreakIInv
<1>4. CASE UNCHANGED connVars
  BY <1>4 DEF connVars, IInv, TypeOK, HolderWrites, HasMessage, HeaderIsLast, Alternates, FramesIntact
<1>5. QED  BY <1>1, <1>2, <1>3, <1>4 DEF Next

LEMMA SpecIInv == Spec => []IInv
<1>1. Init => IInv  BY InitIInv
<1>2. IInv /\ [Next]_connVars => IInv'  BY NextIInv
<1>3. QED  BY <1>1, <1>2, PTL DEF Spec

-------------------------------------------------------------------------------
(* The variables of write keep their types. *)
THEOREM ConnectionTypeOK == Spec => []TypeOK
<1>1. IInv => TypeOK  BY DEF IInv
<1>2. QED  BY <1>1, SpecIInv, PTL

(* connection.mu keeps frames whole, however many goroutines write. *)
THEOREM ConnectionFramesIntact == Spec => []FramesIntact
<1>1. IInv => FramesIntact  BY DEF IInv
<1>2. QED  BY <1>1, SpecIInv, PTL

-------------------------------------------------------------------------------
(* What the client can read after each step. *)

(* Of chunks that alternate, and of which each body follows its header, the *)
(* client reads every message whose body is there.                         *)
LEMMA ReadsBodies ==
  ASSUME NEW w \in Seq(Chunk),
         \A i \in 1..Len(w) : w[i].part = "header" <=> i % 2 = 1,
         \A i \in 1..Len(w) : w[i].part = "body" => i > 1 /\ w[i - 1] = Header(w[i].msg)
  PROVE  /\ FramesRead(w) = [k \in 1..(Len(w) \div 2) |-> w[2 * k].msg]
         /\ FramesRead(w) \in Seq(Payloads)
         /\ Len(FramesRead(w)) = Len(w) \div 2
<1> DEFINE half == Len(w) \div 2
<1>1. Len(w) \in Nat /\ half \in Nat /\ 2 * half <= Len(w)
  OBVIOUS
<1>2. \A k \in 1..half : 2 * k \in 1..Len(w) /\ (2 * k) % 2 = 0
  BY <1>1
<1>3. \A k \in 1..half :
        /\ w[2 * k] \in Chunk
        /\ w[2 * k].part = "body"
        /\ w[2 * k - 1] = Header(w[2 * k].msg)
  <2> TAKE k \in 1..half
  <2> DEFINE i == 2 * k
  <2>1. i \in 1..Len(w) /\ i % 2 = 0
    BY <1>2
  <2> HIDE DEF i
  <2>2. w[i] \in Chunk
    BY <2>1
  <2>3. w[i].part = "body"
    BY <2>1, <2>2 DEF Chunk
  <2>4. w[i - 1] = Header(w[i].msg)
    BY <2>1, <2>3
  <2>5. QED  BY <2>2, <2>3, <2>4 DEF i
<1>4. FramesRead(w) = [k \in 1..half |-> w[2 * k].msg]
  BY <1>1, <1>3 DEF FramesRead
<1>5. \A k \in 1..half : w[2 * k].msg \in Payloads
  BY <1>3 DEF Chunk
<1>6. QED  BY <1>1, <1>4, <1>5

(* A header alone shows the client nothing. *)
LEMMA HeaderIsNotRead ==
  ASSUME IInv, NEW g \in Goroutines, WriteHeader(g)
  PROVE  FramesRead(wire') = FramesRead(wire)
<1> DEFINE len == Len(wire)
<1>1. IInv'
  BY WriteHeaderIInv
<1>2. /\ wire \in Seq(Chunk) /\ len \in Nat /\ Len(wire') = len + 1
      /\ \A i \in 1..len : wire'[i] = wire[i]
      /\ wire'[len + 1].part = "header"
  BY DEF WriteHeader, IInv, TypeOK, HolderWrites, HasMessage, Header, Chunk
<1>3. (len + 1) % 2 = 1
  BY <1>1, <1>2 DEF IInv, Alternates
<1>4. (len + 1) \div 2 = len \div 2
  BY <1>2, <1>3
<1>5. \A k \in 1..(len \div 2) : 2 * k \in 1..len
  BY <1>2
<1>6. FramesRead(wire) = [k \in 1..(len \div 2) |-> wire[2 * k].msg]
  BY ReadsBodies DEF IInv, TypeOK, Alternates, FramesIntact
<1>7. FramesRead(wire') = [k \in 1..((len + 1) \div 2) |-> wire'[2 * k].msg]
  <2>1. FramesRead(wire') = [k \in 1..(Len(wire') \div 2) |-> wire'[2 * k].msg]
    BY <1>1, ReadsBodies DEF IInv, TypeOK, Alternates, FramesIntact
  <2>2. QED  BY <1>2, <2>1
<1>8. QED  BY <1>2, <1>4, <1>5, <1>6, <1>7

(* The body delivers the message. *)
LEMMA BodyIsRead ==
  ASSUME IInv, NEW g \in Goroutines, WriteBody(g)
  PROVE  FramesRead(wire') = Append(FramesRead(wire), out[g])
<1> DEFINE len == Len(wire)
           half == len \div 2
<1>1. IInv'
  BY WriteBodyIInv
<1>2. /\ wire \in Seq(Chunk) /\ len \in Nat /\ Len(wire') = len + 1
      /\ \A i \in 1..len : wire'[i] = wire[i]
      /\ wire'[len + 1] = Body(out[g])
  BY DEF WriteBody, IInv, TypeOK, HolderWrites, HasMessage, Body, Chunk
<1>3. (len + 1) % 2 # 1
  BY <1>1, <1>2 DEF IInv, Alternates, Body
<1>4. half \in Nat /\ (len + 1) \div 2 = half + 1 /\ 2 * (half + 1) = len + 1
  BY <1>2, <1>3
<1>5. \A k \in 1..half : 2 * k \in 1..len
  BY <1>2
<1>6. /\ FramesRead(wire) = [k \in 1..half |-> wire[2 * k].msg]
      /\ FramesRead(wire) \in Seq(Payloads) /\ Len(FramesRead(wire)) = half
  BY ReadsBodies DEF IInv, TypeOK, Alternates, FramesIntact
<1>7. FramesRead(wire') = [k \in 1..(half + 1) |-> wire'[2 * k].msg]
  <2>1. FramesRead(wire') = [k \in 1..(Len(wire') \div 2) |-> wire'[2 * k].msg]
    BY <1>1, ReadsBodies DEF IInv, TypeOK, Alternates, FramesIntact
  <2>2. QED  BY <1>2, <1>4, <2>1
<1>8. \A k \in 1..half : wire'[2 * k].msg = wire[2 * k].msg
  BY <1>2, <1>5
<1>9. wire'[2 * (half + 1)].msg = out[g]
  BY <1>2, <1>4 DEF Body
<1> HIDE DEF half
<1>10. QED  BY <1>4, <1>6, <1>7, <1>8, <1>9

-------------------------------------------------------------------------------
LEMMA InitIsAtomic == Init => Atomic!Init
<1> SUFFICES ASSUME Init PROVE Atomic!Init
  OBVIOUS
<1>1. Len(<<>>) \div 2 = 0
  OBVIOUS
<1>2. FramesRead(wire) = <<>>
  BY <1>1 DEF Init, FramesRead
<1>3. QED  BY <1>2 DEF Init, Atomic!Init

LEMMA StepIsAtomic == IInv /\ [Next]_connVars => [Atomic!Next]_(Atomic!vars)
<1> SUFFICES ASSUME IInv, [Next]_connVars PROVE [Atomic!Next]_(Atomic!vars)
  OBVIOUS
<1> USE DEF Atomic!vars
<1>1. CASE \E g \in Goroutines, m \in Payloads : Call(g, m)
  BY <1>1 DEF Call, IInv, HasMessage, Atomic!Next, Atomic!Call
<1>2. ASSUME NEW g \in Goroutines, Lock(g) PROVE UNCHANGED Atomic!vars
  BY <1>2 DEF Lock
<1>3. ASSUME NEW g \in Goroutines, WriteHeader(g) PROVE UNCHANGED Atomic!vars
  BY <1>3, HeaderIsNotRead DEF WriteHeader
<1>4. ASSUME NEW g \in Goroutines, WriteBody(g) PROVE Atomic!Deliver(g)
  BY <1>4, BodyIsRead DEF WriteBody, Return, IInv, HasMessage, Atomic!Deliver
<1>5. ASSUME NEW g \in Goroutines, Fail(g) PROVE Atomic!Drop(g)
  BY <1>5 DEF Fail, Return, IInv, HasMessage, Atomic!Drop
<1>6. CASE Break
  BY <1>6 DEF Break, Atomic!Next, Atomic!Break
<1>7. CASE UNCHANGED connVars
  BY <1>7 DEF connVars
<1>8. QED  BY <1>1, <1>2, <1>3, <1>4, <1>5, <1>6, <1>7 DEF Next, Write, Atomic!Next

(* write, with its lock and its two writes, is a single step to a client   *)
(* that parses what it reads.                                              *)
THEOREM ConnectionIsAtomic == Spec => WritesAreAtomic
<1>1. Init => Atomic!Init  BY InitIsAtomic
<1>2. IInv /\ [Next]_connVars => [Atomic!Next]_(Atomic!vars)  BY StepIsAtomic
<1>3. QED  BY <1>1, <1>2, SpecIInv, PTL DEF Spec, WritesAreAtomic, Atomic!Spec
===============================================================================
