------------------------------ MODULE Connection ------------------------------
(***************************************************************************)
(* The write side of klog-ls/jsonrpc.go. A message of the LSP base protocol*)
(* is written with two calls of the underlying writer, one for the         *)
(* Content-Length header and one for the body, both under connection.mu.   *)
(* Any number of goroutines may call write at the same time; klog-ls has   *)
(* two, the message loop and the inlay hint refresh loop.                  *)
(*                                                                         *)
(* A chunk on the wire is one of those two calls. A header carries no more *)
(* than the length of the body it announces; the model names the message.  *)
(***************************************************************************)
EXTENDS Naturals, Sequences

CONSTANTS
  Goroutines,  \* the goroutines that write
  Payloads,    \* the JSON-RPC messages they write
  NoMessage,   \* a goroutine that is not writing
  Free         \* connection.mu is not held

ASSUME ConnectionAssumption ==
  /\ NoMessage \notin Payloads
  /\ Free \notin Goroutines

VARIABLES
  wire,    \* the chunks written so far
  mu,      \* the holder of connection.mu
  stage,   \* stage[g]: how far g is in write
  out,     \* out[g]: the message g is writing
  broken   \* the client has closed its end: every further write fails

connVars == <<wire, mu, stage, out, broken>>

Chunk == [part : {"header", "body"}, msg : Payloads]
Header(m) == [part |-> "header", msg |-> m]
Body(m) == [part |-> "body", msg |-> m]

Init ==
  /\ wire = <<>>
  /\ mu = Free
  /\ stage = [g \in Goroutines |-> "idle"]
  /\ out = [g \in Goroutines |-> NoMessage]
  /\ broken = FALSE

Call(g, m) ==
  /\ stage[g] = "idle"
  /\ stage' = [stage EXCEPT ![g] = "locking"]
  /\ out' = [out EXCEPT ![g] = m]
  /\ UNCHANGED <<wire, mu, broken>>

(* Variant: no lock is taken. *)
LockWithoutMutex(g) ==
  /\ stage[g] = "locking"
  /\ stage' = [stage EXCEPT ![g] = "header"]
  /\ UNCHANGED <<wire, mu, out, broken>>

Lock(g) ==
  /\ stage[g] = "locking"
  /\ mu = Free
  /\ mu' = g
  /\ stage' = [stage EXCEPT ![g] = "header"]
  /\ UNCHANGED <<wire, out, broken>>

(* Variant: the message is given up with its header. *)
WriteHeaderOnly(g) ==
  /\ stage[g] = "header"
  /\ ~broken
  /\ wire' = Append(wire, Header(out[g]))
  /\ stage' = [stage EXCEPT ![g] = "body"]
  /\ out' = [out EXCEPT ![g] = NoMessage]
  /\ UNCHANGED <<mu, broken>>

WriteHeader(g) ==
  /\ stage[g] = "header"
  /\ ~broken
  /\ wire' = Append(wire, Header(out[g]))
  /\ stage' = [stage EXCEPT ![g] = "body"]
  /\ UNCHANGED <<mu, out, broken>>

(* write returns: the deferred Unlock runs, the caller goes on. *)
Return(g) ==
  /\ mu' = Free
  /\ stage' = [stage EXCEPT ![g] = "idle"]
  /\ out' = [out EXCEPT ![g] = NoMessage]

(* Variant: the body goes out, but write starts over. *)
WriteBodyTwice(g) ==
  /\ stage[g] = "body"
  /\ ~broken
  /\ wire' = Append(wire, Body(out[g]))
  /\ stage' = [stage EXCEPT ![g] = "header"]
  /\ UNCHANGED <<mu, out, broken>>

WriteBody(g) ==
  /\ stage[g] = "body"
  /\ ~broken
  /\ wire' = Append(wire, Body(out[g]))
  /\ Return(g)
  /\ UNCHANGED broken

(* Variant: an early return that leaves the mutex locked, without defer. *)
FailLocked(g) ==
  /\ stage[g] \in {"header", "body"}
  /\ broken
  /\ stage' = [stage EXCEPT ![g] = "idle"]
  /\ out' = [out EXCEPT ![g] = NoMessage]
  /\ UNCHANGED <<wire, mu, broken>>

(* The header or the body cannot be written: write returns the error. *)
Fail(g) ==
  /\ stage[g] \in {"header", "body"}
  /\ broken
  /\ Return(g)
  /\ UNCHANGED <<wire, broken>>

(* The client closes its end of the stream, for good. *)
Break ==
  /\ ~broken
  /\ broken' = TRUE
  /\ UNCHANGED <<wire, mu, stage, out>>

Write(g) == Lock(g) \/ WriteHeader(g) \/ WriteBody(g) \/ Fail(g)

Next ==
  \/ \E g \in Goroutines, m \in Payloads : Call(g, m)
  \/ \E g \in Goroutines : Write(g)
  \/ Break

Spec == Init /\ [][Next]_connVars

(* sync.Mutex hands the lock to a goroutine that has waited too long, so a *)
(* waiter that finds the mutex free again and again gets it: strong        *)
(* fairness for Lock. The rest of write only needs to be scheduled.        *)
Fairness ==
  \A g \in Goroutines :
    /\ SF_connVars(Lock(g))
    /\ WF_connVars(WriteHeader(g) \/ WriteBody(g) \/ Fail(g))

FairSpec == Spec /\ Fairness

-------------------------------------------------------------------------------
(* The variables of write have their types. *)
TypeOK ==
  /\ wire \in Seq(Chunk)
  /\ mu \in Goroutines \union {Free}
  /\ stage \in [Goroutines -> {"idle", "locking", "header", "body"}]
  /\ out \in [Goroutines -> Payloads \union {NoMessage}]
  /\ broken \in BOOLEAN

(* The frames the client reads are intact: between the header of a message *)
(* and its body no other goroutine has written anything. Only the last     *)
(* header may lack its body, and then its writer is about to write it, or  *)
(* the stream is closed (jsonrpc.go, connection.write).                    *)
FramesIntact ==
  \A i \in 1..Len(wire) :
    /\ wire[i].part = "body" => i > 1 /\ wire[i - 1] = Header(wire[i].msg)
    /\ wire[i].part = "header" =>
         IF i < Len(wire)
           THEN wire[i + 1] = Body(wire[i].msg)
           ELSE broken \/ \E g \in Goroutines : stage[g] = "body" /\ out[g] = wire[i].msg

(* Every call of write returns: no goroutine waits for connection.mu for   *)
(* ever, whether or not the writes of the others succeed.                  *)
EveryWriteReturns ==
  \A g \in Goroutines : stage[g] # "idle" ~> stage[g] = "idle"

-------------------------------------------------------------------------------
(* What a client reads that takes the chunks in pairs: a header, then as   *)
(* much as it announces. Garbled is what it gets when the two do not match.*)
Garbled == NoMessage
FramesRead(w) ==
  [k \in 1..(Len(w) \div 2) |->
     IF w[2 * k - 1] = Header(w[2 * k].msg) /\ w[2 * k].part = "body"
       THEN w[2 * k].msg
       ELSE Garbled]

Atomic == INSTANCE AtomicWriter WITH pending <- out, frames <- FramesRead(wire)

(* A client that parses the stream sees every message whole, in one piece  *)
(* and at most once, as if write were a single step.                       *)
WritesAreAtomic == Atomic!Spec
===============================================================================
