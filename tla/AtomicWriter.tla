----------------------------- MODULE AtomicWriter -----------------------------
(***************************************************************************)
(* What connection.write of klog-ls/jsonrpc.go promises to the goroutines  *)
(* that call it: a message goes out whole and in one piece, or, once the   *)
(* client has closed the stream, not at all. Connection implements this.   *)
(***************************************************************************)
EXTENDS Sequences

CONSTANTS
  Goroutines,  \* the goroutines that write
  Payloads,    \* the JSON-RPC messages they write
  NoMessage    \* a goroutine that is not writing

VARIABLES
  pending,  \* pending[g]: the message g has passed to write, until write returns
  frames,   \* the messages the client can read, in order
  broken    \* the client has closed its end of the stream

vars == <<pending, frames, broken>>

Init ==
  /\ pending = [g \in Goroutines |-> NoMessage]
  /\ frames = <<>>
  /\ broken = FALSE

Call(g, m) ==
  /\ pending[g] = NoMessage
  /\ pending' = [pending EXCEPT ![g] = m]
  /\ UNCHANGED <<frames, broken>>

(* write returns nil: the whole message is out. *)
Deliver(g) ==
  /\ pending[g] # NoMessage
  /\ ~broken
  /\ frames' = Append(frames, pending[g])
  /\ pending' = [pending EXCEPT ![g] = NoMessage]
  /\ UNCHANGED broken

(* write returns an error. *)
Drop(g) ==
  /\ pending[g] # NoMessage
  /\ broken
  /\ pending' = [pending EXCEPT ![g] = NoMessage]
  /\ UNCHANGED <<frames, broken>>

Break ==
  /\ broken' = TRUE
  /\ UNCHANGED <<pending, frames>>

Next ==
  \/ \E g \in Goroutines, m \in Payloads : Call(g, m)
  \/ \E g \in Goroutines : Deliver(g) \/ Drop(g)
  \/ Break

Spec == Init /\ [][Next]_vars
===============================================================================
