-------------------------------- MODULE Session --------------------------------
(***************************************************************************)
(* What klog-ls is to its client: a program without goroutines and locks   *)
(* that takes one message after the other, and does in one step what it is *)
(* due by all that was said before. It may ask for new hints, no more often*)
(* than there have been minutes. What it has to say it hands to a writer   *)
(* that loses nothing but with the stream. It remembers no documents and no*)
(* flags. Server implements this.                                          *)
(***************************************************************************)
EXTENDS Dues

CONSTANT NoMessage  \* nothing is handed to the writer

VARIABLES
  handled,   \* how many messages have taken effect
  loop,      \* whether more of them will, and if not, how that came about
  now,       \* the time, in minutes
  exitCode,  \* how the process ended
  pending, frames, broken  \* see AtomicWriter

writer == <<pending, frames, broken>>
vars == <<sent, handled, loop, now, exitCode, pending, frames, broken>>

Writer == INSTANCE AtomicWriter WITH Goroutines <- {"main", "refresh"}, Payloads <- Frame

Init ==
  /\ sent = <<>>
  /\ handled = 0
  /\ loop = "runs"
  /\ now = 0
  /\ exitCode = "none"
  /\ Writer!Init

LoopAfter(m) ==
  IF m.method \in {"exit", "eof"} THEN "returned"
  ELSE IF m.method = "brokenFrame" THEN "failed" ELSE "runs"

Answers(i) ==
  {f \in {Response(i, Code(i), d) : d \in 0..i} \union {Publish(i, d) : d \in 0..i} : Due(i, f)}

(* A message takes effect once the last one has been answered. *)
HandlesMessage ==
  LET i == handled + 1 IN
  /\ loop = "runs"
  /\ pending["main"] = NoMessage
  /\ handled < Len(sent)
  /\ handled' = i
  /\ loop' = LoopAfter(sent[i])
  /\ IF Owes(i) THEN \E f \in Answers(i) : Writer!Call("main", f) ELSE UNCHANGED writer
  /\ UNCHANGED <<sent, now, exitCode>>

(* The client has said that it supports refreshes. *)
Supported ==
  \E i \in 1..handled :
    sent[i].method = "initialize" /\ sent[i].valid /\ sent[i].refresh /\ ~InitializedBy(i - 1)

(* The client has a document open with a range that is counted now. *)
RangeRuns ==
  \E u \in URIs, d \in 1..handled : IsText(u, handled, d) /\ now \in RunningAt[sent[d].text]

(* No more requests than minutes, and a new id for each. *)
AsksForHints ==
  /\ loop # "gone"
  /\ Supported /\ RangeRuns
  /\ \E k \in 1..now :
       /\ \A p \in 1..Len(frames) : frames[p].kind = "refresh" => frames[p].re < k
       /\ Writer!Call("refresh", RefreshRequest(k))
  /\ UNCHANGED <<sent, handled, loop, now, exitCode>>

(* The loop ends with an error when an answer cannot be written. *)
Writes ==
  /\ loop # "gone"
  /\ \/ \E g \in {"main", "refresh"} : Writer!Deliver(g) /\ UNCHANGED loop
     \/ Writer!Drop("refresh") /\ UNCHANGED loop
     \/ Writer!Drop("main") /\ loop' = "failed"
  /\ UNCHANGED <<sent, handled, now, exitCode>>

Exits ==
  /\ loop \in {"returned", "failed"}
  /\ loop' = "gone"
  /\ exitCode' = IF loop = "returned" /\ ShutdownBy(handled) THEN "success" ELSE "failure"
  /\ UNCHANGED <<sent, handled, now, writer>>

(* A message that is being handled then may have taken effect, or not. *)
Killed ==
  /\ loop # "gone"
  /\ loop' = "gone"
  /\ exitCode' = "killed"
  /\ handled' \in {handled, handled + 1}
  /\ UNCHANGED <<sent, now, writer>>

ClientSends ==
  /\ \E m \in Inbound : sent' = Append(sent, m)
  /\ UNCHANGED <<handled, loop, now, exitCode, writer>>

ClientStopsReading == Writer!Break /\ UNCHANGED <<sent, handled, loop, now, exitCode>>

MinutePasses ==
  /\ now' = now + 1
  /\ UNCHANGED <<sent, handled, loop, exitCode, writer>>

Next ==
  \/ HandlesMessage \/ AsksForHints \/ Writes \/ Exits \/ Killed
  \/ ClientSends \/ ClientStopsReading \/ MinutePasses

Spec == Init /\ [][Next]_vars
===============================================================================
