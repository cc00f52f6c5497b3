----------------------------- MODULE MCConnection -----------------------------
(***************************************************************************)
(* Connection with a bound on what is written, for TLC.                    *)
(***************************************************************************)
EXTENDS Connection

CONSTANT MaxWire  \* no goroutine calls write when this many chunks are out

MCNext ==
  \/ \E g \in Goroutines, m \in Payloads : Len(wire) < MaxWire /\ Call(g, m)
  \/ \E g \in Goroutines : Write(g)
  \/ Break

MCSpec == Init /\ [][MCNext]_connVars /\ Fairness
===============================================================================
