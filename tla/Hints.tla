--------------------------------- MODULE Hints ---------------------------------
(***************************************************************************)
(* The totals that the client shows in inlay hints while the file of       *)
(* TimeTracking is edited and time passes. The client asks for hints when  *)
(* the text has changed, and when the refresh loop of klog-ls (server.go)  *)
(* asks it to. Messages arrive at once.                                    *)
(***************************************************************************)
EXTENDS TimeTracking

VARIABLES
  hints,  \* the total that is shown for each record
  due     \* the refresh loop has a tick to take

(* A record that klog rejects, with two open ranges, is not shown. *)
Shown == {i \in Indices : Len(records[i].open) <= 1}
Totals == [i \in Shown |-> TotalOf(records[i])]

HintsInit == Init /\ hints = Totals /\ due = FALSE

EditFile ==
  /\ Edits
  /\ hints' = Totals'
  /\ UNCHANGED due

MinutePasses ==
  /\ ~due
  /\ TimePasses
  /\ due' = TRUE
  /\ UNCHANGED hints

HasRunningOpenRange == \E i \in Shown : Counted(records[i])

RefreshOnTick ==
  /\ due
  /\ due' = FALSE
  /\ hints' = IF HasRunningOpenRange THEN Totals ELSE hints
  /\ UNCHANGED <<records, today, minute>>

HintsNext == EditFile \/ MinutePasses \/ RefreshOnTick

HintsSpec == HintsInit /\ [][HintsNext]_<<vars, hints, due>>

-------------------------------------------------------------------------------
(* "So that the totals keep up with the time" (refreshLoop): when the tick *)
(* of a minute has been taken, the totals are those of that minute.        *)
HintsKeepUp == ~due => hints = Totals

(* Where that fails, the refresh loop has missed the end of a count: an    *)
(* open range of the day before yesterday is not counted any more, and if  *)
(* it was the only one, nobody asks for new hints. No other hint is ever   *)
(* too high, or behind when the tick has been taken, and with a range that *)
(* is counted none is (hasRunningOpenRange, runningTime).                  *)
TooOld(r) == IsOpen(r) /\ r.date < today - 1
OnlyOldHintsStay ==
  /\ ~due /\ HasRunningOpenRange => hints = Totals
  /\ \A i \in Shown :
       LET r == records[i] IN
       /\ r.closed <= hints[i]
       /\ ~TooOld(r) => hints[i] <= TotalOf(r) /\ (~due => hints[i] = TotalOf(r))
===============================================================================
