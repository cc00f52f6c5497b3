----------------------------- MODULE TimeTracking -----------------------------
(***************************************************************************)
(* A file that is edited by hand and with the code actions of klog-ls      *)
(* (actions.go), while time passes: start, stop and create, with what      *)
(* totals.go makes of it. A time is a number of minutes since the start of *)
(* the day of its record: "<23:00" is negative, "1:30>" is beyond Day. An  *)
(* action is computed and applied in one step. Should-totals, summaries and*)
(* styles are carried along by klog and left out.                          *)
(***************************************************************************)
EXTENDS Integers, Sequences

CONSTANTS
  Day,         \* how many minutes a day has
  Starts,      \* the start times of open ranges that are written by hand
  Durations,   \* the times of entries that are written by hand, such as -30m
  MaxDay,      \* bound: the last day
  MaxRecords,  \* bound: how many records the file has
  MinTotal,    \* bound: how far the entries of a record are below zero, by hand
  MaxTotal     \* bound: how much time the entries of a record have

ASSUME TimeTrackingAssumption ==
  /\ Day \in Nat \ {0}
  /\ Starts \subseteq Int
  /\ Durations \subseteq Int
  /\ MaxDay \in Nat \ {0}
  /\ MaxRecords \in Nat
  /\ MinTotal \in Int /\ MinTotal <= 0
  /\ MaxTotal \in Nat

VARIABLES
  records,  \* the records of the file, in its order
  today,    \* the date, counted in days
  minute    \* the time of day

vars == <<records, today, minute>>

(* closed: the total of a record without its open ranges, of which klog    *)
(* accepts at most one; open: where those start.                           *)
Record(date, closed, open) == [date |-> date, closed |-> closed, open |-> open]
NewRecord(date, open) == Record(date, 0, open)
IsOpen(r) == r.open # <<>>

None == 0
Indices == DOMAIN records
Cursors == Indices \union {None}  \* the record at the cursor, or between records

Init ==
  /\ records = <<>>
  /\ today = 1
  /\ minute = 0

(* klog accepts the file. *)
Accepted(rs) == \A i \in DOMAIN rs : Len(rs[i].open) <= 1

-------------------------------------------------------------------------------
(* Finding records: the first one of a date, the last of the latest date.  *)

RecordOn(rs, date) ==
  LET found == {i \in DOMAIN rs : rs[i].date = date} IN
  IF found = {} THEN None ELSE CHOOSE i \in found : \A j \in found : i <= j

LatestRecord(rs) ==
  IF rs = <<>> THEN None
  ELSE CHOOSE i \in DOMAIN rs : \A j \in DOMAIN rs :
         rs[j].date < rs[i].date \/ (rs[j].date = rs[i].date /\ j <= i)

HasOpen(rs, i) == i # None /\ IsOpen(rs[i])

(* Variant: yesterday's record comes first. *)
YesterdaysFirst(rs) ==
  LET t == RecordOn(rs, today)
      y == RecordOn(rs, today - 1)
  IN IF HasOpen(rs, y) THEN y ELSE IF HasOpen(rs, t) THEN t ELSE None

StoppableRecord(rs) ==
  LET t == RecordOn(rs, today)
      y == RecordOn(rs, today - 1)
  IN IF HasOpen(rs, t) THEN t ELSE IF HasOpen(rs, y) THEN y ELSE None

(* Variant: actions are offered everywhere. *)
Anywhere(cursor, i) == TRUE
Near(cursor, i) == cursor = None \/ cursor = i

-------------------------------------------------------------------------------
(* Code actions. klog's reconcilers change the first record of a date, the *)
(* one that RecordOn finds.                                                *)

(* Variant: the time of day, whatever the day. *)
NowOfDay(r) == minute
EndOf(r) == IF r.date = today THEN minute ELSE minute + Day

(* Variant: the error of CloseOpenRange is not looked at. *)
ClosesAnyhow(r) == TRUE
Closes(r) == r.open[1] <= EndOf(r)

(* klog refuses a range that ends before it starts. *)
Stops(cursor) ==
  LET i == StoppableRecord(records)
      r == records[i]
      time == EndOf(r) - r.open[1]
  IN
  /\ Accepted(records)
  /\ i # None
  /\ Near(cursor, i)
  /\ Closes(r)
  /\ records' = [records EXCEPT ![i] = Record(r.date, r.closed + time, Tail(r.open))]

(* Variant: klog does not refuse a second open range. *)
StartsAnother(cursor) ==
  LET i == RecordOn(records, today) IN
  /\ Accepted(records)
  /\ i # None
  /\ Near(cursor, i)
  /\ records' = [records EXCEPT ![i].open = Append(@, minute)]

StartsInRecord(cursor) ==
  LET i == RecordOn(records, today) IN
  /\ Accepted(records)
  /\ i # None
  /\ Near(cursor, i)
  /\ ~HasOpen(records, i)
  /\ records' = [records EXCEPT ![i].open = Append(@, minute)]

(* klog finds a place for a new record. *)
Inserted(rs, p, r) ==
  [i \in 1..(Len(rs) + 1) |-> IF i <= p THEN rs[i] ELSE IF i = p + 1 THEN r ELSE rs[i - 1]]
Inserts(r) == \E p \in 0..Len(records) : records' = Inserted(records, p, r)

NewRecordIsOffered(cursor) ==
  /\ Accepted(records)
  /\ RecordOn(records, today) = None
  /\ Near(cursor, LatestRecord(records))

StartsNewRecord(cursor) ==
  /\ NewRecordIsOffered(cursor)
  /\ Inserts(NewRecord(today, <<minute>>))

Creates(cursor) ==
  /\ NewRecordIsOffered(cursor)
  /\ Inserts(NewRecord(today, <<>>))

StartsOpenRange(cursor) == StartsInRecord(cursor) \/ StartsNewRecord(cursor)
CodeAction(cursor) == Stops(cursor) \/ StartsOpenRange(cursor) \/ Creates(cursor)

-------------------------------------------------------------------------------
(* The totals in inlay hints and hovers. *)

(* runningTime: the end of an open range that is still counted. *)
RunningUntil(date) == IF date = today THEN minute ELSE minute + Day
Counted(r) ==
  /\ IsOpen(r)
  /\ r.date \in {today, today - 1}
  /\ RunningUntil(r.date) >= r.open[1]

TotalOf(r) == IF Counted(r) THEN r.closed + RunningUntil(r.date) - r.open[1] ELSE r.closed

-------------------------------------------------------------------------------
(* The user types, records in any order and with any date, and deletes. A  *)
(* second open range is a mistake; one at a time is enough.                *)

TypesRecord == \E date \in 0..MaxDay : Inserts(NewRecord(date, <<>>))

TypesEntry ==
  \E i \in Indices, time \in Durations :
    /\ records[i].closed + time >= MinTotal
    /\ records' = [records EXCEPT ![i].closed = @ + time]

TypesOpenRange ==
  \E i \in Indices, start \in Starts :
    /\ IsOpen(records[i]) => Accepted(records)
    /\ records' = [records EXCEPT ![i].open = Append(@, start)]

Deletes ==
  \E i \in Indices :
    records' = [j \in 1..(Len(records) - 1) |-> IF j < i THEN records[j] ELSE records[j + 1]]

Edits ==
  /\ \/ \E cursor \in Cursors : CodeAction(cursor)
     \/ TypesRecord \/ TypesEntry \/ TypesOpenRange \/ Deletes
  /\ Len(records') <= MaxRecords
  /\ \A i \in DOMAIN records' : records'[i].closed <= MaxTotal
  /\ UNCHANGED <<today, minute>>

TimePasses ==
  /\ \/ minute < Day - 1 /\ minute' = minute + 1 /\ today' = today
     \/ minute = Day - 1 /\ today < MaxDay /\ minute' = 0 /\ today' = today + 1
  /\ UNCHANGED records

Next == Edits \/ TimePasses

Spec == Init /\ [][Next]_vars

-------------------------------------------------------------------------------
(* The variables have their types. A total may be negative, as entries may,*)
(* but only by hand: the bound below is one on what is typed.              *)
TypeOK ==
  /\ records \in Seq([date : 0..MaxDay, closed : MinTotal..MaxTotal, open : Seq(Int)])
  /\ today \in 1..MaxDay
  /\ minute \in 0..(Day - 1)

(* Stopping writes down what the hints say: no total changes with it, in   *)
(* today's record or in yesterday's, where the end is shifted, and it never*)
(* takes time away (stop in actions.go, runningTime in totals.go).         *)
StopKeepsTotals ==
  [][\A cursor \in Cursors : Stops(cursor) =>
       \A i \in Indices :
         /\ TotalOf(records'[i]) = TotalOf(records[i])
         /\ records'[i].closed >= records[i].closed]_vars

(* While a record is counted, each minute adds one to its total, across    *)
(* midnight as well, where the record becomes yesterday's and its end is   *)
(* shifted (runningTime in totals.go).                                     *)
MinutesAreCounted ==
  [][TimePasses => \A i \in Indices :
       Counted(records[i]) /\ records[i].date >= today' - 1 =>
         TotalOf(records[i])' = TotalOf(records[i]) + 1]_vars

(* What has just been started is what stop closes next, also when there    *)
(* are other open ranges or several records of a date (start, stop).       *)
StopFollowsStart ==
  [][\A cursor \in Cursors : StartsOpenRange(cursor) =>
       LET i == StoppableRecord(records') IN
       i # None /\ records'[i].date = today /\ records'[i].open = <<minute>>]_vars

TwiceDated(rs) ==
  {rs[i].date : i \in {k \in DOMAIN rs : \E l \in DOMAIN rs : l # k /\ rs[l].date = rs[k].date}}

(* A code action leaves a file that klog accepts, and makes no second      *)
(* record for a date (start, create, reconcile).                           *)
ActionsKeepFileSound ==
  [][\A cursor \in Cursors : CodeAction(cursor) =>
       Accepted(records') /\ TwiceDated(records') \subseteq TwiceDated(records)]_vars

(* "They are only offered in the record they change, in the latest record, *)
(* and on lines between records" (codeActions): with the cursor in one     *)
(* record, no other is changed.                                            *)
ChangesNearCursor ==
  [][\A cursor \in Indices : CodeAction(cursor) =>
       \A i \in Indices \ {cursor} : \E j \in DOMAIN records' : records'[j] = records[i]]_vars
===============================================================================
