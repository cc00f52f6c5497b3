-------------------------- MODULE TimeTrackingProofs --------------------------
(***************************************************************************)
(* Proofs about TimeTracking and Hints, for days, files and times of any   *)
(* size.                                                                   *)
(***************************************************************************)
EXTENDS Hints, SequenceTheorems, WellFoundedInduction, TLAPS

Records == [date : 0..MaxDay, closed : MinTotal..MaxTotal, open : Seq(Int)]

(* A set of natural numbers that is not empty has a least element. *)
LEMMA Least ==
  ASSUME NEW S \in SUBSET Nat, S # {}
  PROVE  \E m \in S : \A k \in S : m <= k
<1> DEFINE R == OpToRel(<, Nat)
<1>1. IsWellFoundedOn(R, Nat)
  BY NatLessThanWellFounded
<1>2. \E x \in S : \A y \in S : ~(<<y, x>> \in R)
  BY <1>1, WFMin
<1>3. \A x, y \in Nat : x < y => <<x, y>> \in R
  BY DEF OpToRel
<1> HIDE DEF R
<1>4. PICK x \in S : \A y \in S : ~(<<y, x>> \in R)
  BY <1>2
<1>5. \A y \in S : ~(y < x)
  BY <1>3, <1>4
<1> QED
  BY <1>5

(* RecordOn finds the first record of a date, if there is any. *)
LEMMA RecordOnFinds ==
  ASSUME NEW rs \in Seq(Records), NEW date
  PROVE  \/ /\ RecordOn(rs, date) = None
            /\ \A j \in DOMAIN rs : rs[j].date # date
         \/ /\ RecordOn(rs, date) \in DOMAIN rs
            /\ RecordOn(rs, date) # None
            /\ rs[RecordOn(rs, date)].date = date
            /\ \A j \in DOMAIN rs : rs[j].date = date => RecordOn(rs, date) <= j
<1> DEFINE found == {i \in DOMAIN rs : rs[i].date = date}
<1>1. CASE found = {}
  BY <1>1 DEF RecordOn
<1>2. CASE found # {}
  <2>1. found \in SUBSET Nat
    OBVIOUS
  <2>2. \E i \in found : \A j \in found : i <= j
    BY <1>2, <2>1, Least
  <2>3. RecordOn(rs, date) = CHOOSE i \in found : \A j \in found : i <= j
    BY <1>2 DEF RecordOn
  <2>4. RecordOn(rs, date) \in found /\ \A j \in found : RecordOn(rs, date) <= j
    BY <2>2, <2>3
  <2>5. None \notin DOMAIN rs
    BY DEF None
  <2> QED
    BY <2>4, <2>5
<1> QED
  BY <1>1, <1>2

LEMMA StoppableFinds ==
  ASSUME NEW rs \in Seq(Records), StoppableRecord(rs) # None
  PROVE  /\ StoppableRecord(rs) \in DOMAIN rs
         /\ IsOpen(rs[StoppableRecord(rs)])
         /\ rs[StoppableRecord(rs)].date \in {today, today - 1}
<1>1. /\ RecordOn(rs, today) # None =>
           RecordOn(rs, today) \in DOMAIN rs /\ rs[RecordOn(rs, today)].date = today
      /\ RecordOn(rs, today - 1) # None =>
           RecordOn(rs, today - 1) \in DOMAIN rs /\ rs[RecordOn(rs, today - 1)].date = today - 1
  BY RecordOnFinds
<1> QED
  BY <1>1 DEF StoppableRecord, HasOpen

LEMMA OneElement ==
  ASSUME NEW s \in Seq(Int), Len(s) = 1
  PROVE  s[1] \in Int /\ Tail(s) = <<>>
<1>1. 1 \in DOMAIN s
  OBVIOUS
<1>2. s[1] \in Int
  BY <1>1, ElementOfSeq
<1>3. s # <<>>
  <2>1. Len(s) # 0
    OBVIOUS
  <2> QED
    BY <2>1, EmptySeq
<1>4. Tail(s) \in Seq(Int) /\ Len(Tail(s)) = 0
  BY <1>3, HeadTailProperties
<1> QED
  BY <1>2, <1>4, EmptySeq

-------------------------------------------------------------------------------
(* Each way to change the file makes a sequence of records.                *)

LEMMA InsertedType ==
  ASSUME NEW rs \in Seq(Records), NEW r \in Records, NEW p \in 0..Len(rs)
  PROVE  /\ Inserted(rs, p, r) \in Seq(Records)
         /\ Len(Inserted(rs, p, r)) = Len(rs) + 1
<1>1. \A i \in 1..(Len(rs) + 1) :
        (IF i <= p THEN rs[i] ELSE IF i = p + 1 THEN r ELSE rs[i - 1]) \in Records
  OBVIOUS
<1> QED
  BY <1>1 DEF Inserted

LEMMA RemovedType ==
  ASSUME NEW rs \in Seq(Records), NEW i \in DOMAIN rs
  PROVE  [j \in 1..(Len(rs) - 1) |-> IF j < i THEN rs[j] ELSE rs[j + 1]] \in Seq(Records)
OBVIOUS

LEMMA NewRecordType ==
  ASSUME TimeTrackingAssumption, NEW date \in 0..MaxDay, NEW open \in Seq(Int)
  PROVE  NewRecord(date, open) \in Records
BY DEF TimeTrackingAssumption, NewRecord, Record, Records

-------------------------------------------------------------------------------
Bounded == \A i \in DOMAIN records' : records'[i].closed <= MaxTotal

(* What stop writes, into which record. *)
LEMMA StopEffect ==
  ASSUME TimeTrackingAssumption, TypeOK, NEW cursor \in Cursors, Stops(cursor)
  PROVE  \E i \in Indices :
           /\ records[i] \in Records
           /\ records[i].date \in {today, today - 1}
           /\ Len(records[i].open) = 1
           /\ records[i].open[1] \in Int
           /\ records[i].open[1] <= EndOf(records[i])
           /\ EndOf(records[i]) \in Int
           /\ cursor \in {None, i}
           /\ records' = [records EXCEPT ![i] =
                Record(records[i].date, records[i].closed + (EndOf(records[i]) - records[i].open[1]),
                       Tail(records[i].open))]
<1> DEFINE i == StoppableRecord(records)
<1>1. records \in Seq(Records)
  BY DEF TypeOK, Records
<1>2. i \in Indices /\ IsOpen(records[i]) /\ records[i].date \in {today, today - 1}
  BY <1>1, StoppableFinds DEF Stops, Indices
<1>3. records[i] \in Records
  BY <1>1, <1>2 DEF Indices
<1>4. Len(records[i].open) = 1
  <2>1. Len(records[i].open) <= 1 /\ records[i].open # <<>>
    BY <1>2 DEF Stops, Accepted, Indices, IsOpen
  <2>2. records[i].open \in Seq(Int)
    BY <1>3 DEF Records
  <2> HIDE DEF i
  <2>3. Len(records[i].open) \in Nat \ {0}
    BY <2>1, <2>2, EmptySeq
  <2> DEFINE n == Len(records[i].open)
  <2>4. n \in Nat /\ n # 0 /\ n <= 1
    BY <2>1, <2>3
  <2> HIDE DEF n
  <2>5. n = 1
    BY <2>4
  <2> QED
    BY <2>5 DEF n
<1>5. records[i].open[1] \in Int
  BY <1>3, <1>4, OneElement DEF Records
<1>6. EndOf(records[i]) \in Int
  BY DEF EndOf, TypeOK, TimeTrackingAssumption
<1> HIDE DEF i
<1>7. /\ records[i].open[1] <= EndOf(records[i])
      /\ cursor \in {None, i}
      /\ records' = [records EXCEPT ![i] =
           Record(records[i].date, records[i].closed + (EndOf(records[i]) - records[i].open[1]),
                  Tail(records[i].open))]
  BY DEF i, Stops, Closes, Near
<1> QED
  BY <1>2, <1>3, <1>4, <1>5, <1>6, <1>7

LEMMA StopsType ==
  ASSUME TimeTrackingAssumption, TypeOK, Bounded, NEW cursor \in Cursors, Stops(cursor)
  PROVE  records' \in Seq(Records)
<1>1. PICK i \in Indices :
        /\ records[i] \in Records
        /\ Len(records[i].open) = 1
        /\ records[i].open[1] \in Int
        /\ records[i].open[1] <= EndOf(records[i])
        /\ EndOf(records[i]) \in Int
        /\ records' = [records EXCEPT ![i] =
             Record(records[i].date, records[i].closed + (EndOf(records[i]) - records[i].open[1]),
                    Tail(records[i].open))]
  BY StopEffect
<1> DEFINE time == EndOf(records[i]) - records[i].open[1]
           r == Record(records[i].date, records[i].closed + time, Tail(records[i].open))
<1>2. records \in Seq(Records)
  BY DEF TypeOK, Records
<1>3. time \in Nat
  BY <1>1
<1>4. records'[i] = r /\ i \in DOMAIN records'
  BY <1>1, <1>2 DEF Indices
<1>5. r.closed <= MaxTotal
  BY <1>4 DEF Bounded
<1>6. records[i].closed + time \in MinTotal..MaxTotal
  BY <1>1, <1>3, <1>5, TimeTrackingAssumption DEF Record, Records, TimeTrackingAssumption
<1>7. Tail(records[i].open) \in Seq(Int)
  BY <1>1 DEF Records
<1>8. r \in Records
  BY <1>1, <1>6, <1>7 DEF Record, Records
<1> QED
  BY <1>1, <1>2, <1>8 DEF Indices

LEMMA AppendType ==
  ASSUME NEW rs \in Seq(Records), NEW i \in DOMAIN rs, NEW start \in Int
  PROVE  [rs EXCEPT ![i].open = Append(@, start)] \in Seq(Records)
<1>1. rs[i] \in Records
  OBVIOUS
<1>2. Append(rs[i].open, start) \in Seq(Int)
  BY <1>1 DEF Records
<1>3. [rs[i] EXCEPT !.open = Append(rs[i].open, start)] \in Records
  BY <1>1, <1>2 DEF Records
<1> QED
  BY <1>3

LEMMA EntryType ==
  ASSUME TimeTrackingAssumption, NEW rs \in Seq(Records), NEW i \in DOMAIN rs, NEW time \in Int,
         rs[i].closed + time \in MinTotal..MaxTotal
  PROVE  [rs EXCEPT ![i].closed = @ + time] \in Seq(Records)
<1>1. rs[i] \in Records
  OBVIOUS
<1>2. [rs[i] EXCEPT !.closed = rs[i].closed + time] \in Records
  BY <1>1 DEF Records
<1> QED
  BY <1>2

LEMMA InsertsType ==
  ASSUME TypeOK, NEW r \in Records, Inserts(r)
  PROVE  records' \in Seq(Records)
<1>1. records \in Seq(Records)
  BY DEF TypeOK, Records
<1>2. PICK p \in 0..Len(records) : records' = Inserted(records, p, r)
  BY DEF Inserts
<1> QED
  BY <1>1, <1>2, InsertedType

LEMMA NextType == TimeTrackingAssumption /\ TypeOK /\ [Next]_vars => TypeOK'
<1> SUFFICES ASSUME TimeTrackingAssumption, TypeOK, [Next]_vars PROVE TypeOK'
  OBVIOUS
<1>1. /\ records \in Seq(Records)
      /\ today \in 1..MaxDay
      /\ today \in 0..MaxDay
      /\ minute \in 0..(Day - 1)
      /\ minute \in Int
      /\ <<minute>> \in Seq(Int)
      /\ <<>> \in Seq(Int)
  BY DEF TypeOK, Records, TimeTrackingAssumption
<1>2. ASSUME records' \in Seq(Records), UNCHANGED <<today, minute>> PROVE TypeOK'
  BY <1>1, <1>2 DEF TypeOK, Records
<1>3. CASE Edits
  <2>1. Bounded /\ UNCHANGED <<today, minute>>
    BY <1>3 DEF Edits, Bounded
  <2>2. ASSUME NEW cursor \in Cursors, CodeAction(cursor) PROVE records' \in Seq(Records)
    <3>1. CASE Stops(cursor)
      BY <2>1, <3>1, StopsType
    <3>2. CASE StartsInRecord(cursor)
      <4>1. RecordOn(records, today) \in DOMAIN records
        BY <1>1, <3>2, RecordOnFinds DEF StartsInRecord
      <4> QED
        BY <1>1, <3>2, <4>1, AppendType DEF StartsInRecord
    <3>3. CASE StartsNewRecord(cursor)
      BY <1>1, <3>3, InsertsType, NewRecordType DEF StartsNewRecord
    <3>4. CASE Creates(cursor)
      BY <1>1, <3>4, InsertsType, NewRecordType DEF Creates
    <3> QED
      BY <2>2, <3>1, <3>2, <3>3, <3>4 DEF CodeAction, StartsOpenRange
  <2>3. CASE TypesRecord
    <3>1. PICK date \in 0..MaxDay : Inserts(NewRecord(date, <<>>))
      BY <2>3 DEF TypesRecord
    <3>2. NewRecord(date, <<>>) \in Records
      BY <1>1, NewRecordType
    <3>3. records' \in Seq(Records)
      BY <3>1, <3>2, InsertsType
    <3> QED
      BY <1>2, <2>1, <3>3
  <2>4. CASE TypesOpenRange
    <3>1. PICK i \in Indices, start \in Starts :
            records' = [records EXCEPT ![i].open = Append(@, start)]
      BY <2>4 DEF TypesOpenRange
    <3>2. records' \in Seq(Records)
      BY <1>1, <3>1, AppendType DEF Indices, TimeTrackingAssumption
    <3> QED
      BY <1>2, <2>1, <3>2
  <2>5. CASE TypesEntry
    <3>1. PICK i \in Indices, time \in Durations :
            /\ records[i].closed + time >= MinTotal
            /\ records' = [records EXCEPT ![i].closed = @ + time]
      BY <2>5 DEF TypesEntry
    <3>2. i \in DOMAIN records /\ records[i].closed \in Int /\ time \in Int
      <4>1. i \in DOMAIN records /\ time \in Int
        BY DEF Indices, TimeTrackingAssumption
      <4>2. records[i] \in Records
        BY <1>1, <4>1
      <4> QED
        BY <4>1, <4>2 DEF Records, TimeTrackingAssumption
    <3>3. i \in DOMAIN records' /\ records'[i].closed = records[i].closed + time
      <4>1. records[i] \in Records
        BY <1>1, <3>2
      <4>2. DOMAIN records' = DOMAIN records
            /\ records'[i] = [records[i] EXCEPT !.closed = @ + time]
        BY <3>1, <3>2
      <4> QED
        BY <3>2, <4>1, <4>2 DEF Records
    <3>4. records[i].closed + time \in MinTotal..MaxTotal
      BY <2>1, <3>1, <3>2, <3>3 DEF Bounded, TimeTrackingAssumption
    <3>5. records' \in Seq(Records)
      BY <1>1, <3>1, <3>2, <3>4, EntryType
    <3> QED
      BY <1>2, <2>1, <3>5
  <2>6. CASE Deletes
    <3>1. records' \in Seq(Records)
      BY <1>1, <2>6, RemovedType DEF Deletes, Indices
    <3> QED
      BY <1>2, <2>1, <3>1
  <2> QED
    BY <1>2, <1>3, <2>1, <2>2, <2>3, <2>4, <2>5, <2>6 DEF Edits
<1>4. CASE TimePasses
  BY <1>1, <1>4 DEF TimePasses, TypeOK, TimeTrackingAssumption
<1>5. CASE UNCHANGED vars
  BY <1>5 DEF vars, TypeOK
<1> QED
  BY <1>3, <1>4, <1>5 DEF Next

(* The variables keep their types: whatever is typed, and however the clock*)
(* goes on, no code action makes the entries of a record less than that.   *)
THEOREM TimeTrackingTypeOK == Spec => []TypeOK
<1>1. Init => TypeOK
  BY TimeTrackingAssumption DEF Init, TypeOK, TimeTrackingAssumption
<1> QED
  BY <1>1, NextType, TimeTrackingAssumption, PTL DEF Spec

-------------------------------------------------------------------------------
(* Stopping an open range writes down the time that the hints count for it,*)
(* no more and no less, which is never less than nothing, and changes no   *)
(* other total.                                                            *)
LEMMA StopStep ==
  ASSUME TypeOK, NEW cursor \in Cursors, Stops(cursor)
  PROVE  \A i \in Indices :
           /\ TotalOf(records'[i]) = TotalOf(records[i])
           /\ records'[i].closed >= records[i].closed
<1>1. PICK i \in Indices :
        /\ records[i] \in Records
        /\ records[i].date \in {today, today - 1}
        /\ Len(records[i].open) = 1
        /\ records[i].open[1] \in Int
        /\ records[i].open[1] <= EndOf(records[i])
        /\ EndOf(records[i]) \in Int
        /\ records' = [records EXCEPT ![i] =
             Record(records[i].date, records[i].closed + (EndOf(records[i]) - records[i].open[1]),
                    Tail(records[i].open))]
  BY StopEffect, TimeTrackingAssumption
<1>2. records[i].open \in Seq(Int) /\ records[i].closed \in Int
  BY <1>1 DEF Records
<1>3. EndOf(records[i]) = RunningUntil(records[i].date)
  BY DEF EndOf, RunningUntil
<1>4. TotalOf(records[i]) = records[i].closed + (EndOf(records[i]) - records[i].open[1])
  <2>1. Counted(records[i])
    BY <1>1, <1>2, <1>3 DEF Counted, IsOpen
  <2> QED
    BY <1>1, <1>2, <1>3, <2>1 DEF TotalOf
<1>5. Tail(records[i].open) = <<>>
  BY <1>1, <1>2, OneElement
<1>6. TotalOf(records'[i]) = records[i].closed + (EndOf(records[i]) - records[i].open[1])
  <2>1. records'[i] = Record(records[i].date,
                             records[i].closed + (EndOf(records[i]) - records[i].open[1]), <<>>)
    BY <1>1, <1>5 DEF Indices
  <2>2. ~Counted(records'[i])
    BY <2>1 DEF Counted, IsOpen, Record
  <2> QED
    BY <2>1, <2>2 DEF TotalOf, Record
<1>7. \A j \in Indices \ {i} : records'[j] = records[j] /\ records[j].closed \in Int
  <2>1. \A j \in Indices : records[j] \in Records
    <3>1. records \in Seq(Records)
      BY DEF TypeOK, Records
    <3> QED BY <3>1 DEF Indices
  <2>2. \A j \in Indices : records[j].closed \in Int
    BY <2>1, TimeTrackingAssumption DEF Records, TimeTrackingAssumption
  <2> QED
    BY <1>1, <2>2 DEF Indices
<1>8. records'[i].closed >= records[i].closed
  BY <1>1, <1>2 DEF Indices, Record
<1> QED
  BY <1>4, <1>6, <1>7, <1>8

THEOREM StoppingKeepsTotals == Spec => StopKeepsTotals
<1>1. TypeOK /\ [Next]_vars =>
        [\A cursor \in Cursors : Stops(cursor) =>
           \A i \in Indices :
             /\ TotalOf(records'[i]) = TotalOf(records[i])
             /\ records'[i].closed >= records[i].closed]_vars
  BY StopStep
<1> QED
  BY <1>1, TimeTrackingTypeOK, PTL DEF Spec, StopKeepsTotals

-------------------------------------------------------------------------------
(* What an action does to the other records of the file: nothing.          *)

(* start and stop leave the dates alone. *)
SameDates(rs, rs2) ==
  DOMAIN rs2 = DOMAIN rs /\ \A i \in DOMAIN rs : rs2[i].date = rs[i].date

LEMMA DatesFind ==
  ASSUME NEW rs, NEW rs2, SameDates(rs, rs2)
  PROVE  TwiceDated(rs2) = TwiceDated(rs) /\ \A date : RecordOn(rs2, date) = RecordOn(rs, date)
<1>1. TwiceDated(rs2) = TwiceDated(rs)
  BY DEF SameDates, TwiceDated
<1>2. ASSUME NEW date PROVE RecordOn(rs2, date) = RecordOn(rs, date)
  <2>1. {i \in DOMAIN rs2 : rs2[i].date = date} = {i \in DOMAIN rs : rs[i].date = date}
    BY DEF SameDates
  <2> DEFINE First(found) == IF found = {} THEN None ELSE CHOOSE i \in found : \A j \in found : i <= j
  <2>2. RecordOn(rs2, date) = First({i \in DOMAIN rs2 : rs2[i].date = date})
    BY Zenon DEF RecordOn
  <2>3. RecordOn(rs, date) = First({i \in DOMAIN rs : rs[i].date = date})
    BY Zenon DEF RecordOn
  <2> HIDE DEF First
  <2> QED BY <2>1, <2>2, <2>3
<1> QED BY <1>1, <1>2

(* start, in a record that is there. *)
LEMMA StartEffect ==
  ASSUME TypeOK, NEW cursor \in Cursors, StartsInRecord(cursor)
  PROVE  LET i == RecordOn(records, today) IN
         /\ i \in Indices
         /\ cursor \in {None, i}
         /\ records[i].date = today
         /\ records' = [records EXCEPT ![i].open = <<minute>>]
<1> DEFINE i == RecordOn(records, today)
<1>1. records \in Seq(Records)
  BY DEF TypeOK, Records
<1>2. i \in Indices /\ records[i].date = today
  BY <1>1, RecordOnFinds DEF StartsInRecord, Indices
<1>3. records[i].open = <<>>
  BY <1>2 DEF StartsInRecord, HasOpen, IsOpen
<1> HIDE DEF i
<1>4. Append(records[i].open, minute) = <<minute>>
  BY <1>3
<1>5. records' = [records EXCEPT ![i].open = Append(@, minute)] /\ cursor \in {None, i}
  BY DEF StartsInRecord, Near, i
<1>6. records' = [records EXCEPT ![i].open = <<minute>>]
  BY <1>4, <1>5
<1> QED BY <1>2, <1>5, <1>6 DEF i

(* A record is put between others, which stay in their order. *)
LEMMA InsertedAt ==
  ASSUME NEW rs \in Seq(Records), NEW r \in Records, NEW p \in 0..Len(rs)
  PROVE  LET rs2 == Inserted(rs, p, r)
             before(k) == IF k <= p THEN k ELSE k - 1
         IN
         /\ DOMAIN rs2 = 1..(Len(rs) + 1) /\ p + 1 \in DOMAIN rs2
         /\ rs2[p + 1] = r
         /\ \A k \in DOMAIN rs2 \ {p + 1} : before(k) \in DOMAIN rs /\ rs2[k] = rs[before(k)]
         /\ \A i \in DOMAIN rs : \E k \in DOMAIN rs2 : rs2[k] = rs[i]
<1> DEFINE rs2 == Inserted(rs, p, r)
<1>1. /\ DOMAIN rs2 = 1..(Len(rs) + 1)
      /\ \A k \in 1..(Len(rs) + 1) : rs2[k] = IF k <= p THEN rs[k] ELSE IF k = p + 1 THEN r ELSE rs[k - 1]
  BY DEF Inserted
<1>2. DOMAIN rs = 1..Len(rs) /\ Len(rs) \in Nat
  OBVIOUS
<1> HIDE DEF rs2
<1>3. p + 1 \in DOMAIN rs2 /\ rs2[p + 1] = r
  BY <1>1, <1>2
<1>4. ASSUME NEW k \in DOMAIN rs2 \ {p + 1}
      PROVE  LET b == IF k <= p THEN k ELSE k - 1 IN b \in DOMAIN rs /\ rs2[k] = rs[b]
  BY <1>1, <1>2
<1>5. ASSUME NEW i \in DOMAIN rs PROVE \E k \in DOMAIN rs2 : rs2[k] = rs[i]
  <2>1. CASE i <= p
    <3>1. i \in DOMAIN rs2 /\ rs2[i] = rs[i] BY <1>1, <1>2, <2>1
    <3> QED BY <3>1
  <2>2. CASE ~(i <= p)
    <3>1. i + 1 \in DOMAIN rs2 /\ rs2[i + 1] = rs[i] BY <1>1, <1>2, <2>2
    <3> QED BY <3>1
  <2> QED BY <2>1, <2>2
<1> QED BY <1>1, <1>3, <1>4, <1>5 DEF rs2

(* start and create, when there is no record for today. *)
LEMMA NewRecordEffect ==
  ASSUME TypeOK, NEW cursor \in Cursors, NewRecordIsOffered(cursor),
         NEW open \in {<<>>, <<minute>>}, Inserts(NewRecord(today, open))
  PROVE  \E i \in DOMAIN records' :
           /\ records' \in Seq(Records)
           /\ records'[i] = NewRecord(today, open)
           /\ \A j \in DOMAIN records' \ {i} : records'[j].date # today
           /\ Accepted(records')
           /\ TwiceDated(records') \subseteq TwiceDated(records)
           /\ \A j \in Indices : \E k \in DOMAIN records' : records'[k] = records[j]
<1> DEFINE r == NewRecord(today, open)
<1>1. records \in Seq(Records) /\ minute \in Int /\ today \in 0..MaxDay
  BY TimeTrackingAssumption DEF TypeOK, Records, TimeTrackingAssumption
<1>2. r \in Records
  <2>1. <<>> \in Seq(Int) /\ <<minute>> \in Seq(Int) BY <1>1
  <2> QED BY <1>1, <2>1, NewRecordType, TimeTrackingAssumption, Zenon
<1>3. PICK p \in 0..Len(records) : records' = Inserted(records, p, r)
  BY DEF Inserts
<1> DEFINE before(k) == IF k <= p THEN k ELSE k - 1
<1>4. /\ p + 1 \in DOMAIN records' /\ DOMAIN records' \subseteq Nat
      /\ records'[p + 1] = r
      /\ \A k \in DOMAIN records' \ {p + 1} : before(k) \in DOMAIN records /\ records'[k] = records[before(k)]
      /\ \A j \in Indices : \E k \in DOMAIN records' : records'[k] = records[j]
  BY <1>1, <1>2, <1>3, InsertedAt DEF Indices
<1>5. \A j \in DOMAIN records : records[j].date # today /\ Len(records[j].open) <= 1
  BY <1>1, RecordOnFinds DEF NewRecordIsOffered, Accepted
<1>6. r.date = today /\ r.open = open /\ Len(open) <= 1
  BY DEF NewRecord, Record
<1>7. records' \in Seq(Records)
  BY <1>1, <1>2, <1>3, InsertedType
<1> HIDE DEF r
<1>8. Accepted(records')
  BY <1>4, <1>5, <1>6 DEF Accepted
<1>9. \A k, l \in DOMAIN records' \ {p + 1} : k # l => before(k) # before(l)
  BY <1>4
<1>10. \A j \in DOMAIN records' \ {p + 1} : records'[j].date # today
  BY <1>4, <1>5
<1>11. ASSUME NEW d \in TwiceDated(records') PROVE d \in TwiceDated(records)
  <2>1. PICK k \in DOMAIN records', l \in DOMAIN records' :
          l # k /\ records'[k].date = d /\ records'[l].date = d
    BY <1>11 DEF TwiceDated
  <2>2. k # p + 1 /\ l # p + 1
    BY <1>4, <1>6, <1>10, <2>1
  <2>3. before(k) \in DOMAIN records /\ before(l) \in DOMAIN records /\ before(l) # before(k)
    BY <1>4, <1>9, <2>1, <2>2
  <2>4. records[before(k)].date = d /\ records[before(l)].date = d
    BY <1>4, <2>1, <2>2
  <2> HIDE DEF before
  <2> QED BY <2>3, <2>4 DEF TwiceDated
<1> QED BY <1>4, <1>7, <1>8, <1>10, <1>11 DEF r

KeepsSound(cursor) ==
  /\ Accepted(records')
  /\ TwiceDated(records') \subseteq TwiceDated(records)
  /\ cursor \in Indices =>
       \A i \in Indices \ {cursor} : \E j \in DOMAIN records' : records'[j] = records[i]

LEMMA ActionStep ==
  ASSUME TypeOK, NEW cursor \in Cursors, CodeAction(cursor)
  PROVE  KeepsSound(cursor)
<1>1. records \in Seq(Records)
  BY DEF TypeOK, Records
<1>2. Accepted(records) /\ None \notin Indices
  BY <1>1 DEF CodeAction, StartsOpenRange, Stops, StartsInRecord, StartsNewRecord, Creates,
              NewRecordIsOffered, Indices, None
<1>3. ASSUME NEW i \in Indices, cursor \in {None, i},
             DOMAIN records' = Indices,
             records'[i].date = records[i].date,
             Len(records'[i].open) <= 1,
             \A k \in Indices \ {i} : records'[k] = records[k]
      PROVE  KeepsSound(cursor)
  <2>1. SameDates(records, records')
    BY <1>3 DEF SameDates, Indices
  <2>2. Accepted(records')
    BY <1>2, <1>3 DEF Accepted, Indices
  <2> QED BY <1>2, <1>3, <2>1, <2>2, DatesFind DEF KeepsSound
<1>4. CASE Stops(cursor)
  <2>1. PICK i \in Indices :
          /\ records[i] \in Records
          /\ Len(records[i].open) = 1
          /\ cursor \in {None, i}
          /\ records' = [records EXCEPT ![i] =
               Record(records[i].date, records[i].closed + (EndOf(records[i]) - records[i].open[1]),
                      Tail(records[i].open))]
    BY <1>4, StopEffect, TimeTrackingAssumption
  <2>2. /\ DOMAIN records' = Indices
        /\ records'[i].date = records[i].date
        /\ records'[i].open = Tail(records[i].open)
        /\ \A k \in Indices \ {i} : records'[k] = records[k]
    BY <1>1, <2>1 DEF Indices, Record
  <2>3. Tail(records[i].open) = <<>>
    BY <2>1, OneElement DEF Records
  <2>4. Len(records'[i].open) <= 1
    <3>1. Len(<<>>) <= 1
      OBVIOUS
    <3> QED BY <2>2, <2>3, <3>1, Zenon
  <2> QED BY <1>3, <2>1, <2>2, <2>4
<1>5. CASE StartsInRecord(cursor)
  <2>1. PICK i \in Indices :
          /\ cursor \in {None, i}
          /\ records' = [records EXCEPT ![i].open = <<minute>>]
    BY <1>5, StartEffect
  <2>2. records[i] \in Records
    BY <1>1, <2>1 DEF Indices
  <2>3. /\ DOMAIN records' = Indices
        /\ records'[i].date = records[i].date
        /\ records'[i].open = <<minute>>
        /\ \A k \in Indices \ {i} : records'[k] = records[k]
    BY <1>1, <2>1, <2>2 DEF Indices, Records
  <2>4. Len(records'[i].open) <= 1
    BY <2>3
  <2> QED BY <1>3, <2>1, <2>3, <2>4
<1>6. CASE StartsNewRecord(cursor)
  BY <1>6, NewRecordEffect DEF StartsNewRecord, KeepsSound
<1>7. CASE Creates(cursor)
  BY <1>7, NewRecordEffect DEF Creates, KeepsSound
<1> QED BY <1>4, <1>5, <1>6, <1>7 DEF CodeAction, StartsOpenRange

(* A code action leaves a file that klog accepts, and no date that is      *)
(* there twice if it was not before (start, stop, create).                 *)
THEOREM CodeActionsKeepFileSound == Spec => ActionsKeepFileSound
<1>1. TypeOK /\ [Next]_vars =>
        [\A cursor \in Cursors : CodeAction(cursor) =>
           Accepted(records') /\ TwiceDated(records') \subseteq TwiceDated(records)]_vars
  BY ActionStep DEF KeepsSound
<1> QED BY <1>1, TimeTrackingTypeOK, PTL DEF Spec, ActionsKeepFileSound

(* With the cursor in a record, all others stay (codeActions, `near').     *)
THEOREM CodeActionsChangeNearCursor == Spec => ChangesNearCursor
<1>1. TypeOK /\ [Next]_vars =>
        [\A cursor \in Indices : CodeAction(cursor) =>
           \A i \in Indices \ {cursor} : \E j \in DOMAIN records' : records'[j] = records[i]]_vars
  BY ActionStep DEF Cursors, KeepsSound
<1> QED BY <1>1, TimeTrackingTypeOK, PTL DEF Spec, ChangesNearCursor

LEMMA StartStep ==
  ASSUME TypeOK, NEW cursor \in Cursors, StartsOpenRange(cursor)
  PROVE  LET i == StoppableRecord(records') IN
         i # None /\ records'[i].date = today /\ records'[i].open = <<minute>>
<1>1. \E i \in DOMAIN records' :
        /\ RecordOn(records', today) = i
        /\ i # None
        /\ records'[i].date = today
        /\ records'[i].open = <<minute>>
  <2>1. CASE StartsInRecord(cursor)
    <3> DEFINE i == RecordOn(records, today)
    <3>1. /\ i \in Indices /\ records[i].date = today
          /\ records' = [records EXCEPT ![i].open = <<minute>>]
      BY <2>1, StartEffect
    <3>2. records \in Seq(Records)
      BY DEF TypeOK, Records
    <3> HIDE DEF i
    <3>3. /\ DOMAIN records' = Indices
          /\ records'[i] = [records[i] EXCEPT !.open = <<minute>>]
          /\ \A j \in Indices \ {i} : records'[j] = records[j]
      BY <3>1, <3>2 DEF Indices
    <3>4. records[i] \in Records
      BY <3>1, <3>2 DEF Indices
    <3>5. records'[i].date = today /\ records'[i].open = <<minute>>
      BY <3>1, <3>3, <3>4 DEF Records
    <3>6. SameDates(records, records')
      BY <3>1, <3>3, <3>5 DEF SameDates, Indices
    <3>7. RecordOn(records', today) = i
      BY <3>6, DatesFind DEF i
    <3>8. i # None
      BY <3>1, <3>2 DEF Indices, None
    <3> QED BY <3>1, <3>3, <3>5, <3>7, <3>8
  <2>2. CASE StartsNewRecord(cursor)
    <3>1. PICK i \in DOMAIN records' :
            /\ records' \in Seq(Records)
            /\ records'[i] = NewRecord(today, <<minute>>)
            /\ \A j \in DOMAIN records' \ {i} : records'[j].date # today
      BY <2>2, NewRecordEffect DEF StartsNewRecord
    <3>2. records'[i].date = today /\ records'[i].open = <<minute>>
      BY <3>1 DEF NewRecord, Record
    <3>3. RecordOn(records', today) = i /\ i # None
      BY <3>1, <3>2, RecordOnFinds
    <3> QED BY <3>2, <3>3
  <2> QED BY <2>1, <2>2 DEF StartsOpenRange
<1>2. <<minute>> # <<>>
  OBVIOUS
<1> QED BY <1>1, <1>2 DEF StoppableRecord, HasOpen, IsOpen

(* What has just been started is what stop closes (start, stop,            *)
(* stoppableRecord).                                                       *)
THEOREM StopsWhatWasStarted == Spec => StopFollowsStart
<1>1. TypeOK /\ [Next]_vars =>
        [\A cursor \in Cursors : StartsOpenRange(cursor) =>
           LET i == StoppableRecord(records') IN
           i # None /\ records'[i].date = today /\ records'[i].open = <<minute>>]_vars
  BY StartStep
<1> QED BY <1>1, TimeTrackingTypeOK, PTL DEF Spec, StopFollowsStart

-------------------------------------------------------------------------------
(* Minutes.                                                                *)

(* A record that is counted, and will be, gains the minute that passes.    *)
LEMMA MinuteCounts ==
  ASSUME TypeOK, TimePasses, NEW i \in Indices, Counted(records[i]), records[i].date >= today' - 1
  PROVE  TotalOf(records[i])' = TotalOf(records[i]) + 1
<1> DEFINE r == records[i]
<1>1. /\ records' = records /\ today \in Int /\ minute \in Int /\ Day \in Nat /\ minute \in 0..(Day - 1)
      /\ \/ minute' = minute + 1 /\ today' = today
         \/ minute = Day - 1 /\ minute' = 0 /\ today' = today + 1
  BY TimeTrackingAssumption DEF TypeOK, TimePasses, TimeTrackingAssumption
<1>2. r \in Records
  <2>1. records \in Seq(Records) /\ i \in DOMAIN records
    BY DEF TypeOK, Records, Indices
  <2> QED
    BY <2>1
<1>3. r.date \in Int /\ r.closed \in Int /\ r.open \in Seq(Int)
  BY <1>2, TimeTrackingAssumption DEF Records, TimeTrackingAssumption
<1> HIDE DEF r
<1>4. IsOpen(r) /\ r.date \in {today, today - 1} /\ RunningUntil(r.date) >= r.open[1]
  BY DEF Counted, r
<1>5. r.open[1] \in Int
  BY <1>3, <1>4 DEF IsOpen
<1> DEFINE until == IF r.date = today' THEN minute' ELSE minute' + Day
<1>6. /\ r.date \in {today', today' - 1} /\ RunningUntil(r.date) \in Int
      /\ until = RunningUntil(r.date) + 1
  BY <1>1, <1>3, <1>4 DEF RunningUntil, r
<1>7. TotalOf(r) = r.closed + RunningUntil(r.date) - r.open[1]
  BY DEF TotalOf, r
<1>8. TotalOf(records[i])' = r.closed + until - r.open[1]
  <2>1. r.open[1] <= until /\ records'[i] = r
    BY <1>1, <1>4, <1>5, <1>6 DEF r
  <2>2. Counted(records[i])'
    BY <1>4, <1>6, <2>1 DEF Counted, IsOpen, RunningUntil
  <2> QED
    BY <2>1, <2>2 DEF TotalOf, RunningUntil
<1> HIDE DEF until
<1> QED
  BY <1>3, <1>5, <1>6, <1>7, <1>8 DEF r

(* No minute is lost and none is counted twice, also at midnight.          *)
THEOREM EveryMinuteIsCounted == Spec => MinutesAreCounted
<1>1. TypeOK /\ [Next]_vars =>
        [TimePasses => \A i \in Indices :
           Counted(records[i]) /\ records[i].date >= today' - 1 =>
             TotalOf(records[i])' = TotalOf(records[i]) + 1]_vars
  BY MinuteCounts
<1> QED BY <1>1, TimeTrackingTypeOK, PTL DEF Spec, MinutesAreCounted

-------------------------------------------------------------------------------
(* The totals that are shown.                                              *)

(* A step that is seen in hints is one of the file and the clock. *)
LEMMA HintsTypeOK == HintsSpec => []TypeOK
<1>1. HintsInit => TypeOK
  BY TimeTrackingAssumption DEF HintsInit, Init, TypeOK, TimeTrackingAssumption
<1>2. [HintsNext]_<<vars, hints, due>> => [Next]_vars
  BY DEF HintsNext, EditFile, MinutePasses, RefreshOnTick, Next, vars
<1> QED
  BY <1>1, <1>2, NextType, TimeTrackingAssumption, PTL DEF HintsSpec

(* What a total is made of. *)
TotalsAreTimes ==
  \A i \in Shown :
    /\ records[i].date \in Int /\ records[i].closed \in Int
    /\ IsOpen(records[i]) => records[i].open[1] \in Int
    /\ TotalOf(records[i]) \in Int /\ records[i].closed <= TotalOf(records[i])
    /\ ~Counted(records[i]) => TotalOf(records[i]) = records[i].closed

LEMMA TotalIs == TypeOK => TotalsAreTimes
<1> SUFFICES ASSUME TypeOK, NEW i \in Shown
             PROVE  /\ records[i].date \in Int /\ records[i].closed \in Int
                    /\ IsOpen(records[i]) => records[i].open[1] \in Int
                    /\ TotalOf(records[i]) \in Int /\ records[i].closed <= TotalOf(records[i])
                    /\ ~Counted(records[i]) => TotalOf(records[i]) = records[i].closed
  BY DEF TotalsAreTimes
<1> DEFINE r == records[i]
<1>1. i \in DOMAIN records /\ Len(r.open) <= 1
  BY DEF Shown, Indices
<1>2. r \in Records
  <2>1. records \in Seq(Records)
    BY DEF TypeOK, Records
  <2> QED
    BY <1>1, <2>1
<1>3. r.date \in Int /\ r.closed \in Int /\ r.open \in Seq(Int)
  BY <1>2, TimeTrackingAssumption DEF Records, TimeTrackingAssumption
<1>4. ASSUME IsOpen(r) PROVE r.open[1] \in Int
  <2>1. r.open # <<>>
    BY <1>4 DEF IsOpen
  <2> HIDE DEF r
  <2> QED
    BY <1>3, <2>1
<1>5. RunningUntil(r.date) \in Int
  BY TimeTrackingAssumption DEF RunningUntil, TypeOK, TimeTrackingAssumption
<1> HIDE DEF r
<1>6. CASE Counted(r)
  <2>1. IsOpen(r) /\ RunningUntil(r.date) >= r.open[1]
    BY <1>6 DEF Counted
  <2>2. TotalOf(r) = r.closed + RunningUntil(r.date) - r.open[1]
    BY <1>6 DEF TotalOf
  <2> QED
    BY <1>2, <1>3, <1>4, <1>5, <1>6, <2>1, <2>2 DEF r
<1>7. CASE ~Counted(r)
  <2>1. TotalOf(r) = r.closed
    BY <1>7 DEF TotalOf
  <2> QED
    BY <1>2, <1>3, <1>4, <1>7, <2>1 DEF r
<1> QED
  BY <1>6, <1>7

LEMMA NextTotalIs == TypeOK' => TotalsAreTimes'
BY TotalIs, PTL

(* In a minute, no total becomes less, unless its open range is too old.   *)
LEMMA MinuteAdds ==
  ASSUME TypeOK, TypeOK', TimePasses, NEW i \in Shown, ~TooOld(records[i])'
  PROVE  ~TooOld(records[i]) /\ TotalOf(records[i]) <= TotalOf(records[i])'
<1> DEFINE r == records[i]
<1>1. /\ r.date \in Int /\ r.closed \in Int /\ (IsOpen(r) => r.open[1] \in Int)
      /\ TotalOf(r) \in Int /\ (~Counted(r) => TotalOf(r) = r.closed)
  BY TotalIs DEF TotalsAreTimes
<1>2. /\ records' = records /\ today \in Int /\ minute \in Int /\ Day \in Nat /\ minute \in 0..(Day - 1)
      /\ \/ minute' = minute + 1 /\ today' = today
         \/ minute = Day - 1 /\ minute' = 0 /\ today' = today + 1
  BY TimeTrackingAssumption DEF TypeOK, TimePasses, TimeTrackingAssumption
<1>3. i \in Shown'
  BY <1>2 DEF Shown, Indices
<1>4. TotalOf(records[i])' \in Int /\ r.closed <= TotalOf(records[i])'
  <2>1. records'[i].closed \in Int /\ TotalOf(records[i])' \in Int /\ records'[i].closed <= TotalOf(records[i])'
    BY <1>3, NextTotalIs DEF TotalsAreTimes
  <2> QED
    BY <1>2, <2>1
<1>5. ~IsOpen(r) \/ r.date >= today' - 1
  <2>1. ~(IsOpen(r) /\ r.date < today' - 1)
    BY <1>2 DEF TooOld, IsOpen
  <2> QED
    BY <1>1, <1>2, <2>1
<1>6. ~TooOld(r)
  BY <1>1, <1>2, <1>5 DEF TooOld
<1>7. CASE ~Counted(r)
  BY <1>1, <1>4, <1>6, <1>7
<1>8. CASE Counted(r)
  <2>1. i \in Indices /\ IsOpen(r)
    BY <1>8 DEF Shown, Counted
  <2>2. TotalOf(records[i])' = TotalOf(r) + 1
    BY <1>5, <1>8, <2>1, MinuteCounts
  <2> QED
    BY <1>1, <1>6, <2>2
<1> QED
  BY <1>7, <1>8

HintsInv == OnlyOldHintsStay /\ \A i \in Shown : hints[i] \in Int

Fresh == hints = Totals

LEMMA FreshHints == TypeOK /\ Fresh => HintsInv
<1> SUFFICES ASSUME TypeOK, hints = Totals PROVE HintsInv
  BY DEF Fresh
<1>1. ASSUME NEW i \in Shown
      PROVE  /\ hints[i] = TotalOf(records[i]) /\ TotalOf(records[i]) <= TotalOf(records[i])
             /\ records[i].closed <= hints[i] /\ hints[i] \in Int
  <2>1. hints[i] = TotalOf(records[i])
    BY DEF Totals
  <2> QED
    BY <2>1, TotalIs DEF TotalsAreTimes
<1> QED
  BY <1>1, Zenon DEF OnlyOldHintsStay, HintsInv

LEMMA NextFreshHints == TypeOK' /\ Fresh' => HintsInv'
BY FreshHints, PTL

(* Which hints may be behind at all, though nobody asks for new ones.      *)
THEOREM HintsStayOnlyWhenOld == HintsSpec => []OnlyOldHintsStay
<1>1. HintsInit => HintsInv
  <2>1. HintsInit => TypeOK
    BY TimeTrackingAssumption DEF HintsInit, Init, TypeOK, TimeTrackingAssumption
  <2> QED
    BY <2>1, FreshHints DEF HintsInit, Fresh
<1>2. ASSUME TypeOK, TypeOK', HintsInv, [HintsNext]_<<vars, hints, due>>
      PROVE  HintsInv'
  <2>1. OnlyOldHintsStay /\ \A i \in Shown : hints[i] \in Int
    BY <1>2 DEF HintsInv
  <2>2. CASE EditFile
    BY <1>2, <2>2, NextFreshHints DEF EditFile, Fresh
  <2>3. CASE MinutePasses
    <3>1. ~due /\ due' = TRUE /\ hints' = hints /\ TimePasses /\ records' = records /\ Shown' = Shown
      BY <2>3 DEF MinutePasses, TimePasses, Shown, Indices
    <3>2. ASSUME NEW i \in Shown'
          PROVE  /\ records'[i].closed <= hints'[i]
                 /\ ~TooOld(records[i])' => hints'[i] <= TotalOf(records[i])'
      <4>1. i \in Shown
        BY <3>1
      <4>2. /\ records[i].closed <= hints[i]
            /\ ~TooOld(records[i]) => hints[i] = TotalOf(records[i])
        BY <2>1, <3>1, <4>1 DEF OnlyOldHintsStay
      <4>3. ASSUME ~TooOld(records[i])' PROVE hints'[i] <= TotalOf(records[i])'
        <5>1. ~TooOld(records[i]) /\ TotalOf(records[i]) <= TotalOf(records[i])'
          BY <1>2, <3>1, <4>1, <4>3, MinuteAdds
        <5> QED
          BY <3>1, <4>2, <5>1
      <4> QED
        BY <3>1, <4>2, <4>3
    <3> QED
      BY <2>1, <3>1, <3>2 DEF OnlyOldHintsStay, HintsInv
  <2>4. CASE RefreshOnTick
    <3>1. UNCHANGED vars
      BY <2>4 DEF RefreshOnTick, vars
    <3>2. CASE HasRunningOpenRange
      <4>1. hints' = Totals'
        BY <2>4, <3>1, <3>2 DEF RefreshOnTick, Totals, Shown, Indices, TotalOf, Counted, IsOpen, RunningUntil, vars
      <4> QED
        BY <1>2, <4>1, NextFreshHints DEF Fresh
    <3>3. CASE ~HasRunningOpenRange
      <4>1. hints' = hints
        BY <2>4, <3>3 DEF RefreshOnTick
      <4>2. ASSUME NEW i \in Shown
            PROVE  /\ records[i].closed <= hints[i]
                   /\ ~TooOld(records[i]) => hints[i] <= TotalOf(records[i]) /\ hints[i] = TotalOf(records[i])
        <5>1. /\ records[i].closed <= hints[i]
              /\ ~TooOld(records[i]) => hints[i] <= TotalOf(records[i])
          BY <2>1 DEF OnlyOldHintsStay
        <5>2. TotalOf(records[i]) = records[i].closed /\ records[i].closed \in Int /\ hints[i] \in Int
          BY <1>2, <2>1, <3>3, TotalIs DEF HasRunningOpenRange, TotalsAreTimes
        <5> QED
          BY <5>1, <5>2
      <4> QED
        BY <2>1, <3>1, <3>3, <4>1, <4>2
        DEF OnlyOldHintsStay, HintsInv, vars, HasRunningOpenRange, Shown, Indices, TooOld, TotalOf, Counted, IsOpen, RunningUntil
    <3> QED
      BY <3>2, <3>3
  <2>5. CASE UNCHANGED <<vars, hints, due>>
    BY <1>2, <2>5
    DEF OnlyOldHintsStay, HintsInv, vars, HasRunningOpenRange, Shown, Indices, Totals, TooOld, TotalOf, Counted, IsOpen, RunningUntil
  <2> QED
    BY <1>2, <2>2, <2>3, <2>4, <2>5 DEF HintsNext
<1> QED
  BY <1>1, <1>2, HintsTypeOK, PTL DEF HintsSpec, HintsInv
===============================================================================
