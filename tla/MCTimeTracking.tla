---------------------------- MODULE MCTimeTracking ----------------------------
(***************************************************************************)
(* TimeTracking with days of two minutes, for TLC: an open range that is   *)
(* written by hand may start on the day before ("<"), on its day, or on    *)
(* the day after (">"). An entry takes a minute away, or adds one.          *)
(***************************************************************************)
EXTENDS TimeTracking

MCStarts == {-1, 2}
MCDurations == {-1, 1}
MCMinTotal == -1
===============================================================================
