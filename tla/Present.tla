------------------------------ MODULE Present ------------------------------
(***************************************************************************)
(* The time by which the ticker's loop and the schedules it fires go.      *)
(***************************************************************************)
EXTENDS Null

CONSTANT MaxTime  \* bound on the clock

VARIABLE now
=============================================================================
