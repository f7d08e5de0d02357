---------------------------- MODULE MCSchedules ----------------------------
(* Schedules on a small instance: two definitions and a clock that is put   *)
(* back, so that two wall-clock minutes come twice.                         *)
EXTENDS Schedules, TLC

CONSTANTS d1, d2

\* A clock that is put back two minutes after minute 3.
PutBack == [u \in 0..Horizon |-> IF u <= 3 THEN u ELSE u - 2]

MatchingOf == d1 :> {1, 2, 3, 4} @@ d2 :> {2, 3}
=============================================================================
