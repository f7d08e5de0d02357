------------------------------ MODULE MCWakeup ------------------------------
(* Wakeup on a small instance: two tenants with an event each. *)
EXTENDS Wakeup, TLC

CONSTANTS e1, e2, t1, t2

OneEach == e1 :> t1 @@ e2 :> t2
=============================================================================
