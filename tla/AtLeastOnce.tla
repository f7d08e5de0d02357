----------------------------- MODULE AtLeastOnce -----------------------------
(***************************************************************************)
(* What the outbox promises the rest of the system, without dispatchers,    *)
(* claims, brokers or crashes.  A committed event is owed; it is sent when  *)
(* the broker has accepted it, which may happen again and again; it is      *)
(* settled only after it was sent, and for good.  An event that can never   *)
(* be sent is refused instead, and only such an event is.                   *)
(***************************************************************************)
CONSTANTS Events,    \* outbox event identifiers
          Malformed  \* those whose payload no hint can be built from

VARIABLE stage       \* where each event is

Stages == {"new", "owed", "sent", "settled", "refused"}

Init == stage = [e \in Events |-> "new"]

Owe(e) == stage[e] = "new" /\ stage' = [stage EXCEPT ![e] = "owed"]

Send(e) ==
  /\ stage[e] = "owed" /\ e \notin Malformed
  /\ stage' = [stage EXCEPT ![e] = "sent"]

Settle(e) == stage[e] = "sent" /\ stage' = [stage EXCEPT ![e] = "settled"]

Refuse(e) ==
  /\ stage[e] = "owed" /\ e \in Malformed
  /\ stage' = [stage EXCEPT ![e] = "refused"]

Next == \E e \in Events : Owe(e) \/ Send(e) \/ Settle(e) \/ Refuse(e)

Spec == Init /\ [][Next]_stage
=============================================================================
