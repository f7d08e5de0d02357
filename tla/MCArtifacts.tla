---------------------------- MODULE MCArtifacts ----------------------------
(* Artifacts on a small instance.  One artifact meets both sweepers and      *)
(* every fault; two artifacts meet one sweeper, the quota and the batch      *)
(* limit.                                                                    *)
EXTENDS Artifacts

CONSTANTS w1, w2

Up == {w \in Sweepers : sweep[w] = Idle}

Producing == {a \in Arts : attempt[a] = "waiting"}

Alone == now = 0 /\ Producing = {1} /\ Up = Sweepers /\ damages = 1 /\ faults = 1
         /\ size = [a \in Arts |-> 1]

Together == now = 1 /\ Producing = Arts /\ Up = {w1} /\ damages = 0 /\ faults = 1

MCInit == Init /\ (Alone \/ Together)

MCSpec == MCInit /\ [][Next]_vars /\ Fairness
=============================================================================
