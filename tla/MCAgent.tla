------------------------------ MODULE MCAgent ------------------------------
(***************************************************************************)
(* Agent on small instances: one attempt that meets two troubles, or two   *)
(* attempts, side by side or one after the other, when the session is      *)
(* renewed.                                                                *)
(***************************************************************************)
EXTENDS Agent
CONSTANTS a1, a2

Pairs ==
  {{"session", "loss"}, {"session", "stop"}, {"session", "revoke"}, {"loss", "stop"},
   {"loss", "revoke"}, {"stop", "revoke"}, {"session", "interrupt"}, {"revoke", "interrupt"}}

Alone == {[work |-> {a1}, slots |-> 1, ahead |-> p] : p \in Pairs}
Together == {[work |-> {a1, a2}, slots |-> n, ahead |-> {"session"}] : n \in 1..2}
MCScenarios == Alone \cup Together
=============================================================================
