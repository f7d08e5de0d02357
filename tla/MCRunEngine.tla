---------------------------- MODULE MCRunEngine ----------------------------
(***************************************************************************)
(* Instances of RunEngine for TLC: small workflows, and the results their  *)
(* workers report.                                                         *)
(***************************************************************************)
EXTENDS RunProps, TLC

Tasks(n) == [s \in 1..n |-> "task"]
NoMerge(n) == [s \in 1..n |-> 0]
NoTerminal(n) == [s \in 1..n |-> [b \in Labels |-> 0]]

(* Two tasks without dependencies. *)
PairKind == Tasks(2)
PairAfter == [s \in 1..2 |-> {}]
PairMerge == NoMerge(2)
PairTerminal == NoTerminal(2)
PairSafe == [s \in 1..2 |-> "safe"]
PairReconcile == <<"reconcile", "safe">>
PairWindow == <<"idempotent", "unbounded">>
PairHold == <<"reconcile", "idempotent">>

(* A delay, and a task after it. *)
LateKind == <<"delay", "task">>
LateAfter == <<{}, {1}>>

(* A task and a delay side by side, and a task that needs the delay. *)
DelayKind == <<"task", "delay", "task">>
DelayAfter == <<{}, {}, {2}>>

(* A task and an approval side by side, and a task that needs the approval. *)
ApprovalKind == <<"task", "approval", "task">>
ApprovalAfter == <<{}, {}, {2}>>

(* A choice between a second choice, of a task or a delay, and an          *)
(* approval; beside it, a task.                                            *)
GraphKind ==
  <<"choice", "choice", "task", "delay", "merge", "approval", "merge", "task">>
GraphAfter == <<{}, {1}, {2}, {2}, {3, 4}, {1}, {5, 6}, {}>>
GraphMerge == <<0, 0, 0, 0, 2, 0, 1, 0>>
GraphTerminal ==
  [s \in 1..8 |-> CASE s = 5 -> [a |-> 3, b |-> 4]
                    [] s = 7 -> [a |-> 5, b |-> 6]
                    [] OTHER -> [a |-> 0, b |-> 0]]

(* A task, then an approval and a second task side by side. *)
FanApprovalKind == <<"task", "approval", "task">>
FanApprovalAfter == <<{}, {1}, {1}>>

AllSafe(n) == [s \in 1..n |-> "safe"]
TrioSafe == AllSafe(3)
TrioMerge == NoMerge(3)
TrioTerminal == NoTerminal(3)
GraphSafe == AllSafe(8)

(* One report of each kind the retry guards tell apart. *)
Retryable == [as |-> "FAILED", fatal |-> FALSE, retryable |-> TRUE, unknown |-> FALSE]
Ambiguous == [as |-> "TIMED_OUT", fatal |-> FALSE, retryable |-> TRUE, unknown |-> TRUE]
Fatal == [as |-> "FAILED", fatal |-> TRUE, retryable |-> FALSE, unknown |-> FALSE]
Cancelled == [as |-> "CANCELLED", fatal |-> FALSE, retryable |-> FALSE, unknown |-> TRUE]
AllReports == {Retryable, Ambiguous, Fatal, Cancelled}
RetryableOnly == {Retryable}
NoReports == {}

Symmetry == Permutations(Workers)
=============================================================================
