------------------------------ MODULE RunStore ------------------------------
(***************************************************************************)
(* The rows PostgreSQL holds for one run, and the transaction helpers (the *)
(* ...Tx functions of internal/execution) that the engine's handlers are   *)
(* built from.  A helper is an operator from rows to rows: it is what the  *)
(* function's statements leave behind when the transaction commits.        *)
(*                                                                         *)
(* A row that carries a deadline records whether database time has passed  *)
(* it: a timer is PENDING or DUE, an approval PENDING or OVERDUE, a lease  *)
(* lists the deadlines of its attempt that have gone by, and `clock` says  *)
(* where the run stands relative to its own deadline.                      *)
(***************************************************************************)
EXTENDS Integers, FiniteSets

CONSTANTS
  N,            \* the workflow has the nodes 1..N, in declaration order
  Kind,         \* node type
  After,        \* declared dependencies
  Recovery,     \* task recovery policy
  MergeOf,      \* the choice a merge node joins (0 for other nodes)
  Terminal,     \* the terminal node of each branch of a merge node
  Labels,       \* branch names
  MaxAttempts,  \* attempt budget of every task
  Workers       \* enrolled workers

Nodes == 1..N
Grants == Nodes \X (1..(MaxAttempts + 1))
NoLabel == "NONE"

Kinds == {"task", "delay", "approval", "choice", "merge"}
(* "unbounded" is an idempotent task that declares no idempotency window. *)
Policies == {"safe", "idempotent", "unbounded", "reconcile", "invalid"}

ASSUME WorkflowAssumption ==
  /\ N \in Nat \ {0}
  /\ Kind \in [Nodes -> Kinds]
  /\ After \in [Nodes -> SUBSET Nodes]
  /\ Recovery \in [Nodes -> Policies]
  /\ MergeOf \in [Nodes -> 0..N]
  /\ Terminal \in [Nodes -> [Labels -> 0..N]]
  /\ MaxAttempts \in Nat \ {0}
  /\ NoLabel \notin Labels
  /\ \A m \in Nodes : Kind[m] = "merge" =>
       MergeOf[m] \in Nodes /\ \A b \in Labels : Terminal[m][b] \in Nodes

TerminalRun == {"SUCCEEDED", "FAILED", "CANCELLED"}
RunStatus == TerminalRun \cup
  {"QUEUED", "RUNNING", "WAITING", "PAUSING", "PAUSED", "CANCELLING"}
WaitReason == {"NONE", "RETRY_BACKOFF", "DELAY", "RECONCILIATION",
               "RECOVERY_HANDOFF", "APPROVAL"}
RunReason == WaitReason \cup
  {"QUOTA_WAIT", "PAUSE_REQUESTED", "CANCEL_REQUESTED", "FAILURE"}
TerminalStep == {"SUCCEEDED", "FAILED", "CANCELLED", "SKIPPED"}
OpenStep == {"BLOCKED", "READY", "RUNNING", "WAITING"}
StepState == TerminalStep \cup OpenStep
LiveAttempt == {"CLAIMED", "RUNNING"}
AttemptStatus == LiveAttempt \cup
  {"NONE", "SUCCEEDED", "FAILED", "TIMED_OUT", "LOST", "CANCELLED"}
TimerState == {"NONE", "PENDING", "DUE"}
ApprovalState == {"NONE", "PENDING", "OVERDUE", "APPROVED", "REJECTED",
                  "EXPIRED", "CANCELLED"}
StopState == {"NONE", "SENT", "ACKED", "CONFIRMED"}
WorkerStatus == {"ACTIVE", "DRAINING", "REVOKED"}

StepStates == [Nodes -> StepState]
StepWaits == [Nodes -> WaitReason]
Counts == [Nodes -> Nat]
Branches == [Nodes -> Labels \cup {NoLabel}]
Windows == [Nodes -> {"UNSET", "OPEN", "CLOSED"}]
Timers == [Nodes -> TimerState]
Approvals == [Nodes -> ApprovalState]
PastDeadlines == [Nodes -> SUBSET {"start", "lease", "attempt"}]
Attempts == [Grants -> AttemptStatus]
GrantSets == SUBSET Grants
Owners == [Grants -> (Workers \cup {"none"}) \X Nat]
Stops == [Grants -> StopState]
Sessions == [Workers -> Nat]
WorkerSets == SUBSET Workers
WorkerStates == [Workers -> WorkerStatus]
EventCount == 0..2
RunClock == {"early", "late", "over"}

Rows == [status : RunStatus, reason : RunReason, pause : BOOLEAN,
         confirmed : BOOLEAN, ends : EventCount, clock : RunClock,
         state : StepStates, wait : StepWaits, next : Counts, chosen : Branches,
         window : Windows, retry : Timers, delay : Timers, appr : Approvals,
         cases : Counts, lease : Counts, late : PastDeadlines, att : Attempts,
         started : GrantSets, owner : Owners, stop : Stops, grace : BOOLEAN,
         sess : Sessions, on : WorkerSets, worker : WorkerStates]

-----------------------------------------------------------------------------
(* Queries the helpers share. *)

Live(d) == {g \in Grants : d.att[g] \in LiveAttempt}
InState(d, S) == {s \in Nodes : d.state[s] \in S}
Pending(timers) == {s \in Nodes : timers[s] # "NONE"}
Undecided(d) == {s \in Nodes : d.appr[s] \in {"PENDING", "OVERDUE"}}
OpenCases(d) == {s \in Nodes : d.cases[s] > 0}
Idempotent(s) == Recovery[s] \in {"idempotent", "unbounded"}
NoTimers == [s \in Nodes |-> "NONE"]

(* A terminal event is appended; the count saturates at two. *)
Ended(n) == IF n < 2 THEN n + 1 ELSE 2

(* The steps of S in one of the states From move to `to`, and wait for r:  *)
(* a step that does not wait has no wait reason in the model.              *)
Move(d, S, From, to, r) ==
  [d EXCEPT
    !.state = [s \in Nodes |-> IF s \in S /\ d.state[s] \in From
                               THEN to ELSE d.state[s]],
    !.wait = [s \in Nodes |-> IF s \in S /\ d.state[s] \in From
                              THEN r ELSE d.wait[s]]]

(* A mutant: the attempts end and their leases stay. *)
CloseAttempts_leasesKept(d, G, a) ==
  [d EXCEPT !.att = [g \in Grants |-> IF g \in G THEN a ELSE d.att[g]]]

(* The attempts in G end with status a, and the leases they hold go. *)
CloseAttempts(d, G, a) ==
  [d EXCEPT
    !.att = [g \in Grants |-> IF g \in G THEN a ELSE d.att[g]],
    !.lease = [s \in Nodes |-> IF <<s, d.lease[s]>> \in G THEN 0 ELSE d.lease[s]],
    !.late = [s \in Nodes |-> IF <<s, d.lease[s]>> \in G THEN {} ELSE d.late[s]]]

-----------------------------------------------------------------------------
(* Retry guards (retry.go). *)

HasRetryBudget(d, s) == d.next[s] <= MaxAttempts

RequiresReconciliation(s, unknown) == Recovery[s] = "reconcile" /\ unknown

CanScheduleRetry(d) ==
  \/ d.status \in {"QUEUED", "RUNNING", "PAUSING", "PAUSED"}
  \/ d.status = "WAITING" /\ d.reason # "RECONCILIATION"

CanFireRetry(d) ==
  \/ d.status \in {"QUEUED", "RUNNING"}
  \/ d.status = "WAITING" /\ d.reason \in {"RETRY_BACKOFF", "NONE"}

-----------------------------------------------------------------------------
(* Reconciliation holds. *)

routeStepToReconciliationTx(d, s) ==
  LET held == d.status \in {"QUEUED", "RUNNING", "WAITING"} /\ Live(d) = {}
  IN [d EXCEPT !.state[s] = "WAITING", !.wait[s] = "RECONCILIATION",
               !.cases[s] = @ + 1,
               !.status = IF held THEN "WAITING" ELSE @,
               !.reason = IF held THEN "RECONCILIATION" ELSE @]

closeOpenCasesTx(d) == [d EXCEPT !.cases = [s \in Nodes |-> 0]]

settleHoldAfterCompletionTx(d) ==
  IF /\ d.status \notin TerminalRun \cup {"CANCELLING", "PAUSING", "PAUSED"}
     /\ OpenCases(d) # {}
     /\ Live(d) = {}
  THEN [d EXCEPT !.status = "WAITING", !.reason = "RECONCILIATION"]
  ELSE d

(* What a resolution leaves of the hold once no case of the run is open. *)
releaseHoldTx(d, action) ==
  IF d.status # "WAITING" \/ d.reason # "RECONCILIATION" THEN d
  ELSE IF action = "retry" THEN [d EXCEPT !.reason = "RETRY_BACKOFF"]
  ELSE [d EXCEPT !.status = IF d.started = {} THEN "QUEUED" ELSE "RUNNING",
                 !.reason = "NONE"]

-----------------------------------------------------------------------------
(* Run status. *)

settlePauseAfterCompletionTx(d) ==
  IF d.pause /\ d.status = "PAUSING" /\ Live(d) = {}
  THEN [d EXCEPT !.status = "PAUSED"]
  ELSE d

recomputeRunStatusForRetryTx(d) ==
  IF Live(d) # {} \/ InState(d, {"READY", "RUNNING"}) # {}
  THEN IF d.status \in {"QUEUED", "RUNNING", "WAITING"}
       THEN [d EXCEPT !.status = "RUNNING", !.reason = "NONE"]
       ELSE d
  ELSE IF d.status \in {"QUEUED", "RUNNING"}
       THEN [d EXCEPT !.status = "WAITING", !.reason = "RETRY_BACKOFF"]
       ELSE d

recomputeRunStatusForDelayTx(d) ==
  IF InState(d, {"READY", "RUNNING"}) # {}
  THEN IF d.status \in {"QUEUED", "RUNNING", "WAITING"}
       THEN [d EXCEPT
              !.status = IF InState(d, {"RUNNING"}) # {} THEN "RUNNING" ELSE "QUEUED",
              !.reason = "NONE"]
       ELSE d
  ELSE IF d.status \in {"QUEUED", "RUNNING"} /\ Pending(d.delay) # {}
       THEN [d EXCEPT !.status = "WAITING", !.reason = "DELAY"]
       ELSE d

(* The reasons durableWaitReasonForRunTx may name: the WAITING step it    *)
(* reads is the first in the order of the random step ids.                *)
durableWaitReasonForRunTx(d) ==
  LET waits == {d.wait[s] : s \in InState(d, {"WAITING"})} \ {"NONE"}
  IN IF Undecided(d) # {} \/ waits = {} THEN {"APPROVAL"} ELSE waits

recomputeRunStatusAfterControlTx(d, why) ==
  LET work == \/ Live(d) # {}
              \/ \E s \in Nodes : Kind[s] = "task" /\ d.state[s] = "READY"
  IN IF d.status \in TerminalRun \cup {"CANCELLING"} \/ InState(d, OpenStep) = {}
     THEN d
     ELSE [d EXCEPT !.status = IF work THEN "RUNNING" ELSE "WAITING",
                    !.reason = IF work THEN "NONE" ELSE why]

(* Every node terminal: the run settles, once.  `ok` is whether the final *)
(* output maps and fits its schema; `states` is the caller's view.        *)
settleRunTerminalTx(d, states, ok) ==
  LET all(S) == \A s \in Nodes : states[s] \in S
  IN IF ~all(TerminalStep) \/ d.status \in TerminalRun THEN d
     ELSE IF ok /\ all({"SUCCEEDED", "SKIPPED"})
     THEN [d EXCEPT !.status = "SUCCEEDED", !.reason = "NONE", !.ends = Ended(@)]
     ELSE [d EXCEPT !.status = "FAILED", !.reason = "FAILURE", !.ends = Ended(@)]

-----------------------------------------------------------------------------
(* Fail-fast, cancellation and the settlement of a run that is overdue. *)

StopLive(d) ==
  [d EXCEPT !.stop = [g \in Grants |-> IF g \in Live(d) THEN "SENT" ELSE d.stop[g]]]

(* A mutant: the timers of delay nodes are forgotten. *)
CancelTimers_retriesOnly(d) == [d EXCEPT !.retry = NoTimers]

CancelTimers(d) == [d EXCEPT !.retry = NoTimers, !.delay = NoTimers]

RunFailed(d) ==
  [d EXCEPT !.status = "FAILED", !.reason = "FAILURE", !.ends = Ended(@)]

(* The step fails whatever its state; every other open step is cancelled. *)
FailStep(d, s, From) ==
  Move(Move(d, {s}, StepState, "FAILED", "NONE"),
       Nodes \ {s}, From, "CANCELLED", "NONE")

(* A mutant: every other step is cancelled, the finished ones too. *)
failRunForStepTx_allSteps(d, s) ==
  RunFailed(CancelTimers(closeOpenCasesTx(
    FailStep(CloseAttempts(StopLive(d), Live(d), "CANCELLED"), s, StepState))))

failRunForStepTx(d, s) ==
  RunFailed(CancelTimers(closeOpenCasesTx(
    FailStep(CloseAttempts(StopLive(d), Live(d), "CANCELLED"), s, OpenStep))))

(* The event budget is spent: RUNNING steps and their attempts are left.  *)
historyLimitTx(d) ==
  RunFailed(Move(d, Nodes, {"BLOCKED", "READY", "WAITING"}, "CANCELLED", "NONE"))

failOverdueRunWithoutStepsTx(d) ==
  LET e == CancelTimers(closeOpenCasesTx(d))
  IN IF d.status \in TerminalRun THEN e ELSE RunFailed(e)

(* The step a run-deadline failure is charged to is the first open one in *)
(* the order of the random step ids: any of them.                         *)
settleExpiredRun(d, s) ==
  IF s \in InState(d, OpenStep) THEN failRunForStepTx(d, s)
  ELSE failOverdueRunWithoutStepsTx(d)

ChargeableSteps(d) ==
  IF InState(d, OpenStep) = {} THEN {1} ELSE InState(d, OpenStep)

(* A mutant: an acknowledgement counts as a confirmed stop. *)
settleCancellingRunTx_anyAck(d) ==
  IF \/ d.status # "CANCELLING"
     \/ ~d.grace /\ \E g \in Grants : d.stop[g] = "SENT"
  THEN d
  ELSE [d EXCEPT !.status = "CANCELLED", !.ends = Ended(@),
                 !.confirmed = \A g \in Grants : d.stop[g] # "SENT"]

settleCancellingRunTx(d) ==
  IF \/ d.status # "CANCELLING"
     \/ ~d.grace /\ \E g \in Grants : d.stop[g] = "SENT"
  THEN d
  ELSE [d EXCEPT !.status = "CANCELLED", !.ends = Ended(@),
                 !.confirmed = \A g \in Grants : d.stop[g] \in {"NONE", "CONFIRMED"}]

(* A mutant: attempts are told to stop and keep their leases. *)
cancelRunTx_attemptsKept(d) ==
  LET live == Live(d)
      e == CancelTimers(closeOpenCasesTx(
             Move(StopLive(d),
                  Nodes, OpenStep, "CANCELLED", "NONE")))
  IN [e EXCEPT
       !.appr = [s \in Nodes |-> IF s \in Undecided(d) THEN "CANCELLED" ELSE d.appr[s]],
       !.status = IF live = {} THEN "CANCELLED" ELSE "CANCELLING",
       !.reason = "CANCEL_REQUESTED", !.confirmed = (live = {}),
       !.ends = IF live = {} THEN Ended(@) ELSE @, !.grace = FALSE]

(* A mutant: approvals stay open. *)
cancelRunTx_approvalsKept(d) ==
  LET live == Live(d)
      e == CancelTimers(closeOpenCasesTx(
             Move(CloseAttempts(StopLive(d), live, "CANCELLED"),
                  Nodes, OpenStep, "CANCELLED", "NONE")))
  IN [e EXCEPT
       !.status = IF live = {} THEN "CANCELLED" ELSE "CANCELLING",
       !.reason = "CANCEL_REQUESTED", !.confirmed = (live = {}),
       !.ends = IF live = {} THEN Ended(@) ELSE @, !.grace = FALSE]

cancelRunTx(d) ==
  LET live == Live(d)
      e == CancelTimers(closeOpenCasesTx(
             Move(CloseAttempts(StopLive(d), live, "CANCELLED"),
                  Nodes, OpenStep, "CANCELLED", "NONE")))
  IN [e EXCEPT
       !.appr = [s \in Nodes |-> IF s \in Undecided(d) THEN "CANCELLED" ELSE d.appr[s]],
       !.status = IF live = {} THEN "CANCELLED" ELSE "CANCELLING",
       !.reason = "CANCEL_REQUESTED",
       !.confirmed = (live = {}),
       !.ends = IF live = {} THEN Ended(@) ELSE @,
       !.grace = FALSE]

-----------------------------------------------------------------------------
(* Retries. *)

scheduleRetryTx(d, s) ==
  recomputeRunStatusForRetryTx(
    [d EXCEPT !.retry[s] = IF @ = "NONE" THEN "PENDING" ELSE @,
              !.state[s] = "WAITING", !.wait[s] = "RETRY_BACKOFF"])

(* scheduleRetryOrHoldTx and the caller's failRunForStepTx on "fail".  An *)
(* error is [fatal, retryable, unknown]: a non-retryable code, the        *)
(* worker's retryable flag, and an effect status that is UNKNOWN.         *)
scheduleRetryOrHoldTx(d, s, err) ==
  IF \/ d.status \in TerminalRun \cup {"CANCELLING"}
     \/ ~CanScheduleRetry(d)
     \/ err.fatal
     \/ Recovery[s] = "invalid"
  THEN failRunForStepTx(d, s)
  ELSE IF RequiresReconciliation(s, err.unknown) THEN routeStepToReconciliationTx(d, s)
  ELSE IF ~err.retryable \/ ~HasRetryBudget(d, s) THEN failRunForStepTx(d, s)
  ELSE IF Idempotent(s) /\ d.window[s] # "OPEN" THEN routeStepToReconciliationTx(d, s)
  ELSE IF d.clock # "early" THEN failRunForStepTx(d, s)
  ELSE scheduleRetryTx(d, s)

(* A mutant: the timer is joined to the run, not to its step. *)
fireDueRetryTimersTx_wholeRun(d) ==
  IF (\A s \in Nodes : d.retry[s] # "DUE") \/ ~CanFireRetry(d) THEN d
  ELSE [Move(d, Nodes, {"WAITING"}, "READY", "NONE") EXCEPT
         !.retry = [s \in Nodes |-> IF d.retry[s] = "DUE" THEN "NONE" ELSE d.retry[s]],
         !.status = "RUNNING", !.reason = "NONE"]

(* Every due retry of a run that may fire them becomes READY. *)
fireDueRetryTimersTx(d) ==
  LET due == {s \in Nodes : /\ d.retry[s] = "DUE"
                            /\ d.state[s] = "WAITING" /\ d.wait[s] = "RETRY_BACKOFF"}
      free == d.status = "WAITING" /\ d.reason = "RETRY_BACKOFF"
  IN IF due = {} \/ ~CanFireRetry(d) \/ d.clock = "over" THEN d
     ELSE [Move(d, due, {"WAITING"}, "READY", "NONE") EXCEPT
            !.retry = [s \in Nodes |-> IF s \in due THEN "NONE" ELSE d.retry[s]],
            !.status = IF ~free THEN @ ELSE IF d.started = {} THEN "QUEUED" ELSE "RUNNING",
            !.reason = IF free THEN "NONE" ELSE @]

-----------------------------------------------------------------------------
(* Lost ownership: worker fencing and the expired-lease sweep. *)

FenceWorkerSessions(d, w) ==
  LET lost == {g \in Live(d) : d.owner[g] = <<w, d.sess[w]>> /\ w \in d.on}
      steps == {s \in Nodes : \E g \in lost : g = <<s, d.next[s] - 1>>}
      e == Move(CloseAttempts(d, lost, "LOST"), steps, {"RUNNING"},
                "WAITING", "RECOVERY_HANDOFF")
      parked == lost # {} /\ d.status \in {"QUEUED", "RUNNING"}
  IN [e EXCEPT !.status = IF parked THEN "WAITING" ELSE @,
               !.reason = IF parked THEN "RECOVERY_HANDOFF" ELSE @]

(* The runs both scans of the sweep look at. *)
Swept(d) == \/ d.status \in {"QUEUED", "RUNNING", "PAUSING"}
            \/ d.status = "WAITING" /\ d.reason = "RECOVERY_HANDOFF"

ExpiredAttempts(d) ==
  {g \in Live(d) :
     /\ Swept(d)
     /\ \/ d.clock = "over"
        \/ d.att[g] = "CLAIMED" /\ (d.lease[g[1]] # g[2] \/ "start" \in d.late[g[1]])
        \/ d.lease[g[1]] = g[2] /\ "lease" \in d.late[g[1]]
        \/ d.att[g] = "RUNNING" /\ "attempt" \in d.late[g[1]]}

Handoffs(d) ==
  {s \in Nodes : Swept(d) /\ d.state[s] = "WAITING" /\ d.wait[s] = "RECOVERY_HANDOFF"}

(* The run deadline found by the sweep: everything open is cancelled. *)
overdueRunTx(d) ==
  RunFailed(CancelTimers(closeOpenCasesTx(
    Move(d, Nodes, OpenStep, "CANCELLED", "NONE"))))

(* A candidate that an earlier one of the same sweep settled is stale. *)
Reclaimable(d, g) ==
  /\ d.status \notin TerminalRun \cup {"CANCELLING", "PAUSED"}
  /\ d.state[g[1]] \notin TerminalStep
  /\ g \in Live(d)

(* A mutant: the lease is deleted, the attempt not marked LOST. *)
reclaimAttemptTx_leaseOnly(d, g) ==
  scheduleRetryOrHoldTx([d EXCEPT !.lease[g[1]] = 0, !.late[g[1]] = {}], g[1],
    [fatal |-> FALSE, retryable |-> TRUE, unknown |-> d.att[g] = "RUNNING"])

(* A mutant: a started attempt that is lost counts as not applied. *)
reclaimAttemptTx_notApplied(d, g) ==
  scheduleRetryOrHoldTx(CloseAttempts(d, {g}, "LOST"), g[1],
    [fatal |-> FALSE, retryable |-> TRUE, unknown |-> FALSE])

reclaimAttemptTx(d, g) ==
  LET s == g[1]
      started == d.att[g] = "RUNNING"
      a == IF d.clock # "over" /\ started /\ "attempt" \in d.late[s]
           THEN "TIMED_OUT" ELSE "LOST"
      e == [CloseAttempts(d, {g}, a) EXCEPT !.lease[s] = 0]
  IN IF d.clock = "over" THEN overdueRunTx(e)
     ELSE scheduleRetryOrHoldTx(e, s,
            [fatal |-> FALSE, retryable |-> TRUE, unknown |-> started])

reclaimHandoffTx(d, s, everStarted) ==
  IF d.clock = "over" THEN overdueRunTx(d)
  ELSE IF d.next[s] <= MaxAttempts
  THEN LET free == d.status = "WAITING" /\ d.reason = "RECOVERY_HANDOFF"
           mine == d.state[s] = "WAITING" /\ d.wait[s] = "RECOVERY_HANDOFF"
       IN [(IF mine THEN Move(d, {s}, {"WAITING"}, "READY", "NONE") ELSE d) EXCEPT
            !.status = IF ~free THEN @ ELSE IF everStarted THEN "RUNNING" ELSE "QUEUED",
            !.reason = IF free THEN "NONE" ELSE @]
  ELSE RunFailed(FailStep(d, s, {"BLOCKED", "READY", "WAITING"}))
=============================================================================
