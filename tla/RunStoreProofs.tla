--------------------------- MODULE RunStoreProofs ---------------------------
(***************************************************************************)
(* Every transaction helper of RunStore keeps the rows well typed and      *)
(* Owned.  One lemma per helper, named after it; a helper that does not    *)
(* touch what ownership is about is covered by SameGood, one that moves    *)
(* steps by MoveGood, one that ends attempts by CloseGood.                 *)
(***************************************************************************)
EXTENDS RunProps, TLAPS

(* Well-typed rows with sound ownership. *)
Good(d) == d \in Rows /\ Owned(d)

(* d and e agree on everything ownership is about. *)
Same(d, e) ==
  /\ e.state = d.state /\ e.wait = d.wait /\ e.next = d.next
  /\ e.window = d.window /\ e.lease = d.lease /\ e.att = d.att

(* No attempt of step s is alive. *)
Unowned(d, s) == \A g \in Live(d) : g[1] # s

(* A grant is a node and an attempt number. *)
LEMMA GrantFacts ==
  ASSUME NEW g \in Grants
  PROVE  g[1] \in Nodes /\ g[2] \in 1..(MaxAttempts + 1) /\ g = <<g[1], g[2]>>
BY DEF Grants

(* The types of the fields that ownership reads, one by one. *)
LEMMA RowTypes ==
  ASSUME NEW d \in Rows
  PROVE  /\ d.status \in RunStatus /\ d.reason \in RunReason
         /\ d.state \in [Nodes -> StepState] /\ d.wait \in [Nodes -> WaitReason]
         /\ d.next \in [Nodes -> Nat] /\ d.lease \in [Nodes -> Nat]
         /\ d.att \in [Grants -> AttemptStatus]
         /\ d.window \in [Nodes -> {"UNSET", "OPEN", "CLOSED"}]
BY DEF Rows, StepStates, StepWaits, Counts, Attempts, Windows

(* Rows that agree with Owned rows on steps, leases and attempts are       *)
(* Owned.                                                                  *)
LEMMA SameOwned ==
  ASSUME NEW d \in Rows, NEW e \in Rows, Owned(d), Same(d, e)
  PROVE  Owned(e)
<1>1. Live(e) = Live(d)
  BY DEF Same, Live
<1> QED BY <1>1 DEF Same, Owned, OnHold, HeldAtClaim

(* The same for well-typed rows: the lemma behind every helper that only   *)
(* changes run status, timers, cases or approvals.                         *)
LEMMA SameGood ==
  ASSUME NEW d, NEW e, Good(d), e \in Rows, Same(d, e)
  PROVE  Good(e)
BY SameOwned DEF Good

(* Moving steps is sound when they become terminal, or when nobody owns    *)
(* them and the budget allows the attempt they may now get.                *)
LEMMA MoveGood ==
  ASSUME NEW d, Good(d), NEW S, NEW From, NEW to \in StepState, NEW r \in WaitReason,
         \A s \in S \cap Nodes : d.state[s] \in From =>
           \/ to \in TerminalStep
           \/ /\ Unowned(d, s) /\ to \in {"READY", "WAITING"}
              /\ to = "READY" \/ r = "RETRY_BACKOFF" => d.next[s] <= MaxAttempts
  PROVE  Good(Move(d, S, From, to, r))
<1> DEFINE st == [s \in Nodes |-> IF s \in S /\ d.state[s] \in From
                                  THEN to ELSE d.state[s]]
           wt == [s \in Nodes |-> IF s \in S /\ d.state[s] \in From
                                  THEN r ELSE d.wait[s]]
           e == [d EXCEPT !.state = st, !.wait = wt]
<1>0. d \in Rows /\ Owned(d)
  BY DEF Good
<1>1. st \in StepStates /\ wt \in StepWaits
  BY <1>0, RowTypes DEF StepStates, StepWaits
<1>2. Move(d, S, From, to, r) = e
  BY DEF Move
<1> HIDE DEF st, wt
<1>3. /\ e \in Rows /\ e.state = st /\ e.wait = wt /\ e.next = d.next
      /\ e.window = d.window /\ e.lease = d.lease /\ e.att = d.att
  BY <1>0, <1>1, Zenon DEF Rows
<1> HIDE DEF e
<1>4. Live(e) = Live(d)
  BY <1>3 DEF Live
<1>5. ASSUME NEW s \in Nodes
      PROVE  \/ e.state[s] = d.state[s] /\ e.wait[s] = d.wait[s]
             \/ e.state[s] \in TerminalStep
             \/ /\ Unowned(d, s) /\ e.state[s] \in {"READY", "WAITING"}
                /\ e.state[s] = "READY" \/ e.wait[s] = "RETRY_BACKOFF"
                   => d.next[s] <= MaxAttempts
  BY <1>3, <1>5 DEF st, wt
<1>6. ASSUME NEW g \in Live(d)
      PROVE  /\ g[2] = e.next[g[1]] - 1 /\ e.lease[g[1]] = g[2]
             /\ \/ e.state[g[1]] \in TerminalStep \cup {"RUNNING"}
                \/ OnHold(e, g[1]) /\ HeldAtClaim(e, g[1])
  <2>1. g[1] \in Nodes
    BY GrantFacts DEF Live
  <2>2. ~Unowned(d, g[1])
    BY DEF Unowned
  <2> QED BY <1>0, <1>3, <1>5, <2>1, <2>2 DEF Owned, OnHold, HeldAtClaim
<1>7. ASSUME NEW s \in Nodes
      PROVE  /\ e.lease[s] # 0 => <<s, e.lease[s]>> \in Live(d)
             /\ e.next[s] >= 1 /\ e.next[s] <= MaxAttempts + 1
             /\ e.state[s] = "BLOCKED" => e.next[s] = 1
             /\ \/ e.state[s] = "READY"
                \/ e.state[s] = "WAITING" /\ e.wait[s] = "RETRY_BACKOFF"
                => e.next[s] <= MaxAttempts
  BY <1>0, <1>3, <1>5 DEF Owned, TerminalStep
<1> QED BY <1>2, <1>3, <1>4, <1>6, <1>7 DEF Good, Owned

(* Ending attempts with their leases is sound, ends just those, and leaves *)
(* the rest of the rows alone.                                             *)
LEMMA CloseGood ==
  ASSUME NEW d, Good(d), NEW G, NEW a \in AttemptStatus \ LiveAttempt
  PROVE  LET e == CloseAttempts(d, G, a)
         IN /\ Good(e) /\ Live(e) = Live(d) \ G
            /\ e.status = d.status /\ e.clock = d.clock /\ e.state = d.state
            /\ e.wait = d.wait /\ e.next = d.next /\ e.window = d.window
            /\ e.started = d.started
<1> DEFINE x == [g \in Grants |-> IF g \in G THEN a ELSE d.att[g]]
           y == [s \in Nodes |-> IF <<s, d.lease[s]>> \in G THEN 0 ELSE d.lease[s]]
           z == [s \in Nodes |-> IF <<s, d.lease[s]>> \in G THEN {} ELSE d.late[s]]
           e == [d EXCEPT !.att = x, !.lease = y, !.late = z]
<1>0. d \in Rows /\ Owned(d)
  BY DEF Good
<1>1. x \in Attempts /\ y \in Counts
  BY <1>0, RowTypes DEF Attempts, Counts
<1>2. z \in PastDeadlines
  BY <1>0 DEF Rows, PastDeadlines
<1>3. CloseAttempts(d, G, a) = e
  BY DEF CloseAttempts
<1> HIDE DEF x, y, z
<1>4. /\ e \in Rows /\ e.state = d.state /\ e.wait = d.wait /\ e.next = d.next
      /\ e.window = d.window /\ e.lease = y /\ e.att = x
      /\ e.status = d.status /\ e.clock = d.clock /\ e.started = d.started
  BY <1>0, <1>1, <1>2, Zenon DEF Rows
<1> HIDE DEF e
<1>5. Live(e) = Live(d) \ G
  BY <1>4 DEF Live, x
<1>6. ASSUME NEW g \in Live(e)
      PROVE  /\ g[2] = e.next[g[1]] - 1 /\ e.lease[g[1]] = g[2]
             /\ \/ e.state[g[1]] \in TerminalStep \cup {"RUNNING"}
                \/ OnHold(e, g[1]) /\ HeldAtClaim(e, g[1])
  <2>1. g[1] \in Nodes /\ g = <<g[1], g[2]>> /\ g \notin G
    BY <1>5, GrantFacts DEF Live
  <2>2. e.lease[g[1]] = g[2]
    BY <1>0, <1>4, <1>5, <2>1 DEF Owned, y
  <2> QED BY <1>0, <1>4, <1>5, <2>1, <2>2 DEF Owned, OnHold, HeldAtClaim
<1>7. ASSUME NEW s \in Nodes
      PROVE  /\ e.lease[s] # 0 => <<s, e.lease[s]>> \in Live(e)
             /\ e.next[s] >= 1 /\ e.next[s] <= MaxAttempts + 1
             /\ e.state[s] = "BLOCKED" => e.next[s] = 1
             /\ \/ e.state[s] = "READY"
                \/ e.state[s] = "WAITING" /\ e.wait[s] = "RETRY_BACKOFF"
                => e.next[s] <= MaxAttempts
  <2>1. e.lease[s] # 0 => <<s, e.lease[s]>> \in Live(e)
    BY <1>0, <1>4, <1>5 DEF Owned, y
  <2> QED BY <1>0, <1>4, <2>1 DEF Owned
<1> QED BY <1>3, <1>4, <1>5, <1>6, <1>7 DEF Good, Owned

(* Attempts of a step are closed one at a time: the step is then free. *)
LEMMA CloseOneUnowned ==
  ASSUME NEW d, Good(d), NEW g \in Live(d), NEW a \in AttemptStatus \ LiveAttempt
  PROVE  Unowned(CloseAttempts(d, {g}, a), g[1])
<1>1. Live(CloseAttempts(d, {g}, a)) = Live(d) \ {g}
  BY CloseGood
<1>2. \A h \in Live(d) : h[2] = d.next[h[1]] - 1
  BY DEF Good, Owned
<1>3. \A h \in Live(d) : h = <<h[1], h[2]>>
  BY GrantFacts DEF Live
<1> QED BY <1>1, <1>2, <1>3 DEF Unowned

(***************************************************************************)
(* Helpers that leave every step, attempt and lease as it is.              *)
(***************************************************************************)

(* A change of run status and reason is sound. *)
LEMMA StatusGood ==
  ASSUME NEW d, Good(d), NEW x \in RunStatus, NEW y \in RunReason
  PROVE  Good([d EXCEPT !.status = x, !.reason = y])
<1>1. d \in Rows
  BY DEF Good
<1>2. [d EXCEPT !.status = x, !.reason = y] \in Rows
  BY <1>1, Zenon DEF Rows
<1>3. Same(d, [d EXCEPT !.status = x, !.reason = y])
  BY <1>1, Zenon DEF Rows, Same
<1> QED BY <1>2, <1>3, SameGood

(* The saturating event count stays in range. *)
LEMMA EndedType ==
  ASSUME NEW n \in EventCount
  PROVE  Ended(n) \in EventCount
BY DEF Ended, EventCount

(* Ending the run is sound. *)
LEMMA EndGood ==
  ASSUME NEW d, Good(d), NEW x \in RunStatus, NEW y \in RunReason
  PROVE  Good([d EXCEPT !.status = x, !.reason = y, !.ends = Ended(@)])
<1> DEFINE n == Ended(d.ends)
           e == [d EXCEPT !.status = x, !.reason = y, !.ends = n]
<1>1. d \in Rows
  BY DEF Good
<1>2. d.ends \in EventCount
  BY <1>1, Zenon DEF Rows
<1>3. n \in EventCount
  BY <1>2, EndedType
<1> HIDE DEF n
<1>4. e \in Rows /\ Same(d, e)
  BY <1>1, <1>3, Zenon DEF Rows, Same
<1> QED BY <1>4, SameGood DEF n

(* Failing the run is sound. *)
LEMMA RunFailedGood ==
  ASSUME NEW d, Good(d)
  PROVE  Good(RunFailed(d))
<1>1. "FAILED" \in RunStatus /\ "FAILURE" \in RunReason
  BY DEF RunStatus, TerminalRun, RunReason
<1> QED BY <1>1, EndGood DEF RunFailed

(* closeOpenCasesTx is sound. *)
LEMMA closeOpenCasesGood ==
  ASSUME NEW d, Good(d)
  PROVE  Good(closeOpenCasesTx(d))
<1> DEFINE x == [s \in Nodes |-> 0]
           e == [d EXCEPT !.cases = x]
<1>1. d \in Rows /\ x \in Counts
  BY DEF Good, Counts
<1> HIDE DEF x
<1>2. e \in Rows /\ Same(d, e)
  BY <1>1, Zenon DEF Rows, Same
<1> QED BY <1>2, SameGood DEF closeOpenCasesTx, x

(* Cancelling the timers of the run is sound. *)
LEMMA CancelTimersGood ==
  ASSUME NEW d, Good(d)
  PROVE  Good(CancelTimers(d))
<1>1. d \in Rows /\ NoTimers \in Timers
  BY DEF Good, NoTimers, Timers, TimerState
<1>2. CancelTimers(d) \in Rows /\ Same(d, CancelTimers(d))
  BY <1>1, Zenon DEF Rows, Same, CancelTimers
<1> QED BY <1>2, SameGood

(* Sending stops is sound and ends no attempt. *)
LEMMA StopLiveGood ==
  ASSUME NEW d, Good(d)
  PROVE  Good(StopLive(d)) /\ Live(StopLive(d)) = Live(d)
<1> DEFINE x == [g \in Grants |-> IF g \in Live(d) THEN "SENT" ELSE d.stop[g]]
           e == [d EXCEPT !.stop = x]
<1>1. d \in Rows
  BY DEF Good
<1>2. d.stop \in Stops
  BY <1>1, Zenon DEF Rows
<1>3. x \in Stops
  BY <1>2 DEF Stops, StopState
<1>4. StopLive(d) = e
  BY DEF StopLive
<1> HIDE DEF x
<1>5. e \in Rows /\ Same(d, e)
  BY <1>1, <1>3, Zenon DEF Rows, Same
<1> QED BY <1>4, <1>5, SameGood DEF Same, Live

(* settleHoldAfterCompletionTx is sound. *)
LEMMA settleHoldGood ==
  ASSUME NEW d, Good(d)
  PROVE  Good(settleHoldAfterCompletionTx(d))
<1>1. "WAITING" \in RunStatus /\ "RECONCILIATION" \in RunReason
  BY DEF RunStatus, RunReason, WaitReason
<1> QED BY <1>1, StatusGood DEF settleHoldAfterCompletionTx

(* releaseHoldTx is sound. *)
LEMMA releaseHoldGood ==
  ASSUME NEW d, Good(d), NEW action
  PROVE  Good(releaseHoldTx(d, action))
<1> DEFINE x == IF d.started = {} THEN "QUEUED" ELSE "RUNNING"
<1>1. x \in RunStatus /\ "NONE" \in RunReason /\ "RETRY_BACKOFF" \in RunReason
  BY DEF RunStatus, RunReason, WaitReason
<1>2. Good([d EXCEPT !.status = x, !.reason = "NONE"])
  BY <1>1, StatusGood
<1>3. d \in Rows
  BY DEF Good
<1>4. Good([d EXCEPT !.reason = "RETRY_BACKOFF"])
  <2>1. [d EXCEPT !.reason = "RETRY_BACKOFF"] \in Rows
    BY <1>1, <1>3, Zenon DEF Rows
  <2>2. Same(d, [d EXCEPT !.reason = "RETRY_BACKOFF"])
    BY <1>3, Zenon DEF Rows, Same
  <2> QED BY <2>1, <2>2, SameGood
<1> QED BY <1>2, <1>4, Zenon DEF releaseHoldTx

(* settlePauseAfterCompletionTx is sound. *)
LEMMA settlePauseGood ==
  ASSUME NEW d, Good(d)
  PROVE  Good(settlePauseAfterCompletionTx(d))
<1>1. d \in Rows /\ "PAUSED" \in RunStatus
  BY DEF Good, RunStatus
<1>2. [d EXCEPT !.status = "PAUSED"] \in Rows
  BY <1>1, Zenon DEF Rows
<1>3. Same(d, [d EXCEPT !.status = "PAUSED"])
  BY <1>1, Zenon DEF Rows, Same
<1>4. Good([d EXCEPT !.status = "PAUSED"])
  BY <1>2, <1>3, SameGood
<1> QED BY <1>4 DEF settlePauseAfterCompletionTx

(* recomputeRunStatusForRetryTx is sound. *)
LEMMA recomputeForRetryGood ==
  ASSUME NEW d, Good(d)
  PROVE  Good(recomputeRunStatusForRetryTx(d))
<1>1. /\ {"RUNNING", "WAITING"} \subseteq RunStatus
      /\ {"NONE", "RETRY_BACKOFF"} \subseteq RunReason
  BY DEF RunStatus, RunReason, WaitReason
<1>2. /\ Good([d EXCEPT !.status = "RUNNING", !.reason = "NONE"])
      /\ Good([d EXCEPT !.status = "WAITING", !.reason = "RETRY_BACKOFF"])
  BY <1>1, StatusGood
<1> QED BY <1>2, Zenon DEF recomputeRunStatusForRetryTx

(* recomputeRunStatusForDelayTx is sound. *)
LEMMA recomputeForDelayGood ==
  ASSUME NEW d, Good(d)
  PROVE  Good(recomputeRunStatusForDelayTx(d))
<1> DEFINE x == IF InState(d, {"RUNNING"}) # {} THEN "RUNNING" ELSE "QUEUED"
<1>1. /\ x \in RunStatus /\ "WAITING" \in RunStatus
      /\ {"NONE", "DELAY"} \subseteq RunReason
  BY DEF RunStatus, RunReason, WaitReason
<1>2. /\ Good([d EXCEPT !.status = x, !.reason = "NONE"])
      /\ Good([d EXCEPT !.status = "WAITING", !.reason = "DELAY"])
  BY <1>1, StatusGood
<1> QED BY <1>2, Zenon DEF recomputeRunStatusForDelayTx

(* recomputeRunStatusAfterControlTx is sound. *)
LEMMA recomputeAfterControlGood ==
  ASSUME NEW d, Good(d), NEW why \in RunReason
  PROVE  Good(recomputeRunStatusAfterControlTx(d, why))
<1> DEFINE work == \/ Live(d) # {}
                   \/ \E s \in Nodes : Kind[s] = "task" /\ d.state[s] = "READY"
           x == IF work THEN "RUNNING" ELSE "WAITING"
           y == IF work THEN "NONE" ELSE why
<1>1. x \in RunStatus /\ y \in RunReason
  BY DEF RunStatus, RunReason, WaitReason
<1>2. Good([d EXCEPT !.status = x, !.reason = y])
  <2> HIDE DEF x, y
  <2> QED BY <1>1, StatusGood
<1> QED BY <1>2, Zenon DEF recomputeRunStatusAfterControlTx

(* settleRunTerminalTx is sound, whatever view of the steps it is given. *)
LEMMA settleRunTerminalGood ==
  ASSUME NEW d, Good(d), NEW states, NEW ok
  PROVE  Good(settleRunTerminalTx(d, states, ok))
<1>1. /\ {"SUCCEEDED", "FAILED"} \subseteq RunStatus
      /\ {"NONE", "FAILURE"} \subseteq RunReason
  BY DEF RunStatus, TerminalRun, RunReason, WaitReason
<1>2. /\ Good([d EXCEPT !.status = "SUCCEEDED", !.reason = "NONE", !.ends = Ended(@)])
      /\ Good([d EXCEPT !.status = "FAILED", !.reason = "FAILURE", !.ends = Ended(@)])
  BY <1>1, EndGood
<1> QED BY <1>2, Zenon DEF settleRunTerminalTx

(* settleCancellingRunTx is sound. *)
LEMMA settleCancellingGood ==
  ASSUME NEW d, Good(d)
  PROVE  Good(settleCancellingRunTx(d))
<1> DEFINE n == Ended(d.ends)
           c == \A g \in Grants : d.stop[g] \in {"NONE", "CONFIRMED"}
           e == [d EXCEPT !.status = "CANCELLED", !.ends = n, !.confirmed = c]
<1>1. d \in Rows /\ "CANCELLED" \in RunStatus /\ c \in BOOLEAN
  BY DEF Good, RunStatus, TerminalRun
<1>2. d.ends \in EventCount
  BY <1>1, Zenon DEF Rows
<1>3. n \in EventCount
  BY <1>2, EndedType
<1> HIDE DEF n, c
<1>4. e \in Rows /\ Same(d, e)
  BY <1>1, <1>3, Zenon DEF Rows, Same
<1>5. Good(e)
  BY <1>4, SameGood
<1> QED BY <1>5, Zenon DEF settleCancellingRunTx, n, c

(***************************************************************************)
(* Helpers that only end steps and attempts.                               *)
(***************************************************************************)

(* Moving any steps to a terminal state is sound. *)
LEMMA EndStepsGood ==
  ASSUME NEW d, Good(d), NEW S, NEW From, NEW to \in TerminalStep
  PROVE  Good(Move(d, S, From, to, "NONE"))
<1>1. to \in StepState /\ "NONE" \in WaitReason
  BY DEF StepState, WaitReason
<1> QED BY <1>1, MoveGood

(* Failing a step and cancelling others is sound. *)
LEMMA FailStepGood ==
  ASSUME NEW d, Good(d), NEW s, NEW From
  PROVE  Good(FailStep(d, s, From))
<1> DEFINE e == Move(d, {s}, StepState, "FAILED", "NONE")
<1>1. {"FAILED", "CANCELLED"} \subseteq TerminalStep
  BY DEF TerminalStep
<1>2. Good(e)
  BY <1>1, EndStepsGood
<1> HIDE DEF e
<1>3. Good(Move(e, Nodes \ {s}, From, "CANCELLED", "NONE"))
  BY <1>1, <1>2, EndStepsGood
<1> QED BY <1>3 DEF FailStep, e

(* Stopping and cancelling every live attempt is sound. *)
LEMMA StopAllGood ==
  ASSUME NEW d, Good(d)
  PROVE  Good(CloseAttempts(StopLive(d), Live(d), "CANCELLED"))
<1>1. "CANCELLED" \in AttemptStatus \ LiveAttempt
  BY DEF AttemptStatus, LiveAttempt
<1> QED BY <1>1, StopLiveGood, CloseGood

(* failRunForStepTx is sound. *)
LEMMA failRunForStepGood ==
  ASSUME NEW d, Good(d), NEW s
  PROVE  Good(failRunForStepTx(d, s))
<1> DEFINE d1 == CloseAttempts(StopLive(d), Live(d), "CANCELLED")
           d2 == FailStep(d1, s, OpenStep)
           d3 == closeOpenCasesTx(d2)
           d4 == CancelTimers(d3)
<1>1. Good(d1)
  BY StopAllGood
<1> HIDE DEF d1
<1>2. Good(d2)
  BY <1>1, FailStepGood
<1> HIDE DEF d2
<1>3. Good(d3)
  BY <1>2, closeOpenCasesGood
<1> HIDE DEF d3
<1>4. Good(d4)
  BY <1>3, CancelTimersGood
<1> HIDE DEF d4
<1>5. Good(RunFailed(d4))
  BY <1>4, RunFailedGood
<1> QED BY <1>5 DEF failRunForStepTx, d1, d2, d3, d4

(* Ending a run at its history limit is sound: its RUNNING steps keep      *)
(* their attempts.                                                         *)
LEMMA historyLimitGood ==
  ASSUME NEW d, Good(d)
  PROVE  Good(historyLimitTx(d))
<1> DEFINE e == Move(d, Nodes, {"BLOCKED", "READY", "WAITING"}, "CANCELLED", "NONE")
<1>1. Good(e)
  BY EndStepsGood DEF TerminalStep
<1> HIDE DEF e
<1>2. Good(RunFailed(e))
  BY <1>1, RunFailedGood
<1> QED BY <1>2 DEF historyLimitTx, e

(* Settling an overdue run is sound. *)
LEMMA settleExpiredRunGood ==
  ASSUME NEW d, Good(d), NEW s
  PROVE  Good(settleExpiredRun(d, s))
<1> DEFINE d1 == closeOpenCasesTx(d)
           d2 == CancelTimers(d1)
<1>1. Good(d1)
  BY closeOpenCasesGood
<1> HIDE DEF d1
<1>2. Good(d2)
  BY <1>1, CancelTimersGood
<1> HIDE DEF d2
<1>3. Good(RunFailed(d2))
  BY <1>2, RunFailedGood
<1>4. Good(failOverdueRunWithoutStepsTx(d))
  BY <1>2, <1>3 DEF failOverdueRunWithoutStepsTx, d1, d2
<1> QED BY <1>4, failRunForStepGood DEF settleExpiredRun

(* The deadline failure of the sweep is sound: steps become terminal, and  *)
(* attempts it leaves keep their leases.                                   *)
LEMMA overdueRunGood ==
  ASSUME NEW d, Good(d)
  PROVE  Good(overdueRunTx(d))
<1> DEFINE d1 == Move(d, Nodes, OpenStep, "CANCELLED", "NONE")
           d2 == closeOpenCasesTx(d1)
           d3 == CancelTimers(d2)
<1>1. Good(d1)
  BY EndStepsGood DEF TerminalStep
<1> HIDE DEF d1
<1>2. Good(d2)
  BY <1>1, closeOpenCasesGood
<1> HIDE DEF d2
<1>3. Good(d3)
  BY <1>2, CancelTimersGood
<1> HIDE DEF d3
<1>4. Good(RunFailed(d3))
  BY <1>3, RunFailedGood
<1> QED BY <1>4 DEF overdueRunTx, d1, d2, d3

(* A change of approvals is sound. *)
LEMMA ApprGood ==
  ASSUME NEW d, Good(d), NEW x \in Approvals
  PROVE  Good([d EXCEPT !.appr = x])
<1>1. d \in Rows
  BY DEF Good
<1>2. [d EXCEPT !.appr = x] \in Rows /\ Same(d, [d EXCEPT !.appr = x])
  BY <1>1, Zenon DEF Rows, Same
<1> QED BY <1>2, SameGood

(* The run fields a cancellation writes are sound. *)
LEMMA CancelGood ==
  ASSUME NEW d, Good(d), NEW x \in RunStatus, NEW y \in RunReason,
         NEW c \in BOOLEAN, NEW n \in EventCount
  PROVE  Good([d EXCEPT !.status = x, !.reason = y, !.confirmed = c, !.ends = n,
                        !.grace = FALSE])
<1> DEFINE e == [d EXCEPT !.status = x, !.reason = y, !.confirmed = c, !.ends = n,
                        !.grace = FALSE]
<1>1. d \in Rows
  BY DEF Good
<1>2. e \in Rows
  BY <1>1, Zenon DEF Rows
<1>3. Same(d, e)
  BY <1>1, Zenon DEF Rows, Same
<1> QED BY <1>2, <1>3, SameGood

(* cancelRunTx is sound. *)
LEMMA cancelRunGood ==
  ASSUME NEW d, Good(d)
  PROVE  Good(cancelRunTx(d))
<1> DEFINE live == Live(d)
           d1 == CloseAttempts(StopLive(d), live, "CANCELLED")
           d2 == Move(d1, Nodes, OpenStep, "CANCELLED", "NONE")
           d3 == closeOpenCasesTx(d2)
           d4 == CancelTimers(d3)
           a == [s \in Nodes |-> IF s \in Undecided(d) THEN "CANCELLED" ELSE d.appr[s]]
           x == IF live = {} THEN "CANCELLED" ELSE "CANCELLING"
           n == IF live = {} THEN Ended(d4.ends) ELSE d4.ends
           c == (live = {})
           e == [d4 EXCEPT !.appr = a, !.status = x, !.reason = "CANCEL_REQUESTED",
                           !.confirmed = c, !.ends = n, !.grace = FALSE]
<1>0. d \in Rows
  BY DEF Good
<1>1. Good(d1)
  BY StopAllGood
<1> HIDE DEF d1
<1>2. Good(d2)
  BY <1>1, EndStepsGood DEF TerminalStep
<1> HIDE DEF d2
<1>3. Good(d3)
  BY <1>2, closeOpenCasesGood
<1> HIDE DEF d3
<1>4. Good(d4) /\ d4 \in Rows
  BY <1>3, CancelTimersGood DEF Good
<1> HIDE DEF d4
<1>5. d4.ends \in EventCount
  BY <1>4, Zenon DEF Rows
<1>6. d.appr \in Approvals
  BY <1>0, Zenon DEF Rows
<1>7. n \in EventCount
  BY <1>5, EndedType
<1>8. a \in Approvals
  BY <1>6 DEF Approvals, ApprovalState
<1>9. x \in RunStatus /\ c \in BOOLEAN /\ "CANCEL_REQUESTED" \in RunReason
  BY DEF RunStatus, TerminalRun, RunReason
<1> HIDE DEF a, x, n, c
<1>10. Good([d4 EXCEPT !.appr = a])
  BY <1>4, <1>8, ApprGood
<1>11. Good(e)
  BY <1>10, <1>7, <1>9, CancelGood
<1> QED BY <1>11, Zenon DEF cancelRunTx, d1, d2, d3, d4, a, x, n, c

(***************************************************************************)
(* Helpers that make a step wait or ready: no attempt of it may be live.   *)
(***************************************************************************)

(* A step that waits for anything but a hold, is ready or is blocked has   *)
(* no live attempt.                                                        *)
LEMMA FreeStep ==
  ASSUME NEW d, Good(d), NEW s \in Nodes,
         \/ d.state[s] \in {"BLOCKED", "READY"}
         \/ d.state[s] = "WAITING" /\ d.wait[s] # "RECONCILIATION"
         \/ OnHold(d, s) /\ ~HeldAtClaim(d, s)
  PROVE  Unowned(d, s)
BY DEF Good, Owned, Unowned, OnHold, TerminalStep

(* The rows e differ from d in the step s, which waits for r, and in       *)
(* nothing else that ownership is about.                                   *)
LEMMA WaitGood ==
  ASSUME NEW d, NEW e, Good(d), e \in Rows, NEW s \in Nodes, NEW r \in WaitReason,
         Unowned(d, s), r = "RETRY_BACKOFF" => d.next[s] <= MaxAttempts,
         e.state = [d.state EXCEPT ![s] = "WAITING"], e.wait = [d.wait EXCEPT ![s] = r],
         e.next = d.next, e.window = d.window, e.lease = d.lease, e.att = d.att
  PROVE  Good(e)
<1> DEFINE m == Move(d, {s}, StepState, "WAITING", r)
<1>1. d \in Rows /\ "WAITING" \in StepState
  BY DEF Good, StepState, OpenStep
<1>2. Good(m)
  BY <1>1, MoveGood
<1>3. /\ m.state = [t \in Nodes |-> IF t \in {s} /\ d.state[t] \in StepState
                                    THEN "WAITING" ELSE d.state[t]]
      /\ m.wait = [t \in Nodes |-> IF t \in {s} /\ d.state[t] \in StepState
                                   THEN r ELSE d.wait[t]]
      /\ m.next = d.next /\ m.window = d.window /\ m.lease = d.lease /\ m.att = d.att
  BY <1>1, Zenon DEF Move, Rows
<1> HIDE DEF m
<1>4. Same(m, e)
  BY <1>1, <1>3, RowTypes DEF Same
<1> QED BY <1>2, <1>4, SameGood

(* What routeStepToReconciliationTx writes. *)
LEMMA RouteFields ==
  ASSUME NEW d \in Rows, NEW s \in Nodes
  PROVE  LET e == routeStepToReconciliationTx(d, s)
         IN /\ e \in Rows
            /\ e.state = [d.state EXCEPT ![s] = "WAITING"]
            /\ e.wait = [d.wait EXCEPT ![s] = "RECONCILIATION"]
            /\ e.next = d.next /\ e.window = d.window
            /\ e.lease = d.lease /\ e.att = d.att
<1> DEFINE held == d.status \in {"QUEUED", "RUNNING", "WAITING"} /\ Live(d) = {}
           x == [d.state EXCEPT ![s] = "WAITING"]
           y == [d.wait EXCEPT ![s] = "RECONCILIATION"]
           c == [d.cases EXCEPT ![s] = d.cases[s] + 1]
           p == IF held THEN "WAITING" ELSE d.status
           q == IF held THEN "RECONCILIATION" ELSE d.reason
           e == [d EXCEPT !.state = x, !.wait = y, !.cases = c, !.status = p, !.reason = q]
<1>1. x \in StepStates /\ y \in StepWaits
  BY RowTypes DEF StepStates, StepWaits, StepState, OpenStep, WaitReason
<1>2. c \in Counts
  <2>1. d.cases \in Counts
    BY Zenon DEF Rows
  <2> QED BY <2>1 DEF Counts
<1>3. p \in RunStatus /\ q \in RunReason
  BY RowTypes DEF RunStatus, RunReason, WaitReason
<1>4. routeStepToReconciliationTx(d, s) = e
  BY Zenon DEF routeStepToReconciliationTx
<1> HIDE DEF x, y, c, p, q
<1>5. e \in Rows
  BY <1>1, <1>2, <1>3, Zenon DEF Rows
<1>6. /\ e.state = x /\ e.wait = y /\ e.next = d.next /\ e.window = d.window
      /\ e.lease = d.lease /\ e.att = d.att
  BY Zenon DEF Rows
<1> QED BY <1>4, <1>5, <1>6 DEF x, y

(* A hold is opened for a step without a live attempt, or for one whose    *)
(* idempotency window refuses another attempt.                             *)
LEMMA RouteGood ==
  ASSUME NEW d, Good(d), NEW s \in Nodes, Unowned(d, s) \/ HeldAtClaim(d, s)
  PROVE  Good(routeStepToReconciliationTx(d, s))
<1> DEFINE e == routeStepToReconciliationTx(d, s)
<1>1. /\ e \in Rows
      /\ e.state = [d.state EXCEPT ![s] = "WAITING"]
      /\ e.wait = [d.wait EXCEPT ![s] = "RECONCILIATION"]
      /\ e.next = d.next /\ e.window = d.window /\ e.lease = d.lease /\ e.att = d.att
  BY RouteFields DEF Good
<1> HIDE DEF e
<1>2. CASE Unowned(d, s)
  BY <1>1, <1>2, WaitGood DEF e, WaitReason
<1>3. CASE HeldAtClaim(d, s)
  <2>1. Live(e) = Live(d)
    BY <1>1 DEF Live
  <2>2. d \in Rows /\ Owned(d)
    BY DEF Good
  <2>3. OnHold(e, s) /\ HeldAtClaim(e, s)
    BY <1>1, <1>3, <2>2, RowTypes DEF OnHold, HeldAtClaim, StepStates, StepWaits
  <2>4. \A t \in Nodes \ {s} : e.state[t] = d.state[t] /\ e.wait[t] = d.wait[t]
    BY <1>1, <2>2, RowTypes
  <2>5. ASSUME NEW g \in Live(e)
        PROVE  /\ g[2] = e.next[g[1]] - 1 /\ e.lease[g[1]] = g[2]
               /\ \/ e.state[g[1]] \in TerminalStep \cup {"RUNNING"}
                  \/ OnHold(e, g[1]) /\ HeldAtClaim(e, g[1])
    <3>1. g[1] \in Nodes
      BY GrantFacts DEF Live
    <3>2. CASE g[1] = s
      BY <1>1, <2>1, <2>2, <2>3, <3>2 DEF Owned
    <3>3. CASE g[1] # s
      BY <1>1, <2>1, <2>2, <2>4, <3>1, <3>3 DEF Owned, OnHold, HeldAtClaim
    <3> QED BY <3>2, <3>3
  <2>6. ASSUME NEW t \in Nodes
        PROVE  /\ e.lease[t] # 0 => <<t, e.lease[t]>> \in Live(e)
               /\ e.next[t] >= 1 /\ e.next[t] <= MaxAttempts + 1
               /\ e.state[t] = "BLOCKED" => e.next[t] = 1
               /\ \/ e.state[t] = "READY"
                  \/ e.state[t] = "WAITING" /\ e.wait[t] = "RETRY_BACKOFF"
                  => e.next[t] <= MaxAttempts
    BY <1>1, <2>1, <2>2, <2>3, <2>4 DEF Owned, OnHold
  <2> QED BY <1>1, <2>5, <2>6 DEF Good, Owned, e
<1> QED BY <1>2, <1>3

(* A change of timers is sound. *)
LEMMA TimerGood ==
  ASSUME NEW d, Good(d), NEW x \in Timers
  PROVE  Good([d EXCEPT !.retry = x]) /\ Good([d EXCEPT !.delay = x])
<1>1. d \in Rows
  BY DEF Good
<1>2. [d EXCEPT !.retry = x] \in Rows /\ Same(d, [d EXCEPT !.retry = x])
  BY <1>1, Zenon DEF Rows, Same
<1>3. [d EXCEPT !.delay = x] \in Rows /\ Same(d, [d EXCEPT !.delay = x])
  BY <1>1, Zenon DEF Rows, Same
<1> QED BY <1>2, <1>3, SameGood

(* A retry of a step nobody owns, with budget left, is sound. *)
LEMMA scheduleRetryGood ==
  ASSUME NEW d, Good(d), NEW s \in Nodes, Unowned(d, s), HasRetryBudget(d, s)
  PROVE  Good(scheduleRetryTx(d, s))
<1> DEFINE t == [d.retry EXCEPT ![s] = IF d.retry[s] = "NONE" THEN "PENDING" ELSE d.retry[s]]
           x == [d.state EXCEPT ![s] = "WAITING"]
           y == [d.wait EXCEPT ![s] = "RETRY_BACKOFF"]
           e == [d EXCEPT !.retry = t, !.state = x, !.wait = y]
<1>0. d \in Rows
  BY DEF Good
<1>1. t \in Timers
  <2>1. d.retry \in Timers
    BY <1>0, Zenon DEF Rows
  <2> QED BY <2>1 DEF Timers, TimerState
<1>2. x \in StepStates /\ y \in StepWaits
  BY <1>0, RowTypes DEF StepStates, StepWaits, StepState, OpenStep, WaitReason
<1>3. scheduleRetryTx(d, s) = recomputeRunStatusForRetryTx(e)
  BY Zenon DEF scheduleRetryTx
<1> HIDE DEF t, x, y
<1>4. e \in Rows
  BY <1>0, <1>1, <1>2, Zenon DEF Rows
<1>5. /\ e.state = x /\ e.wait = y /\ e.next = d.next /\ e.window = d.window
      /\ e.lease = d.lease /\ e.att = d.att
  BY <1>0, Zenon DEF Rows
<1> HIDE DEF e
<1>6. Good(e)
  BY <1>4, <1>5, WaitGood DEF x, y, HasRetryBudget, WaitReason
<1> QED BY <1>3, <1>6, recomputeForRetryGood

(* scheduleRetryOrHoldTx is sound for a step whose attempt has ended. *)
LEMMA scheduleRetryOrHoldGood ==
  ASSUME NEW d, Good(d), NEW s \in Nodes, NEW err, Unowned(d, s)
  PROVE  Good(scheduleRetryOrHoldTx(d, s, err))
<1>1. Good(failRunForStepTx(d, s))
  BY failRunForStepGood
<1>2. Good(routeStepToReconciliationTx(d, s))
  BY RouteGood
<1>3. HasRetryBudget(d, s) => Good(scheduleRetryTx(d, s))
  BY scheduleRetryGood
<1> QED BY <1>1, <1>2, <1>3, Zenon DEF scheduleRetryOrHoldTx

(* fireDueRetryTimersTx is sound: a step that waits for a retry has no     *)
(* owner and budget left.                                                  *)
LEMMA fireDueRetryGood ==
  ASSUME NEW d, Good(d)
  PROVE  Good(fireDueRetryTimersTx(d))
<1> DEFINE due == {s \in Nodes : /\ d.retry[s] = "DUE"
                                 /\ d.state[s] = "WAITING" /\ d.wait[s] = "RETRY_BACKOFF"}
           free == d.status = "WAITING" /\ d.reason = "RETRY_BACKOFF"
           m == Move(d, due, {"WAITING"}, "READY", "NONE")
           t == [s \in Nodes |-> IF s \in due THEN "NONE" ELSE d.retry[s]]
           x == IF ~free THEN m.status ELSE IF d.started = {} THEN "QUEUED" ELSE "RUNNING"
           y == IF free THEN "NONE" ELSE m.reason
<1>0. d \in Rows /\ Owned(d)
  BY DEF Good
<1>1. \A s \in due : Unowned(d, s) /\ d.next[s] <= MaxAttempts
  BY <1>0, FreeStep DEF Owned
<1>2. Good(m)
  BY <1>1, MoveGood DEF StepState, OpenStep, WaitReason
<1>3. t \in Timers
  <2>1. d.retry \in Timers
    BY <1>0, Zenon DEF Rows
  <2> QED BY <2>1 DEF Timers, TimerState
<1>4. x \in RunStatus /\ y \in RunReason
  <2>1. m.status \in RunStatus /\ m.reason \in RunReason
    <3> HIDE DEF m
    <3> QED BY <1>2, RowTypes DEF Good
  <2> QED BY <2>1 DEF RunStatus, RunReason, WaitReason
<1> HIDE DEF m, t, x, y
<1>5. Good([m EXCEPT !.retry = t])
  BY <1>2, <1>3, TimerGood
<1>6. Good([[m EXCEPT !.retry = t] EXCEPT !.status = x, !.reason = y])
  BY <1>4, <1>5, StatusGood
<1>7. Good([m EXCEPT !.retry = t, !.status = x, !.reason = y])
  BY <1>6
<1>8. [m EXCEPT !.retry = t, !.status = IF ~free THEN @ ELSE IF d.started = {} THEN "QUEUED" ELSE "RUNNING",
                !.reason = IF free THEN "NONE" ELSE @]
        = [m EXCEPT !.retry = t, !.status = x, !.reason = y]
  BY <1>2, Zenon DEF x, y, Good, Rows
<1> QED BY <1>7, <1>8, Zenon DEF fireDueRetryTimersTx, m, t

(* FenceWorkerSessions is sound: the steps it hands off are the ones whose *)
(* attempts it ended.                                                      *)
LEMMA FenceGood ==
  ASSUME NEW d, Good(d), NEW w
  PROVE  Good(FenceWorkerSessions(d, w))
<1> DEFINE lost == {g \in Live(d) : d.owner[g] = <<w, d.sess[w]>> /\ w \in d.on}
           steps == {s \in Nodes : \E g \in lost : g = <<s, d.next[s] - 1>>}
           c == CloseAttempts(d, lost, "LOST")
           e == Move(c, steps, {"RUNNING"}, "WAITING", "RECOVERY_HANDOFF")
           parked == lost # {} /\ d.status \in {"QUEUED", "RUNNING"}
           x == IF parked THEN "WAITING" ELSE e.status
           y == IF parked THEN "RECOVERY_HANDOFF" ELSE e.reason
<1>0. d \in Rows /\ Owned(d)
  BY DEF Good
<1>1. Good(c) /\ Live(c) = Live(d) \ lost
  BY CloseGood DEF AttemptStatus, LiveAttempt
<1>2. \A s \in steps : Unowned(c, s)
  <2>1. ASSUME NEW s \in steps, NEW g \in Live(c), g[1] = s
        PROVE  FALSE
    <3>1. g \in Live(d) /\ g \notin lost
      BY <1>1, <2>1
    <3>2. g = <<g[1], g[2]>> /\ g[2] = d.next[g[1]] - 1
      BY <1>0, <3>1, GrantFacts DEF Owned, Live
    <3>3. <<s, d.next[s] - 1>> \in lost
      BY <2>1
    <3> QED BY <2>1, <3>1, <3>2, <3>3
  <2> QED BY <2>1 DEF Unowned
<1> HIDE DEF c, steps
<1>3. Good(e)
  BY <1>1, <1>2, MoveGood DEF StepState, OpenStep, WaitReason
<1>4. x \in RunStatus /\ y \in RunReason
  <2>1. e.status \in RunStatus /\ e.reason \in RunReason
    <3> HIDE DEF e
    <3> QED BY <1>3, RowTypes DEF Good
  <2> QED BY <2>1 DEF RunStatus, RunReason, WaitReason
<1>5. Good([e EXCEPT !.status = x, !.reason = y])
  <2> HIDE DEF e, x, y
  <2> QED BY <1>3, <1>4, StatusGood
<1> HIDE DEF e
<1>6. [e EXCEPT !.status = IF parked THEN "WAITING" ELSE @,
                !.reason = IF parked THEN "RECOVERY_HANDOFF" ELSE @]
        = [e EXCEPT !.status = x, !.reason = y]
  BY <1>3, Zenon DEF Good, Rows
<1> QED BY <1>5, <1>6, Zenon DEF FenceWorkerSessions, c, steps, e

(* reclaimAttemptTx is sound for an attempt that is still alive. *)
LEMMA reclaimAttemptGood ==
  ASSUME NEW d, Good(d), NEW g \in Live(d)
  PROVE  Good(reclaimAttemptTx(d, g))
<1> DEFINE s == g[1]
           started == d.att[g] = "RUNNING"
           a == IF d.clock # "over" /\ started /\ "attempt" \in d.late[s]
                THEN "TIMED_OUT" ELSE "LOST"
           c == CloseAttempts(d, {g}, a)
           e == [c EXCEPT !.lease[s] = 0]
           err == [fatal |-> FALSE, retryable |-> TRUE, unknown |-> started]
<1>0. s \in Nodes
  BY GrantFacts DEF Live
<1>1. a \in AttemptStatus \ LiveAttempt
  BY DEF AttemptStatus, LiveAttempt
<1> HIDE DEF a
<1>2. Good(c) /\ Unowned(c, s)
  BY <1>1, CloseGood, CloseOneUnowned
<1> HIDE DEF c
<1>3. c \in Rows /\ c.lease \in Counts
  BY <1>2, Zenon DEF Good, Rows
<1>4. c.lease[s] = 0
  BY <1>0, <1>2, <1>3, GrantFacts DEF Good, Owned, Unowned, Counts
<1>5. [c.lease EXCEPT ![s] = 0] = c.lease
  BY <1>3, <1>4 DEF Counts
<1>6. e = [c EXCEPT !.lease = [c.lease EXCEPT ![s] = 0]]
  OBVIOUS
<1>7. e = c
  BY <1>3, <1>5, <1>6, Zenon DEF Rows
<1>8. Good(e) /\ Unowned(e, s)
  BY <1>2, <1>7
<1> HIDE DEF e
<1>9. Good(overdueRunTx(e)) /\ Good(scheduleRetryOrHoldTx(e, s, err))
  BY <1>0, <1>8, overdueRunGood, scheduleRetryOrHoldGood
<1> QED BY <1>9, Zenon DEF reclaimAttemptTx, e, c, a

(* reclaimHandoffTx is sound: a step that awaits handoff has no owner, and *)
(* the budget is checked.                                                  *)
LEMMA reclaimHandoffGood ==
  ASSUME NEW d, Good(d), NEW s \in Nodes, NEW everStarted
  PROVE  Good(reclaimHandoffTx(d, s, everStarted))
<1> DEFINE free == d.status = "WAITING" /\ d.reason = "RECOVERY_HANDOFF"
           mine == d.state[s] = "WAITING" /\ d.wait[s] = "RECOVERY_HANDOFF"
           m == IF mine THEN Move(d, {s}, {"WAITING"}, "READY", "NONE") ELSE d
           x == IF ~free THEN m.status ELSE IF everStarted THEN "RUNNING" ELSE "QUEUED"
           y == IF free THEN "NONE" ELSE m.reason
           e == [m EXCEPT !.status = IF ~free THEN @ ELSE IF everStarted THEN "RUNNING" ELSE "QUEUED",
                          !.reason = IF free THEN "NONE" ELSE @]
<1>1. mine => Unowned(d, s)
  BY FreeStep
<1>2. d.next[s] <= MaxAttempts => Good(m)
  BY <1>1, MoveGood DEF StepState, OpenStep, WaitReason
<1>3. ASSUME Good(m)
      PROVE  Good(e)
  <2>1. x \in RunStatus /\ y \in RunReason
    <3>1. m.status \in RunStatus /\ m.reason \in RunReason
      <4> HIDE DEF m
      <4> QED BY <1>3, RowTypes DEF Good
    <3> QED BY <3>1 DEF RunStatus, RunReason, WaitReason
  <2>2. Good([m EXCEPT !.status = x, !.reason = y])
    <3> HIDE DEF m, x, y
    <3> QED BY <1>3, <2>1, StatusGood
  <2> HIDE DEF m
  <2>3. e = [m EXCEPT !.status = x, !.reason = y]
    BY <1>3, Zenon DEF Good, Rows
  <2> QED BY <2>2, <2>3
<1>4. Good(RunFailed(FailStep(d, s, {"BLOCKED", "READY", "WAITING"})))
  BY FailStepGood, RunFailedGood
<1>5. Good(overdueRunTx(d))
  BY overdueRunGood
<1> HIDE DEF e
<1> QED BY <1>2, <1>3, <1>4, <1>5, Zenon DEF reclaimHandoffTx, m, e
=============================================================================
