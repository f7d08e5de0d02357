-------------------------- MODULE RunEngineProofs --------------------------
(***************************************************************************)
(* Ownership and type correctness of RunEngine, for every workflow, set of *)
(* workers and bound: Inv is inductive, one lemma per action, and the      *)
(* ownership properties of RunProps follow from it.                        *)
(***************************************************************************)
EXTENDS RunStoreProofs

(* The inductive invariant, in the form the lemmas use. *)
Inv == Good(db) /\ Good(wip) /\ tx \in Transactions /\ poll \in Polls

(* Inv says that every variable has its type and that the committed rows   *)
(* and those in progress are Owned.                                        *)
LEMMA InvMeaning == Inv <=> TypeOK /\ Ownership
BY DEF Inv, Good, TypeOK, Ownership

(* The empty view of the steps has its type. *)
LEMMA FreshType == Fresh \in StepStates
BY DEF Fresh, StepStates, StepState, OpenStep

(* So does the record of no transaction. *)
LEMMA NoTxType ==
  ASSUME NEW mem \in StepStates
  PROVE  NoTx(mem) \in Transactions
<1>1. {} \in GrantSets /\ {} \in NodeSets /\ "none" \in Agents /\ "none" \in TxKinds
      /\ "idle" \in TxPlaces /\ 1 \in Nat
  BY DEF GrantSets, NodeSets, Agents, TxKinds, TxPlaces
<1> QED BY <1>1 DEF NoTx, Transactions, TxRecords

(* Committing sound rows keeps the invariant. *)
LEMMA CommitKeeps ==
  ASSUME NEW d, Good(d), Commit(d), poll' \in Polls
  PROVE  Inv'
BY FreshType, NoTxType DEF Commit, Inv

(* So does a handler that is a single step. *)
LEMMA HandleKeeps ==
  ASSUME Inv, NEW d, Good(d), Handle(d)
  PROVE  Inv'
BY CommitKeeps DEF Handle, Inv

(* So does beginning an evaluation of the graph on sound rows. *)
LEMMA BeginKeeps ==
  ASSUME Inv, NEW d, Good(d), NEW kind \in TxKinds \ {"claim"}, Begin(kind, d)
  PROVE  Inv'
<1>1. d.state \in StepStates
  BY Zenon DEF Good, Rows
<1>2. NoTx(d.state) \in Transactions /\ "dag" \in TxPlaces
  BY <1>1, NoTxType DEF TxPlaces
<1>3. tx' \in Transactions
  <2> DEFINE t == NoTx(d.state)
  <2>1. t \in Transactions
    BY <1>2
  <2>2. tx' = [t EXCEPT !.kind = kind, !.pc = "dag"]
    BY DEF Begin
  <2> HIDE DEF t
  <2> QED BY <1>2, <2>1, <2>2 DEF Transactions, TxRecords
<1> QED BY <1>3 DEF Begin, Inv

-----------------------------------------------------------------------------

(* The rows CreateRunInTx inserts are sound. *)
LEMMA InsertedGood == Good(InsertedRun)
<1> DEFINE r == InsertedRun
<1>1. InsertedRun \in Rows
  <2>1. "QUEUED" \in RunStatus /\ "NONE" \in RunReason /\ 0 \in EventCount
        /\ "early" \in RunClock
    BY DEF RunStatus, RunReason, WaitReason, EventCount, RunClock
  <2>2. [s \in Nodes |-> IF Kind[s] = "task" /\ After[s] = {}
                         THEN "READY" ELSE "BLOCKED"] \in StepStates
    BY DEF StepStates, StepState, OpenStep
  <2>3. /\ [s \in Nodes |-> "NONE"] \in StepWaits /\ [s \in Nodes |-> NoLabel] \in Branches
        /\ [s \in Nodes |-> "UNSET"] \in Windows /\ NoTimers \in Timers
        /\ NoTimers \in Approvals /\ [s \in Nodes |-> {}] \in PastDeadlines
    BY DEF StepWaits, WaitReason, Branches, Windows, NoTimers, Timers, TimerState,
           Approvals, ApprovalState, PastDeadlines
  <2>4. [s \in Nodes |-> 1] \in Counts /\ [s \in Nodes |-> 0] \in Counts
    BY DEF Counts
  <2>5. /\ [g \in Grants |-> "NONE"] \in Attempts /\ {} \in GrantSets
        /\ [g \in Grants |-> "NONE"] \in Stops
    BY DEF Attempts, AttemptStatus, GrantSets, Stops, StopState
  <2>6. [g \in Grants |-> <<"none", 0>>] \in Owners
    BY DEF Owners
  <2>7. /\ [w \in Workers |-> 1] \in Sessions /\ Workers \in WorkerSets
        /\ [w \in Workers |-> "ACTIVE"] \in WorkerStates
    BY DEF Sessions, WorkerSets, WorkerStates, WorkerStatus
  <2> QED BY <2>1, <2>2, <2>3, <2>4, <2>5, <2>6, <2>7 DEF InsertedRun, Rows
<1>2. Live(InsertedRun) = {}
  BY DEF Live, InsertedRun, LiveAttempt
<1>3. \A s \in Nodes : r.lease[s] = 0 /\ r.next[s] = 1
  BY DEF InsertedRun
<1>4. Owned(InsertedRun)
  BY <1>2, <1>3, WorkflowAssumption DEF Owned
<1> QED BY <1>1, <1>4 DEF Good

(* The invariant holds at first. *)
LEMMA InitKeeps == Init => Inv
<1> SUFFICES ASSUME Init PROVE Inv
  OBVIOUS
<1>1. InsertedRun \in Rows
  BY InsertedGood DEF Good
<1>2. InsertedRun.state \in StepStates
  BY <1>1, Zenon DEF Rows
<1>3. tx \in Transactions
  <2> DEFINE t == NoTx(InsertedRun.state)
  <2>1. t \in Transactions /\ NoTx(Fresh) \in Transactions
    BY <1>2, FreshType, NoTxType
  <2>2. tx = [t EXCEPT !.kind = "create", !.pc = "dag"] \/ tx = NoTx(Fresh)
    BY DEF Init
  <2>3. "create" \in TxKinds /\ "dag" \in TxPlaces
    BY DEF TxKinds, TxPlaces
  <2> HIDE DEF t
  <2> QED BY <2>1, <2>2, <2>3 DEF Transactions, TxRecords
<1>4. poll \in Polls
  BY DEF Init, Polls, NoPoll, NodeSets
<1> QED BY <1>3, <1>4, InsertedGood DEF Init, Inv

-----------------------------------------------------------------------------
(* Graph evaluation. *)

(* A BLOCKED step was never attempted, so it may become anything the       *)
(* evaluation makes of it.                                                 *)
LEMMA BlockedGood ==
  ASSUME NEW d, Good(d), NEW s \in Nodes, NEW r \in WaitReason,
         NEW to \in {"SKIPPED", "SUCCEEDED", "READY", "WAITING"}
  PROVE  Good(Move(d, {s}, {"BLOCKED"}, to, r))
<1>1. d.state[s] = "BLOCKED" => Unowned(d, s) /\ d.next[s] <= MaxAttempts
  <2>1. d.state[s] = "BLOCKED" => Unowned(d, s)
    BY FreeStep
  <2>2. d.state[s] = "BLOCKED" => d.next[s] = 1
    BY DEF Good, Owned
  <2> QED BY <2>1, <2>2, WorkflowAssumption
<1>2. to \in TerminalStep \/ to \in {"READY", "WAITING"}
  BY DEF TerminalStep
<1> QED BY <1>1, <1>2, MoveGood DEF StepState, OpenStep

(* Evaluating a node keeps the invariant if the rows it writes are sound. *)
LEMMA EvaluatedKeeps ==
  ASSUME Inv, NEW n \in Nodes, NEW d, Good(d), NEW mem \in StepStates,
         NEW changed \in BOOLEAN, Evaluated(n, d, mem, changed)
  PROVE  Inv'
<1>1. n + 1 \in Nat
  BY WorkflowAssumption DEF Nodes
<1>2. tx \in Transactions /\ tx' = [tx EXCEPT !.at = n + 1, !.mem = mem,
                                             !.again = tx.again \/ changed]
  BY DEF Inv, Evaluated
<1>3. (tx.again \/ changed) \in BOOLEAN
  BY <1>2 DEF Transactions, TxRecords
<1>4. tx' \in Transactions
  BY <1>1, <1>2, <1>3 DEF Transactions, TxRecords
<1> QED BY <1>4 DEF Inv, Evaluated

(* Settling a BLOCKED node keeps the invariant. *)
LEMMA SettleKeeps ==
  ASSUME Inv, NEW n \in Nodes, NEW to \in {"SKIPPED", "SUCCEEDED", "READY"}, Settle(n, to)
  PROVE  Inv'
<1> DEFINE mem == IF wip.state[n] = "BLOCKED" THEN [tx.mem EXCEPT ![n] = to] ELSE tx.mem
           d == Move(wip, {n}, {"BLOCKED"}, to, "NONE")
<1>1. tx.mem \in StepStates
  BY Zenon DEF Inv, Transactions, TxRecords
<1>2. mem \in StepStates
  BY <1>1 DEF StepStates, StepState, TerminalStep, OpenStep
<1>3. Good(d)
  BY BlockedGood DEF Inv, WaitReason
<1>4. (wip.state[n] = "BLOCKED") \in BOOLEAN /\ Evaluated(n, d, mem, wip.state[n] = "BLOCKED")
  BY Zenon DEF Settle
<1> HIDE DEF d, mem
<1> QED BY <1>2, <1>3, <1>4, EvaluatedKeeps

(* Recording a choice is sound. *)
LEMMA ChosenGood ==
  ASSUME NEW d, Good(d), NEW x \in Branches
  PROVE  Good([d EXCEPT !.chosen = x])
<1> DEFINE e == [d EXCEPT !.chosen = x]
<1>1. d \in Rows
  BY DEF Good
<1>2. e \in Rows /\ Same(d, e)
  BY <1>1, Zenon DEF Rows, Same
<1> QED BY <1>2, SameGood

(* Choosing a branch keeps the invariant. *)
LEMMA SelectBranchKeeps ==
  ASSUME Inv, NEW n \in Nodes, NEW b \in Labels, SelectBranch(n, b)
  PROVE  Inv'
<1> DEFINE lost == {x \in UNION {UNION {getBranchNodes(m, y) : y \in Labels \ {b}} :
                              m \in {k \in Nodes : MergeOf[k] = n}} :
                     tx.mem[x] = "BLOCKED" /\ wip.state[x] = "BLOCKED"}
           skipped == Move(wip, lost, {"BLOCKED"}, "SKIPPED", "NONE")
           moved == Move(skipped, {n}, {"BLOCKED"}, "SUCCEEDED", "NONE")
           ch == [moved.chosen EXCEPT ![n] = b]
           d == [moved EXCEPT !.chosen[n] = b]
           mem == [x \in Nodes |-> IF x \in lost \cup {n} THEN moved.state[x] ELSE tx.mem[x]]
<1>0. Good(wip) /\ tx.mem \in StepStates
  BY Zenon DEF Inv, Transactions, TxRecords
<1>1. \/ Evaluated(n, d, mem, TRUE)
      \/ Evaluated(n, wip, tx.mem, FALSE)
  BY Zenon DEF SelectBranch
<1> HIDE DEF lost
<1>2. Good(skipped)
  BY <1>0, EndStepsGood DEF TerminalStep
<1> HIDE DEF skipped
<1>3. Good(moved)
  BY <1>2, EndStepsGood DEF TerminalStep
<1> HIDE DEF moved
<1>4. moved.chosen \in Branches /\ moved.state \in StepStates
  BY <1>3, Zenon DEF Good, Rows
<1>5. ch \in Branches
  BY <1>4 DEF Branches
<1>6. mem \in StepStates
  BY <1>0, <1>4 DEF StepStates
<1>7. d = [moved EXCEPT !.chosen = ch]
  OBVIOUS
<1> HIDE DEF ch, mem
<1>8. Good(d)
  BY <1>3, <1>5, <1>7, ChosenGood
<1> HIDE DEF d
<1> QED BY <1>0, <1>1, <1>6, <1>8, EvaluatedKeeps

(* openApprovalTx is sound. *)
LEMMA openApprovalGood ==
  ASSUME NEW d, Good(d), NEW n \in Nodes
  PROVE  Good(openApprovalTx(d, n))
<1> DEFINE x == [d.appr EXCEPT ![n] = "PENDING"]
           e == [d EXCEPT !.appr[n] = "PENDING"]
           m == Move(e, {n}, {"BLOCKED"}, "WAITING", "APPROVAL")
<1>1. d.appr \in Approvals
  BY Zenon DEF Good, Rows
<1>2. x \in Approvals /\ e = [d EXCEPT !.appr = x]
  BY <1>1 DEF Approvals, ApprovalState
<1> HIDE DEF x
<1>3. Good(e)
  BY <1>2, ApprGood
<1> HIDE DEF e
<1>4. Good(m)
  BY <1>3, BlockedGood DEF WaitReason
<1> HIDE DEF m
<1>5. Good(recomputeRunStatusAfterControlTx(m, "APPROVAL"))
  BY <1>4, recomputeAfterControlGood DEF RunReason, WaitReason
<1> QED BY <1>3, <1>5, Zenon DEF openApprovalTx, e, m

(* scheduleDelayTx is sound. *)
LEMMA scheduleDelayGood ==
  ASSUME NEW d, Good(d), NEW n \in Nodes
  PROVE  Good(scheduleDelayTx(d, n))
<1> DEFINE x == [d.delay EXCEPT ![n] = IF @ = "NONE" THEN "PENDING" ELSE @]
           e == [d EXCEPT !.delay[n] = IF @ = "NONE" THEN "PENDING" ELSE @]
           m == Move(e, {n}, {"BLOCKED"}, "WAITING", "DELAY")
<1>1. d.delay \in Timers
  BY Zenon DEF Good, Rows
<1>2. x \in Timers /\ e = [d EXCEPT !.delay = x]
  BY <1>1 DEF Timers, TimerState
<1> HIDE DEF x
<1>3. Good(e)
  BY <1>2, TimerGood
<1> HIDE DEF e
<1>4. Good(m)
  BY <1>3, BlockedGood DEF WaitReason
<1> HIDE DEF m
<1>5. Good(recomputeRunStatusForDelayTx(m))
  BY <1>4, recomputeForDelayGood
<1> QED BY <1>3, <1>5, Zenon DEF scheduleDelayTx, e, m

(* Every step of evaluateBlockedDAGTx keeps the invariant. *)
LEMMA evaluateKeeps ==
  ASSUME Inv, evaluateBlockedDAGTx
  PROVE  Inv'
<1>0. Good(wip) /\ tx \in Transactions /\ tx.mem \in StepStates
  BY Zenon DEF Inv, Transactions, TxRecords
<1>1. CASE NextPass
  <2>1. tx' \in Transactions
    BY <1>0, <1>1 DEF NextPass, Transactions, TxRecords
  <2> QED BY <1>1, <2>1 DEF NextPass, Inv
<1>2. ASSUME NEW n \in Nodes, ReadyTask(n) \/ MergeBranches(n)
      PROVE  Inv'
  BY <1>2, SettleKeeps DEF ReadyTask, MergeBranches
<1>3. ASSUME NEW n \in Nodes, FailNode(n)
      PROVE  Inv'
  <2>1. N + 1 \in Nat
    BY WorkflowAssumption
  <2>2. tx' \in Transactions
    BY <1>0, <1>3, <2>1 DEF FailNode, Transactions, TxRecords
  <2> QED BY <1>0, <1>3, <2>2, failRunForStepGood DEF FailNode, Inv
<1>4. ASSUME NEW n \in Nodes, FailApproval(n)
      PROVE  Inv'
  BY <1>0, <1>4, failRunForStepGood, EvaluatedKeeps DEF FailApproval
<1>5. ASSUME NEW n \in Nodes, OpenApproval(n)
      PROVE  Inv'
  <2> DEFINE parked == wip.appr[n] = "NONE" /\ wip.state[n] = "BLOCKED"
             mem == IF parked THEN [tx.mem EXCEPT ![n] = "WAITING"] ELSE tx.mem
  <2>1. mem \in StepStates
    BY <1>0 DEF StepStates, StepState, OpenStep
  <2>2. Evaluated(n, openApprovalTx(wip, n), mem, parked) /\ parked \in BOOLEAN
    BY <1>5, Zenon DEF OpenApproval
  <2>3. Good(openApprovalTx(wip, n))
    BY <1>0, openApprovalGood
  <2> HIDE DEF mem, parked
  <2> QED BY <2>1, <2>2, <2>3, EvaluatedKeeps
<1>6. ASSUME NEW n \in Nodes, ScheduleDelay(n)
      PROVE  Inv'
  <2> DEFINE mem == [tx.mem EXCEPT ![n] = "WAITING"]
             changed == wip.delay[n] = "NONE"
  <2>1. mem \in StepStates
    BY <1>0 DEF StepStates, StepState, OpenStep
  <2>2. Evaluated(n, scheduleDelayTx(wip, n), mem, changed) /\ changed \in BOOLEAN
    BY <1>6, Zenon DEF ScheduleDelay
  <2>3. Good(scheduleDelayTx(wip, n))
    BY <1>0, scheduleDelayGood
  <2> HIDE DEF mem, changed
  <2> QED BY <2>1, <2>2, <2>3, EvaluatedKeeps
<1> QED BY <1>1, <1>2, <1>3, <1>4, <1>5, <1>6, SelectBranchKeeps, Zenon
        DEF evaluateBlockedDAGTx

(* durableWaitReasonForRunTx names a run reason. *)
LEMMA waitReasonType ==
  ASSUME NEW d, Good(d), NEW why \in durableWaitReasonForRunTx(d)
  PROVE  why \in RunReason
<1>1. d \in Rows
  BY DEF Good
<1> QED BY <1>1, RowTypes DEF durableWaitReasonForRunTx, InState, RunReason, WaitReason

(* Ending an evaluation, for each handler that asked for one, keeps the    *)
(* invariant.                                                              *)
LEMMA advanceKeeps ==
  ASSUME Inv, advanceAfterStepSuccessTx
  PROVE  Inv'
<1>0. Good(wip) /\ tx \in Transactions /\ poll \in Polls
  BY DEF Inv
<1>1. \A ok : Good(Settled(ok))
  BY <1>0, settleRunTerminalGood DEF Settled
<1>2. poll' = poll
  BY DEF advanceAfterStepSuccessTx, Advanced
<1>3. ASSUME NEW ok, Commit(Settled(ok))
      PROVE  Inv'
  BY <1>0, <1>1, <1>2, <1>3, CommitKeeps
<1>4. ASSUME NEW ok,
             Commit(settlePauseAfterCompletionTx(settleHoldAfterCompletionTx(Settled(ok))))
      PROVE  Inv'
  <2>1. Good(settlePauseAfterCompletionTx(settleHoldAfterCompletionTx(Settled(ok))))
    BY <1>1, settleHoldGood, settlePauseGood
  <2> QED BY <1>0, <1>2, <1>4, <2>1, CommitKeeps
<1>5. ASSUME NEW ok, Commit(releaseHoldTx(Settled(ok), "succeed"))
      PROVE  Inv'
  <2>1. Good(releaseHoldTx(Settled(ok), "succeed"))
    BY <1>1, releaseHoldGood
  <2> QED BY <1>0, <1>2, <1>5, <2>1, CommitKeeps
<1>6. ASSUME NEW ok, NEW why \in durableWaitReasonForRunTx(Settled(ok)),
             Commit(recomputeRunStatusAfterControlTx(Settled(ok), why))
      PROVE  Inv'
  <2>1. Good(recomputeRunStatusAfterControlTx(Settled(ok), why))
    BY <1>1, waitReasonType, recomputeAfterControlGood
  <2> QED BY <1>0, <1>2, <1>6, <2>1, CommitKeeps
<1>7. ASSUME NEW ok, wip' = recomputeRunStatusForDelayTx(Settled(ok)),
             tx' = [tx EXCEPT !.pc = "timers", !.at = 1, !.again = FALSE, !.mem = Fresh],
             UNCHANGED db
      PROVE  Inv'
  <2>1. Good(recomputeRunStatusForDelayTx(Settled(ok)))
    BY <1>1, recomputeForDelayGood
  <2>2. "timers" \in TxPlaces /\ 1 \in Nat
    BY DEF TxPlaces
  <2>3. tx' \in Transactions
    BY <1>0, <1>7, <2>2, FreshType DEF Transactions, TxRecords
  <2> QED BY <1>2, <1>7, <2>1, <2>3 DEF Inv
<1> QED BY <1>3, <1>4, <1>5, <1>6, <1>7, Zenon DEF advanceAfterStepSuccessTx

-----------------------------------------------------------------------------
(* Worker messages. *)

(* A worker that starts its attempt keeps the invariant. *)
LEMMA StartKeeps ==
  ASSUME Inv, NEW w \in Workers, NEW g \in Grants, Start(w, g)
  PROVE  Inv'
<1> DEFINE x == IF db.status = "QUEUED" THEN "RUNNING" ELSE db.status
           y == IF db.status = "QUEUED" THEN "NONE" ELSE db.reason
           a == [db.att EXCEPT ![g] = "RUNNING"]
           st == db.started \cup {g}
           d == [db EXCEPT !.att[g] = "RUNNING", !.started = @ \cup {g},
                           !.status = IF @ = "QUEUED" THEN "RUNNING" ELSE @,
                           !.reason = IF db.status = "QUEUED" THEN "NONE" ELSE @]
<1>0. db \in Rows /\ Owned(db) /\ db.att[g] = "CLAIMED" /\ Handle(d)
  BY Zenon DEF Inv, Good, Start
<1>1. x \in RunStatus /\ y \in RunReason
  BY <1>0, RowTypes DEF RunStatus, RunReason, WaitReason
<1>2. a \in Attempts
  BY <1>0, RowTypes DEF Attempts, AttemptStatus, LiveAttempt
<1>3. st \in GrantSets
  BY <1>0 DEF Rows, GrantSets
<1>4. d = [db EXCEPT !.att = a, !.started = st, !.status = x, !.reason = y]
  BY <1>0, Zenon DEF Rows
<1> HIDE DEF x, y, a, st, d
<1>5. d \in Rows /\ d.state = db.state /\ d.wait = db.wait /\ d.next = db.next
      /\ d.window = db.window /\ d.lease = db.lease /\ d.att = a
  BY <1>0, <1>1, <1>2, <1>3, <1>4, Zenon DEF Rows
<1>6. Live(d) = Live(db)
  BY <1>0, <1>5, RowTypes DEF a, Live, LiveAttempt
<1>7. Owned(d)
  BY <1>0, <1>5, <1>6 DEF Owned, OnHold, HeldAtClaim
<1> QED BY <1>0, <1>5, <1>7, HandleKeeps DEF Good

(* The attempt a worker completes was the only one of its step. *)
LEMMA CompletedGood ==
  ASSUME Inv, NEW w \in Workers, NEW g \in Grants, Completable(w, g),
         NEW a \in {"SUCCEEDED", "FAILED", "TIMED_OUT", "CANCELLED"}
  PROVE  Good(Completed(g, a)) /\ Unowned(Completed(g, a), g[1])
<1> DEFINE c == CloseAttempts(db, {g}, a)
           to == IF a = "TIMED_OUT" THEN "FAILED" ELSE a
           e == Move(c, {g[1]}, StepState, to, "NONE")
<1>1. Good(db) /\ g \in Live(db)
  BY DEF Inv, Completable, Live, LiveAttempt
<1>2. a \in AttemptStatus \ LiveAttempt
  BY DEF AttemptStatus, LiveAttempt
<1>3. Good(c) /\ Unowned(c, g[1])
  BY <1>1, <1>2, CloseGood, CloseOneUnowned
<1>4. to \in TerminalStep
  BY DEF TerminalStep
<1> HIDE DEF c, to
<1>5. Good(e)
  BY <1>3, <1>4, EndStepsGood
<1>6. e.att = c.att
  BY <1>3, Zenon DEF Move, Good, Rows
<1>7. Unowned(e, g[1])
  BY <1>3, <1>6 DEF Unowned, Live
<1> QED BY <1>5, <1>7 DEF Completed, c, to

(* Completions, successful or not, keep the invariant. *)
LEMMA CompleteKeeps ==
  ASSUME Inv, NEW w \in Workers, NEW g \in Grants,
         CompleteSucceeded(w, g) \/ \E r \in Reports : CompleteFailed(w, g, r)
  PROVE  Inv'
<1>1. CASE CompleteSucceeded(w, g)
  <2>1. Good(Completed(g, "SUCCEEDED"))
    BY <1>1, CompletedGood DEF CompleteSucceeded
  <2> QED BY <1>1, <2>1, BeginKeeps DEF CompleteSucceeded, TxKinds
<1>2. ASSUME NEW r \in Reports, CompleteFailed(w, g, r)
      PROVE  Inv'
  <2> DEFINE d == Completed(g, r.as)
             e == IF r.as = "CANCELLED" THEN failRunForStepTx(d, g[1])
                  ELSE scheduleRetryOrHoldTx(d, g[1], r)
  <2>1. r.as \in {"FAILED", "TIMED_OUT", "CANCELLED"}
    BY EngineAssumption
  <2>2. Good(d) /\ Unowned(d, g[1])
    BY <1>2, <2>1, CompletedGood DEF CompleteFailed
  <2>3. g[1] \in Nodes
    BY GrantFacts
  <2> HIDE DEF d
  <2>4. Good(e)
    BY <2>2, <2>3, failRunForStepGood, scheduleRetryOrHoldGood
  <2> HIDE DEF e
  <2>5. Good(settlePauseAfterCompletionTx(settleHoldAfterCompletionTx(e)))
    BY <2>4, settleHoldGood, settlePauseGood
  <2>6. Handle(settlePauseAfterCompletionTx(settleHoldAfterCompletionTx(e)))
    BY <1>2, Zenon DEF CompleteFailed, d, e
  <2> QED BY <2>5, <2>6, HandleKeeps
<1> QED BY <1>1, <1>2

(* Stop acknowledgements keep the invariant. *)
LEMMA StopAckKeeps ==
  ASSUME Inv, NEW w \in Workers, NEW g \in Grants, NEW stopped \in BOOLEAN,
         StopAck(w, g, stopped)
  PROVE  Inv'
<1> DEFINE x == [db.stop EXCEPT ![g] = IF stopped \/ @ = "CONFIRMED"
                                       THEN "CONFIRMED" ELSE "ACKED"]
           d == [db EXCEPT !.stop[g] = IF stopped \/ @ = "CONFIRMED"
                                       THEN "CONFIRMED" ELSE "ACKED"]
<1>0. Good(db) /\ db \in Rows /\ Handle(settleCancellingRunTx(d))
  BY Zenon DEF Inv, Good, StopAck
<1>1. db.stop \in Stops
  BY <1>0, Zenon DEF Rows
<1>2. x \in Stops /\ d = [db EXCEPT !.stop = x]
  BY <1>1 DEF Stops, StopState
<1> HIDE DEF x, d
<1>3. d \in Rows /\ Same(db, d)
  BY <1>0, <1>2, Zenon DEF Rows, Same
<1>4. Good(settleCancellingRunTx(d))
  BY <1>0, <1>3, SameGood, settleCancellingGood
<1> QED BY <1>0, <1>4, HandleKeeps

-----------------------------------------------------------------------------
(* The sweep. *)

(* The scans of the sweep keep the invariant. *)
LEMMA BeginSweepKeeps ==
  ASSUME Inv, NEW kind \in TxKinds, NEW w \in Agents,
         kind = "claim" => w \in Workers, BeginSweep(kind, w)
  PROVE  Inv'
<1>1. NoTx(Fresh) \in Transactions
  BY FreshType, NoTxType
<1>2. /\ ExpiredAttempts(db) \in GrantSets /\ Handoffs(db) \in NodeSets
      /\ (db.started # {}) \in BOOLEAN /\ "sweep" \in TxPlaces
  BY DEF ExpiredAttempts, Live, GrantSets, Handoffs, NodeSets, TxPlaces
<1>3. tx' = [NoTx(Fresh) EXCEPT !.kind = kind, !.pc = "sweep", !.w = w,
              !.grants = ExpiredAttempts(db), !.steps = Handoffs(db),
              !.started = (db.started # {})]
  BY DEF BeginSweep
<1>4. tx' \in Transactions
  BY <1>1, <1>2, <1>3, Zenon DEF Transactions, TxRecords
<1> QED BY <1>4 DEF BeginSweep, Inv

(* Reclaiming attempts and handoffs keeps the invariant. *)
LEMMA reconcileKeeps ==
  ASSUME Inv, reconcileExpiredLeasesTx
  PROVE  Inv'
<1>0. Good(wip) /\ tx \in Transactions
  BY DEF Inv
<1>1. ASSUME NEW g \in Grants, ReclaimAttempt(g)
      PROVE  Inv'
  <2>1. Good(wip')
    <3>1. CASE Reclaimable(wip, g)
      BY <1>0, <1>1, <3>1, reclaimAttemptGood DEF ReclaimAttempt, Reclaimable
    <3> QED BY <1>0, <1>1, <3>1 DEF ReclaimAttempt
  <2>2. /\ tx.grants \ {g} \in GrantSets
        /\ (tx.hit \/ Reclaimable(wip, g)) \in BOOLEAN
    BY <1>0 DEF Transactions, TxRecords, GrantSets
  <2>3. tx' = [tx EXCEPT !.grants = tx.grants \ {g}, !.hit = tx.hit \/ Reclaimable(wip, g)]
    BY <1>1 DEF ReclaimAttempt
  <2>4. tx' \in Transactions
    BY <1>0, <2>2, <2>3, Zenon DEF Transactions, TxRecords
  <2> QED BY <1>1, <2>1, <2>4 DEF ReclaimAttempt, Inv
<1>2. ASSUME NEW s \in Nodes, ReclaimHandoff(s)
      PROVE  Inv'
  <2> DEFINE stale == wip.status \in TerminalRun \cup {"CANCELLING", "PAUSED"}
  <2>1. Good(wip')
    BY <1>0, <1>2, reclaimHandoffGood DEF ReclaimHandoff
  <2>2. tx.steps \ {s} \in NodeSets /\ (tx.hit \/ ~stale) \in BOOLEAN
    BY <1>0 DEF Transactions, TxRecords, NodeSets
  <2>3. tx' = [tx EXCEPT !.steps = tx.steps \ {s}, !.hit = tx.hit \/ ~stale]
    BY <1>2 DEF ReclaimHandoff
  <2> HIDE DEF stale
  <2>4. tx' \in Transactions
    BY <1>0, <2>2, <2>3, Zenon DEF Transactions, TxRecords
  <2> QED BY <1>2, <2>1, <2>4 DEF ReclaimHandoff, Inv
<1> QED BY <1>1, <1>2 DEF reconcileExpiredLeasesTx

(* What the sweep leaves is sound. *)
LEMMA SweptRowsGood ==
  ASSUME Inv
  PROVE  Good(SweptRows)
BY settlePauseGood, fireDueRetryGood DEF Inv, SweptRows

(* The end of the periodic sweep keeps the invariant. *)
LEMMA EndSweepKeeps ==
  ASSUME Inv, EndSweep
  PROVE  Inv'
<1>1. PICK s \in ChargeableSteps(SweptRows) :
        Handle(settleCancellingRunTx(failOverdueRunsTx(SweptRows, s)))
  BY DEF EndSweep
<1>2. Good(failOverdueRunsTx(SweptRows, s))
  BY SweptRowsGood, settleExpiredRunGood DEF failOverdueRunsTx
<1>3. Good(settleCancellingRunTx(failOverdueRunsTx(SweptRows, s)))
  BY <1>2, settleCancellingGood
<1> QED BY <1>1, <1>3, HandleKeeps

-----------------------------------------------------------------------------
(* Polls and claims. *)

(* Reading candidates, or dropping them, keeps the invariant. *)
LEMMA PollKeeps ==
  ASSUME Inv, NEW w \in Workers, Poll(w) \/ DropPoll(w)
  PROVE  Inv'
<1>1. poll \in Polls /\ db \in Rows
  BY DEF Inv, Good
<1>2. db.sess[w] \in Nat
  BY <1>1 DEF Rows, Sessions
<1>3. ASSUME NEW S \in SUBSET Claimable(db)
      PROVE  [sess |-> db.sess[w], steps |-> S] \in [sess : Nat, steps : NodeSets]
  BY <1>2 DEF Claimable, NodeSets
<1>4. NoPoll \in [sess : Nat, steps : NodeSets]
  BY DEF NoPoll, NodeSets
<1>5. poll' \in Polls
  BY <1>1, <1>3, <1>4 DEF Poll, DropPoll, Polls
<1> QED BY <1>5 DEF Poll, DropPoll, Inv

(* Ending a poll with sound rows keeps the invariant. *)
LEMMA EndPollKeeps ==
  ASSUME Inv, NEW d, Good(d), EndPoll(d)
  PROVE  Inv'
<1>1. poll' \in Polls
  BY DEF EndPoll, Inv, Polls, NoPoll, NodeSets
<1> QED BY <1>1, CommitKeeps DEF EndPoll

(* Parking a run for quota is sound. *)
LEMMA quotaWaitGood ==
  ASSUME NEW d, Good(d)
  PROVE  Good(quotaWaitTx(d))
<1> DEFINE starved == d.status \in {"QUEUED", "RUNNING"} /\ InState(d, {"READY"}) # {}
           x == IF starved THEN "WAITING" ELSE d.status
           y == IF starved THEN "QUOTA_WAIT" ELSE d.reason
<1>1. d \in Rows
  BY DEF Good
<1>2. x \in RunStatus /\ y \in RunReason
  BY <1>1, RowTypes DEF RunStatus, RunReason
<1>3. quotaWaitTx(d) = [d EXCEPT !.status = x, !.reason = y]
  BY <1>1, Zenon DEF quotaWaitTx, Rows
<1> HIDE DEF x, y
<1>4. Good([d EXCEPT !.status = x, !.reason = y])
  BY <1>2, StatusGood
<1> QED BY <1>3, <1>4

(* Admission of a poll keeps the invariant. *)
LEMMA AdmitKeeps ==
  ASSUME Inv, Admit
  PROVE  Inv'
<1>0. tx \in Transactions /\ poll \in Polls /\ Good(SweptRows)
  BY SweptRowsGood DEF Inv
<1>1. CASE EndPoll(quotaWaitTx(SweptRows))
  BY <1>0, <1>1, quotaWaitGood, EndPollKeeps
<1>2. ASSUME NEW S \in SUBSET poll[tx.w].steps, tx.kind = "claim",
             wip' = SweptRows, tx' = [tx EXCEPT !.pc = "pick", !.steps = S],
             UNCHANGED <<db, poll>>
      PROVE  Inv'
  <2>0. tx.w \in Workers
    BY <1>0, <1>2 DEF Transactions
  <2>1. S \in NodeSets /\ "pick" \in TxPlaces
    BY <1>0, <1>2, <2>0 DEF Polls, NodeSets, TxPlaces
  <2>2. tx' \in Transactions
    BY <1>0, <1>2, <2>0, <2>1 DEF Transactions, TxRecords
  <2> QED BY <1>0, <1>2, <2>2 DEF Inv
<1> QED BY <1>1, <1>2, Zenon DEF Admit, Reconciled

(* Minting the idempotency window is sound and moves no step. *)
LEMMA admissionGood ==
  ASSUME NEW d, Good(d), NEW s \in Nodes
  PROVE  LET e == claimIdempotencyAdmissionTx(d, s)
         IN Good(e) /\ e.state = d.state /\ e.next = d.next /\ e.att = d.att
<1> DEFINE x == [d.window EXCEPT ![s] = IF Recovery[s] = "idempotent" /\ @ = "UNSET"
                                        THEN "OPEN" ELSE @]
           e == claimIdempotencyAdmissionTx(d, s)
<1>0. d \in Rows /\ Owned(d)
  BY DEF Good
<1>1. x \in Windows
  BY <1>0, RowTypes DEF Windows
<1>2. e = [d EXCEPT !.window = x]
  BY DEF claimIdempotencyAdmissionTx
<1>3. \A n \in Nodes : d.window[n] = "CLOSED" => x[n] = "CLOSED"
  BY <1>0, RowTypes
<1> HIDE DEF x, e
<1>4. e \in Rows /\ e.state = d.state /\ e.wait = d.wait /\ e.next = d.next
      /\ e.window = x /\ e.lease = d.lease /\ e.att = d.att
  BY <1>0, <1>1, <1>2, Zenon DEF Rows
<1>5. Live(e) = Live(d)
  BY <1>4 DEF Live
<1>6. \A g \in Live(e) : g[1] \in Nodes
  BY GrantFacts DEF Live
<1>7. Owned(e)
  BY <1>0, <1>3, <1>4, <1>5, <1>6 DEF Owned, OnHold, HeldAtClaim
<1> QED BY <1>4, <1>7 DEF Good, e

(* The heart of the matter: launching a READY step that is rechecked under *)
(* the lock makes its only live attempt, with the next number and the only *)
(* lease.                                                                  *)
LEMMA launchGood ==
  ASSUME NEW d, Good(d), NEW s \in Nodes, NEW w \in Workers, Launchable(d, s)
  PROVE  Good(launchTx(d, s, w))
<1> DEFINE g == <<s, d.next[s]>>
           x == IF d.reason = "QUOTA_WAIT" THEN "RUNNING" ELSE d.status
           y == IF d.reason = "QUOTA_WAIT" THEN "NONE" ELSE d.reason
           st == [d.state EXCEPT ![s] = "RUNNING"]
           wt == [d.wait EXCEPT ![s] = "NONE"]
           nx == [d.next EXCEPT ![s] = @ + 1]
           at == [d.att EXCEPT ![g] = "CLAIMED"]
           ow == [d.owner EXCEPT ![g] = <<w, d.sess[w]>>]
           ls == [d.lease EXCEPT ![s] = d.next[s]]
           lt == [d.late EXCEPT ![s] = {}]
           e == [d EXCEPT !.state = st, !.wait = wt, !.next = nx, !.att = at, !.owner = ow,
                          !.lease = ls, !.late = lt, !.status = x, !.reason = y]
<1>0. d \in Rows /\ Owned(d)
  BY DEF Good
<1>1. /\ d.state[s] = "READY" /\ d.next[s] \in Nat /\ d.next[s] >= 1
      /\ d.next[s] <= MaxAttempts /\ MaxAttempts \in Nat
  BY <1>0, RowTypes, WorkflowAssumption DEF Launchable, Owned
<1>2. g \in Grants /\ g[1] = s /\ g[2] = d.next[s]
  BY <1>1 DEF Grants
<1>3. Unowned(d, s)
  BY <1>1, FreeStep
<1>4. x \in RunStatus /\ y \in RunReason /\ st \in StepStates /\ wt \in StepWaits
  BY <1>0, RowTypes DEF RunStatus, RunReason, WaitReason, StepStates, StepWaits, StepState, OpenStep
<1>5. nx \in Counts /\ ls \in Counts /\ at \in Attempts
  BY <1>0, <1>1, <1>2, RowTypes DEF Counts, Attempts, AttemptStatus, LiveAttempt
<1>6. ow \in Owners /\ lt \in PastDeadlines
  BY <1>0, <1>2 DEF Rows, Owners, PastDeadlines, Sessions
<1>7. launchTx(d, s, w) = e
  BY <1>0, Zenon DEF launchTx, Rows
<1> HIDE DEF g, x, y, st, wt, nx, at, ow, ls, lt
<1>8. /\ e \in Rows /\ e.state = st /\ e.wait = wt /\ e.next = nx /\ e.window = d.window
      /\ e.lease = ls /\ e.att = at
  BY <1>0, <1>4, <1>5, <1>6, Zenon DEF Rows
<1> HIDE DEF e
<1>9. Live(e) = Live(d) \cup {g}
  BY <1>0, <1>2, <1>8, RowTypes DEF Live, at, LiveAttempt
<1>10. /\ e.state[s] = "RUNNING" /\ e.next[s] = d.next[s] + 1 /\ e.lease[s] = d.next[s]
       /\ \A n \in Nodes \ {s} : /\ e.state[n] = d.state[n] /\ e.wait[n] = d.wait[n]
                                   /\ e.next[n] = d.next[n] /\ e.lease[n] = d.lease[n]
  BY <1>0, <1>8, RowTypes DEF st, wt, nx, ls
<1>11. ASSUME NEW h \in Live(e)
       PROVE  /\ h[2] = e.next[h[1]] - 1 /\ e.lease[h[1]] = h[2]
              /\ \/ e.state[h[1]] \in TerminalStep \cup {"RUNNING"}
                 \/ OnHold(e, h[1]) /\ HeldAtClaim(e, h[1])
  <2>1. CASE h = g
    BY <1>1, <1>2, <1>10, <2>1
  <2>2. CASE h # g
    <3>1. h \in Live(d) /\ h[1] \in Nodes \ {s}
      BY <1>3, <1>9, <2>2, GrantFacts DEF Unowned, Live
    <3> QED BY <1>0, <1>8, <1>10, <3>1 DEF Owned, OnHold, HeldAtClaim
  <2> QED BY <2>1, <2>2
<1>12. ASSUME NEW n \in Nodes
       PROVE  /\ e.lease[n] # 0 => <<n, e.lease[n]>> \in Live(e)
              /\ e.next[n] >= 1 /\ e.next[n] <= MaxAttempts + 1
              /\ e.state[n] = "BLOCKED" => e.next[n] = 1
              /\ \/ e.state[n] = "READY"
                 \/ e.state[n] = "WAITING" /\ e.wait[n] = "RETRY_BACKOFF"
                 => e.next[n] <= MaxAttempts
  <2>1. CASE n = s
    <3>1. g = <<s, e.lease[s]>>
      BY <1>10 DEF g
    <3> QED BY <1>1, <1>9, <1>10, <2>1, <3>1
  <2>2. CASE n # s
    BY <1>0, <1>9, <1>10, <2>2 DEF Owned
  <2> QED BY <2>1, <2>2
<1> QED BY <1>7, <1>8, <1>11, <1>12 DEF Good, Owned

(* Failing a run for a missing artifact is sound. *)
LEMMA artifactGood ==
  ASSUME NEW d, Good(d), NEW s
  PROVE  Good(artifactUnavailableTx(d, s))
<1> DEFINE e == Move(d, {s}, {"READY"}, "FAILED", "NONE")
           f == Move(e, Nodes, {"BLOCKED", "READY", "WAITING"}, "CANCELLED", "NONE")
<1>1. Good(e)
  BY EndStepsGood DEF TerminalStep
<1> HIDE DEF e
<1>2. Good(f)
  BY <1>1, EndStepsGood DEF TerminalStep
<1> HIDE DEF f
<1>3. Good(RunFailed(f))
  BY <1>2, RunFailedGood
<1> QED BY <1>1, <1>3, Zenon DEF artifactUnavailableTx, e, f

(* Every outcome of claiming a candidate keeps the invariant. *)
LEMMA ClaimStepKeeps ==
  ASSUME Inv, NEW s \in Nodes, NEW available \in BOOLEAN, ClaimStep(s, available)
  PROVE  Inv'
<1> DEFINE d == claimIdempotencyAdmissionTx(wip, s)
<1>0. Good(wip) /\ tx \in Transactions /\ tx.pc = "pick"
  BY DEF Inv, ClaimStep
<1>1. tx.w \in Workers /\ tx.steps \ {s} \in NodeSets
  BY <1>0 DEF Transactions, TxRecords, NodeSets
<1>2. Good(d)
  BY <1>0, admissionGood
<1>3. HeldAtClaim(wip, s) => Good(routeStepToReconciliationTx(wip, s))
  BY <1>0, RouteGood
<1> HIDE DEF d
<1>4. Good(artifactUnavailableTx(d, s))
  BY <1>2, artifactGood
<1>5. Launchable(d, s) => Good(launchTx(d, s, tx.w))
  BY <1>1, <1>2, launchGood
<1>6. Good(wip')
  BY <1>2, <1>3, <1>4, <1>5, Zenon DEF ClaimStep, d
<1>7. tx' = [tx EXCEPT !.steps = tx.steps \ {s}]
  BY DEF ClaimStep
<1>8. tx' \in Transactions
  BY <1>0, <1>1, <1>7 DEF Transactions, TxRecords
<1> QED BY <1>6, <1>8 DEF ClaimStep, Inv

-----------------------------------------------------------------------------
(* Scheduled work. *)

(* Reading the due delays keeps the invariant. *)
LEMMA FireDueKeeps ==
  ASSUME Inv, FireDueDelayTimers
  PROVE  Inv'
<1> DEFINE S == {s \in Nodes : db.delay[s] = "DUE"}
<1>1. NoTx(Fresh) \in Transactions /\ S \in NodeSets
  BY FreshType, NoTxType DEF NodeSets
<1>2. tx' = [NoTx(Fresh) EXCEPT !.kind = "delay", !.pc = "timers", !.steps = S]
  BY DEF FireDueDelayTimers
<1>3. "delay" \in TxKinds /\ "timers" \in TxPlaces
  BY DEF TxKinds, TxPlaces
<1> HIDE DEF S
<1>4. tx' \in Transactions
  BY <1>1, <1>2, <1>3 DEF Transactions, TxRecords
<1> QED BY <1>4 DEF FireDueDelayTimers, Inv

(* Firing a delay keeps the invariant. *)
LEMMA FireDelayKeeps ==
  ASSUME Inv, NEW s \in Nodes, FireDelay(s)
  PROVE  Inv'
<1> DEFINE fires == /\ \/ wip.status \in {"QUEUED", "RUNNING"}
                       \/ wip.status = "WAITING" /\ wip.reason = "DELAY"
                    /\ wip.clock # "over"
                    /\ wip.state[s] = "WAITING" /\ wip.wait[s] = "DELAY"
           m == Move(wip, {s}, {"WAITING"}, "SUCCEEDED", "NONE")
           x == [m.delay EXCEPT ![s] = "NONE"]
           d == [m EXCEPT !.delay[s] = "NONE"]
<1>0. Good(wip) /\ tx \in Transactions
  BY DEF Inv
<1>1. Good(m)
  BY <1>0, EndStepsGood DEF TerminalStep
<1>2. /\ wip' = IF fires THEN d ELSE wip
      /\ tx' = [tx EXCEPT !.steps = tx.steps \ {s},
                          !.pc = IF fires THEN "dag" ELSE tx.pc,
                          !.mem = IF fires THEN d.state ELSE tx.mem]
      /\ tx.pc = "timers"
  BY <1>0, Zenon DEF FireDelay, Transactions, TxRecords
<1> HIDE DEF m, fires
<1>3. x \in Timers
  BY <1>1 DEF Good, Rows, Timers, TimerState
<1>4. d = [m EXCEPT !.delay = x]
  OBVIOUS
<1> HIDE DEF x, d
<1>5. Good(d)
  BY <1>1, <1>3, <1>4, TimerGood
<1>6. d.state \in StepStates
  BY <1>5, Zenon DEF Good, Rows
<1>7. /\ tx.steps \ {s} \in NodeSets /\ (IF fires THEN "dag" ELSE tx.pc) \in TxPlaces \ {"pick"}
      /\ (IF fires THEN d.state ELSE tx.mem) \in StepStates
  BY <1>0, <1>2, <1>6 DEF Transactions, TxRecords, TxPlaces, NodeSets
<1>8. tx' \in Transactions
  BY <1>0, <1>2, <1>7 DEF Transactions, TxRecords
<1> QED BY <1>0, <1>2, <1>5, <1>8 DEF FireDelay, Inv

(* Expiring approvals is sound. *)
LEMMA expireApprovalGood ==
  ASSUME NEW d, Good(d), NEW S
  PROVE  Good(expireApprovalTx(d, S))
<1> DEFINE s == CHOOSE x \in S : TRUE
           f == failRunForStepTx(d, s)
           m == Move(f, S, StepState, "FAILED", "NONE")
           x == [n \in Nodes |-> IF n \in S THEN "EXPIRED" ELSE d.appr[n]]
           n == IF Cardinality(S) > 1 THEN 2 ELSE m.ends
           e == [m EXCEPT !.appr = x, !.ends = n]
<1>1. Good(f)
  BY failRunForStepGood
<1> HIDE DEF f
<1>2. Good(m)
  BY <1>1, EndStepsGood DEF TerminalStep
<1> HIDE DEF m
<1>3. x \in Approvals
  BY DEF Good, Rows, Approvals, ApprovalState
<1>4. n \in EventCount
  BY <1>2 DEF Good, Rows, EventCount
<1>5. m \in Rows
  BY <1>2 DEF Good
<1>6. expireApprovalTx(d, S) = e
  BY <1>5, Zenon DEF expireApprovalTx, m, f, Rows
<1> HIDE DEF x, n
<1>7. e \in Rows /\ Same(m, e)
  BY <1>3, <1>4, <1>5, Zenon DEF Rows, Same
<1> HIDE DEF e
<1> QED BY <1>2, <1>6, <1>7, SameGood

(* The control plane's loops keep the invariant. *)
LEMMA SchedulerKeeps ==
  ASSUME Inv, Scheduler
  PROVE  Inv'
<1>0. Good(db)
  BY DEF Inv
<1>1. CASE ReconcileExpiredLeases
  BY <1>1, BeginSweepKeeps DEF ReconcileExpiredLeases, TxKinds, Agents
<1>2. CASE ReconcileReadyWork
  BY <1>0, <1>2, BeginKeeps DEF ReconcileReadyWork, TxKinds
<1>3. CASE SweepExpiredApprovals
  <2>1. Good(expireApprovalTx(db, Overdue(db)))
    BY <1>0, expireApprovalGood
  <2> QED BY <1>3, <2>1, HandleKeeps DEF SweepExpiredApprovals
<1>4. CASE TerminalizeHistoryLimitExceeded
  <2>1. Good(historyLimitTx(db))
    BY <1>0, historyLimitGood
  <2> QED BY <1>4, <2>1, HandleKeeps DEF TerminalizeHistoryLimitExceeded
<1> QED BY <1>1, <1>2, <1>3, <1>4, FireDueKeeps DEF Scheduler

(* Every step inside a transaction keeps the invariant. *)
LEMMA TransactionKeeps ==
  ASSUME Inv, Transaction
  PROVE  Inv'
<1>1. CASE EndClaim
  BY <1>1, EndPollKeeps DEF EndClaim, Inv
<1>2. CASE EndDelays
  BY <1>2, HandleKeeps DEF EndDelays, Inv
<1> QED BY <1>1, <1>2, evaluateKeeps, advanceKeeps, reconcileKeeps, EndSweepKeeps,
           AdmitKeeps, FireDelayKeeps, ClaimStepKeeps, Zenon DEF Transaction

-----------------------------------------------------------------------------
(* Operator commands. *)

(* The run fields a pause writes are sound. *)
LEMMA PauseFieldsGood ==
  ASSUME NEW d, Good(d), NEW x \in RunStatus, NEW y \in RunReason, NEW p \in BOOLEAN
  PROVE  Good([d EXCEPT !.status = x, !.reason = y, !.pause = p])
<1> DEFINE e == [d EXCEPT !.status = x, !.reason = y, !.pause = p]
<1>1. d \in Rows
  BY DEF Good
<1>2. e \in Rows /\ Same(d, e)
  BY <1>1, Zenon DEF Rows, Same
<1> QED BY <1>2, SameGood

(* pauseRunTx is sound. *)
LEMMA pauseRunGood ==
  ASSUME NEW d, Good(d)
  PROVE  Good(pauseRunTx(d))
<1> DEFINE x == IF Live(d) # {} THEN "PAUSING" ELSE "PAUSED"
<1>1. x \in RunStatus /\ "PAUSE_REQUESTED" \in RunReason
  BY DEF RunStatus, RunReason
<1> HIDE DEF x
<1>2. Good([d EXCEPT !.status = x, !.reason = "PAUSE_REQUESTED", !.pause = TRUE])
  BY <1>1, PauseFieldsGood
<1> QED BY <1>2, Zenon DEF pauseRunTx, x

(* resumeRunTx is sound. *)
LEMMA resumeRunGood ==
  ASSUME NEW d, Good(d), NEW ok
  PROVE  Good(resumeRunTx(d, ok))
<1> DEFINE e == settleRunTerminalTx(d, d.state, ok)
           x == ResumedAs(d)[1]
           y == ResumedAs(d)[2]
<1>1. x \in RunStatus /\ y \in RunReason
  BY DEF ResumedAs, RunStatus, RunReason, WaitReason
<1>2. Good(e)
  BY settleRunTerminalGood
<1> HIDE DEF e, x, y
<1>3. Good([d EXCEPT !.status = x, !.reason = y, !.pause = FALSE])
  BY <1>1, PauseFieldsGood
<1>4. Good([e EXCEPT !.pause = FALSE])
  <2> DEFINE f == [e EXCEPT !.pause = FALSE]
  <2>1. e \in Rows
    BY <1>2 DEF Good
  <2>2. f \in Rows /\ Same(e, f)
    BY <2>1, Zenon DEF Rows, Same
  <2> QED BY <1>2, <2>2, SameGood
<1> QED BY <1>3, <1>4, Zenon DEF resumeRunTx, e, x, y

(* Deciding an approval keeps the invariant. *)
LEMMA DecideKeeps ==
  ASSUME Inv, NEW s \in Nodes, NEW decision \in {"APPROVED", "REJECTED"},
         DecideApproval(s, decision)
  PROVE  Inv'
<1> DEFINE x == [db.appr EXCEPT ![s] = decision]
           d == [db EXCEPT !.appr[s] = decision]
           m == Move(d, {s}, {"WAITING"}, "SUCCEEDED", "NONE")
<1>1. Good(db) /\ db.appr \in Approvals
  BY Zenon DEF Inv, Good, Rows
<1>2. x \in Approvals /\ d = [db EXCEPT !.appr = x]
  BY <1>1 DEF Approvals, ApprovalState
<1>3. Handle(failRunForStepTx(d, s)) \/ Begin("decide", m)
  BY Zenon DEF DecideApproval
<1> HIDE DEF x
<1>4. Good(d)
  BY <1>1, <1>2, ApprGood
<1> HIDE DEF d
<1>5. Good(failRunForStepTx(d, s)) /\ Good(m)
  BY <1>4, failRunForStepGood, EndStepsGood DEF TerminalStep
<1> HIDE DEF m
<1> QED BY <1>3, <1>5, HandleKeeps, BeginKeeps DEF TxKinds

(* Closing a case is sound. *)
LEMMA CaseGood ==
  ASSUME NEW d, Good(d), NEW s \in Nodes, d.cases[s] > 0
  PROVE  Good(markCaseResolvedTx(d, s))
<1> DEFINE x == [d.cases EXCEPT ![s] = @ - 1]
           e == [d EXCEPT !.cases = x]
<1>1. d \in Rows /\ d.cases \in Counts
  BY Zenon DEF Good, Rows
<1>2. x \in Counts
  BY <1>1 DEF Counts
<1>3. markCaseResolvedTx(d, s) = e
  BY DEF markCaseResolvedTx
<1> HIDE DEF x
<1>4. e \in Rows /\ Same(d, e)
  BY <1>1, <1>2, Zenon DEF Rows, Same
<1> HIDE DEF e
<1> QED BY <1>3, <1>4, SameGood

(* Resolving a case as succeeded keeps the invariant. *)
LEMMA ResolveSucceedKeeps ==
  ASSUME Inv, NEW s \in Nodes, ResolveSucceed(s)
  PROVE  Inv'
<1> DEFINE m == IF OnHold(db, s) THEN Move(db, {s}, {"WAITING"}, "SUCCEEDED", "NONE") ELSE db
           d == markCaseResolvedTx(m, s)
<1>1. Good(db) /\ db.cases[s] > 0
  BY DEF Inv, ResolveSucceed, Resolvable
<1>2. Good(m)
  BY <1>1, EndStepsGood DEF TerminalStep
<1>3. m.cases = db.cases
  BY <1>1, Zenon DEF Move, Good, Rows
<1>4. Begin("resolve", d) \/ Handle(d)
  BY Zenon DEF ResolveSucceed
<1> HIDE DEF m
<1>5. Good(d)
  BY <1>1, <1>2, <1>3, CaseGood
<1> HIDE DEF d
<1> QED BY <1>4, <1>5, HandleKeeps, BeginKeeps DEF TxKinds

(* Resolving a case with a retry keeps the invariant: the held step has no *)
(* live attempt, and budget.                                               *)
LEMMA ResolveRetryKeeps ==
  ASSUME Inv, NEW s \in Nodes, ResolveRetry(s)
  PROVE  Inv'
<1> DEFINE x == [db.retry EXCEPT ![s] = IF @ = "NONE" THEN "PENDING" ELSE @]
           y == [db.wait EXCEPT ![s] = "RETRY_BACKOFF"]
           m == [db EXCEPT !.retry[s] = IF @ = "NONE" THEN "PENDING" ELSE @,
                           !.wait[s] = "RETRY_BACKOFF"]
           d == markCaseResolvedTx(m, s)
<1>1. Good(db) /\ db \in Rows /\ db.cases[s] > 0
  BY DEF Inv, Good, ResolveRetry, Resolvable
<1>2. db.next[s] <= MaxAttempts /\ db.state[s] = "WAITING"
  BY DEF ResolveRetry, HasRetryBudget, OnHold
<1>3. Unowned(db, s)
  <2>1. OnHold(db, s) /\ ~HeldAtClaim(db, s)
    BY DEF ResolveRetry, HeldAtClaim, Idempotent
  <2> QED BY <1>1, <2>1, FreeStep
<1>4. x \in Timers
  BY <1>1 DEF Rows, Timers, TimerState
<1>5. y \in StepWaits
  BY <1>1, RowTypes DEF StepWaits, WaitReason
<1>6. m = [db EXCEPT !.retry = x, !.wait = y]
  BY <1>1, Zenon DEF Rows
<1>7. Handle(releaseHoldTx(d, "retry")) \/ Handle(d)
  BY Zenon DEF ResolveRetry
<1>8. db.state = [db.state EXCEPT ![s] = "WAITING"]
  BY <1>1, <1>2, RowTypes
<1> HIDE DEF x, m
<1>9. /\ m \in Rows /\ m.state = db.state /\ m.wait = y /\ m.next = db.next
      /\ m.window = db.window /\ m.lease = db.lease /\ m.att = db.att /\ m.cases = db.cases
  BY <1>1, <1>4, <1>5, <1>6, Zenon DEF Rows
<1>10. Good(m)
  BY <1>1, <1>2, <1>3, <1>8, <1>9, WaitGood DEF WaitReason
<1>11. Good(d)
  BY <1>1, <1>9, <1>10, CaseGood
<1> HIDE DEF d
<1>12. Good(releaseHoldTx(d, "retry"))
  BY <1>11, releaseHoldGood
<1> QED BY <1>7, <1>11, <1>12, HandleKeeps

(* Operator commands keep the invariant. *)
LEMMA OperatorKeeps ==
  ASSUME Inv, Operator
  PROVE  Inv'
<1>0. Good(db)
  BY DEF Inv
<1>1. CASE PauseRun
  BY <1>0, <1>1, pauseRunGood, HandleKeeps DEF PauseRun
<1>2. CASE ResumeRun
  BY <1>0, <1>2, resumeRunGood, HandleKeeps DEF ResumeRun
<1>3. CASE settleOverdueRunForControl
  BY <1>0, <1>3, settleExpiredRunGood, HandleKeeps DEF settleOverdueRunForControl
<1>4. CASE CancelRun
  BY <1>0, <1>4, cancelRunGood, HandleKeeps DEF CancelRun
<1>5. ASSUME NEW s \in Nodes, settleExpiredApproval(s)
      PROVE  Inv'
  <2>1. Good(expireApprovalTx(db, {s}))
    BY <1>0, expireApprovalGood
  <2> QED BY <1>5, <2>1, HandleKeeps DEF settleExpiredApproval
<1>6. ASSUME NEW s \in Nodes, ResolveFail(s)
      PROVE  Inv'
  BY <1>0, <1>6, failRunForStepGood, HandleKeeps DEF ResolveFail
<1> QED BY <1>1, <1>2, <1>3, <1>4, <1>5, <1>6, DecideKeeps, ResolveSucceedKeeps,
           ResolveRetryKeeps, Zenon DEF Operator

-----------------------------------------------------------------------------
(* Worker sessions. *)

(* The session fields are sound. *)
LEMMA SessionGood ==
  ASSUME NEW d, Good(d), NEW x \in Sessions, NEW y \in WorkerSets, NEW z \in WorkerStates
  PROVE  Good([d EXCEPT !.sess = x, !.on = y, !.worker = z])
<1> DEFINE e == [d EXCEPT !.sess = x, !.on = y, !.worker = z]
<1>1. d \in Rows
  BY DEF Good
<1>2. e \in Rows /\ Same(d, e)
  BY <1>1, Zenon DEF Rows, Same
<1> QED BY <1>2, SameGood

(* Sessions opened, and workers revoked or drained, keep the invariant. *)
LEMMA SessionKeeps ==
  ASSUME Inv, NEW w \in Workers, CreateSession(w) \/ RevokeWorker(w) \/ DrainWorker(w)
  PROVE  Inv'
<1> DEFINE f == FenceWorkerSessions(db, w)
<1>0. Good(db) /\ Good(f)
  BY FenceGood DEF Inv
<1> HIDE DEF f
<1>1. ASSUME NEW d, Good(d)
      PROVE  /\ d \in Rows
             /\ d.sess \in Sessions /\ d.on \in WorkerSets /\ d.worker \in WorkerStates
             /\ [d.sess EXCEPT ![w] = @ + 1] \in Sessions
             /\ d.on \cup {w} \in WorkerSets /\ d.on \ {w} \in WorkerSets
             /\ [d.worker EXCEPT ![w] = "REVOKED"] \in WorkerStates
             /\ [d.worker EXCEPT ![w] = "DRAINING"] \in WorkerStates
  BY <1>1 DEF Good, Rows, Sessions, WorkerSets, WorkerStates, WorkerStatus
<1>2. CASE CreateSession(w)
  <2> DEFINE x == [f.sess EXCEPT ![w] = @ + 1]
             y == f.on \cup {w}
             e == [f EXCEPT !.sess[w] = @ + 1, !.on = @ \cup {w}]
  <2>1. Handle(e)
    BY <1>2 DEF CreateSession, f
  <2>2. f \in Rows /\ x \in Sessions /\ y \in WorkerSets /\ f.worker \in WorkerStates
    BY <1>0, <1>1
  <2>3. e = [f EXCEPT !.sess = x, !.on = y, !.worker = f.worker]
    BY <2>2, Zenon DEF Rows
  <2> HIDE DEF x, y, e
  <2>4. Good(e)
    BY <1>0, <2>2, <2>3, SessionGood
  <2> QED BY <2>1, <2>4, HandleKeeps
<1>3. CASE RevokeWorker(w)
  <2> DEFINE z == [f.worker EXCEPT ![w] = "REVOKED"]
             y == f.on \ {w}
             e == [f EXCEPT !.worker[w] = "REVOKED", !.on = @ \ {w}]
  <2>1. Handle(e)
    BY <1>3 DEF RevokeWorker, f
  <2>2. f \in Rows /\ z \in WorkerStates /\ y \in WorkerSets /\ f.sess \in Sessions
    BY <1>0, <1>1
  <2>3. e = [f EXCEPT !.sess = f.sess, !.on = y, !.worker = z]
    BY <2>2, Zenon DEF Rows
  <2> HIDE DEF z, y, e
  <2>4. Good(e)
    BY <1>0, <2>2, <2>3, SessionGood
  <2> QED BY <2>1, <2>4, HandleKeeps
<1>4. CASE DrainWorker(w)
  <2> DEFINE z == [db.worker EXCEPT ![w] = "DRAINING"]
             e == [db EXCEPT !.worker[w] = "DRAINING"]
  <2>1. Handle(e)
    BY <1>4 DEF DrainWorker
  <2>2. /\ db \in Rows /\ z \in WorkerStates /\ db.on \in WorkerSets
        /\ db.sess \in Sessions
    BY <1>0, <1>1
  <2>3. e = [db EXCEPT !.sess = db.sess, !.on = db.on, !.worker = z]
    BY <2>2, Zenon DEF Rows
  <2> HIDE DEF z, e
  <2>4. Good(e)
    BY <1>0, <2>2, <2>3, SessionGood
  <2> QED BY <2>1, <2>4, HandleKeeps
<1> QED BY <1>2, <1>3, <1>4

(* Everything a worker does keeps the invariant. *)
LEMMA WorkerKeeps ==
  ASSUME Inv, Worker
  PROVE  Inv'
<1>1. ASSUME NEW w \in Workers, BeginClaim(w)
      PROVE  Inv'
  BY <1>1, BeginSweepKeeps DEF BeginClaim, TxKinds, Agents
<1> QED BY <1>1, PollKeeps, SessionKeeps, StartKeeps, CompleteKeeps, StopAckKeeps, Zenon
        DEF Worker

-----------------------------------------------------------------------------
(* Database time. *)

(* Deadlines of attempts that pass are sound. *)
LEMMA LateGood ==
  ASSUME NEW d, Good(d), NEW x \in PastDeadlines
  PROVE  Good([d EXCEPT !.late = x])
<1> DEFINE e == [d EXCEPT !.late = x]
<1>1. d \in Rows
  BY DEF Good
<1>2. e \in Rows /\ Same(d, e)
  BY <1>1, Zenon DEF Rows, Same
<1> QED BY <1>2, SameGood

(* The run's deadline and the cancellation grace passing are sound. *)
LEMMA ClockGood ==
  ASSUME NEW d, Good(d), NEW x \in RunClock, NEW y \in BOOLEAN
  PROVE  Good([d EXCEPT !.clock = x]) /\ Good([d EXCEPT !.grace = y])
<1> DEFINE e == [d EXCEPT !.clock = x]
           f == [d EXCEPT !.grace = y]
<1>1. d \in Rows
  BY DEF Good
<1>2. e \in Rows /\ Same(d, e)
  BY <1>1, Zenon DEF Rows, Same
<1>3. f \in Rows /\ Same(d, f)
  BY <1>1, Zenon DEF Rows, Same
<1> QED BY <1>2, <1>3, SameGood

(* An idempotency window closing is sound. *)
LEMMA WindowGood ==
  ASSUME NEW d, Good(d), NEW s \in Nodes, d.window[s] = "OPEN"
  PROVE  Good([d EXCEPT !.window[s] = "CLOSED"])
<1> DEFINE x == [d.window EXCEPT ![s] = "CLOSED"]
           e == [d EXCEPT !.window[s] = "CLOSED"]
<1>0. d \in Rows /\ Owned(d)
  BY DEF Good
<1>1. x \in Windows /\ \A n \in Nodes : d.window[n] = "CLOSED" => x[n] = "CLOSED"
  BY <1>0, RowTypes DEF Windows
<1>2. e = [d EXCEPT !.window = x]
  OBVIOUS
<1> HIDE DEF x, e
<1>3. e \in Rows /\ e.state = d.state /\ e.wait = d.wait /\ e.next = d.next
      /\ e.window = x /\ e.lease = d.lease /\ e.att = d.att
  BY <1>0, <1>1, <1>2, Zenon DEF Rows
<1>4. Live(e) = Live(d) /\ \A g \in Live(e) : g[1] \in Nodes
  BY <1>3, GrantFacts DEF Live
<1>5. Owned(e)
  <2>1. \A n \in Nodes : /\ OnHold(d, n) => OnHold(e, n)
                         /\ HeldAtClaim(d, n) => HeldAtClaim(e, n)
    BY <1>1, <1>3 DEF OnHold, HeldAtClaim
  <2>2. ASSUME NEW g \in Live(e)
        PROVE  /\ g[2] = e.next[g[1]] - 1 /\ e.lease[g[1]] = g[2]
               /\ \/ e.state[g[1]] \in TerminalStep \cup {"RUNNING"}
                  \/ OnHold(e, g[1]) /\ HeldAtClaim(e, g[1])
    BY <1>0, <1>3, <1>4, <2>1 DEF Owned
  <2> QED
    BY <1>0, <1>3, <1>4, <2>2 DEF Owned
<1> QED BY <1>3, <1>5 DEF Good, e

(* The run's deadline passing keeps the invariant. *)
LEMMA RunTickKeeps ==
  ASSUME Inv, RunTick
  PROVE  Inv'
<1> DEFINE x == [s \in Nodes |->
                   IF db.lease[s] # 0 /\ db.att[<<s, db.lease[s]>>] = "RUNNING"
                   THEN db.late[s] \cup {"attempt"} ELSE db.late[s]]
           y == [s \in Nodes |-> IF db.appr[s] = "PENDING" THEN "OVERDUE" ELSE db.appr[s]]
           a == [db EXCEPT !.clock = "over"]
           b == [a EXCEPT !.late = x]
           c == [b EXCEPT !.appr = y]
<1>0. Good(db)
  BY DEF Inv
<1>1. x \in PastDeadlines /\ y \in Approvals
  BY <1>0 DEF Good, Rows, PastDeadlines, Approvals, ApprovalState
<1>2. Handle([db EXCEPT !.clock = "late"]) \/ Handle([db EXCEPT !.clock = "over", !.late = x, !.appr = y])
  BY Zenon DEF RunTick
<1> HIDE DEF x, y
<1>3. Good([db EXCEPT !.clock = "late"]) /\ Good(a)
  BY <1>0, ClockGood DEF RunClock
<1>4. c = [db EXCEPT !.clock = "over", !.late = x, !.appr = y]
  BY <1>0, Zenon DEF Good, Rows
<1> HIDE DEF a
<1>5. Good(b)
  BY <1>1, <1>3, LateGood
<1> HIDE DEF b
<1>6. Good(c)
  BY <1>1, <1>5, ApprGood
<1> HIDE DEF c
<1> QED BY <1>2, <1>3, <1>4, <1>6, HandleKeeps

(* Database time keeps the invariant. *)
LEMMA TimeKeeps ==
  ASSUME Inv, Time
  PROVE  Inv'
<1>0. Good(db)
  BY DEF Inv
<1>1. CASE GraceTick
  <2>1. Good([db EXCEPT !.grace = TRUE])
    BY <1>0, ClockGood DEF RunClock
  <2> QED BY <1>1, <2>1, HandleKeeps DEF GraceTick
<1>2. ASSUME NEW s \in Nodes, NEW k \in {"start", "lease", "attempt"}, LeaseTick(s, k)
      PROVE  Inv'
  <2> DEFINE x == [db.late EXCEPT ![s] = @ \cup {k}]
  <2>1. x \in PastDeadlines
    BY <1>0 DEF Good, Rows, PastDeadlines
  <2>2. Handle([db EXCEPT !.late = x])
    BY <1>2 DEF LeaseTick
  <2> HIDE DEF x
  <2>3. Good([db EXCEPT !.late = x])
    BY <1>0, <2>1, LateGood
  <2> QED BY <2>2, <2>3, HandleKeeps
<1>3. ASSUME NEW s \in Nodes, RetryTick(s)
      PROVE  Inv'
  <2> DEFINE x == [db.retry EXCEPT ![s] = "DUE"]
  <2>1. x \in Timers
    BY <1>0 DEF Good, Rows, Timers, TimerState
  <2>2. Handle([db EXCEPT !.retry = x])
    BY <1>3 DEF RetryTick
  <2> HIDE DEF x
  <2>3. Good([db EXCEPT !.retry = x])
    BY <1>0, <2>1, TimerGood
  <2> QED BY <2>2, <2>3, HandleKeeps
<1>4. ASSUME NEW s \in Nodes, DelayTick(s)
      PROVE  Inv'
  <2> DEFINE x == [db.delay EXCEPT ![s] = "DUE"]
  <2>1. x \in Timers
    BY <1>0 DEF Good, Rows, Timers, TimerState
  <2>2. Handle([db EXCEPT !.delay = x])
    BY <1>4 DEF DelayTick
  <2> HIDE DEF x
  <2>3. Good([db EXCEPT !.delay = x])
    BY <1>0, <2>1, TimerGood
  <2> QED BY <2>2, <2>3, HandleKeeps
<1>5. ASSUME NEW s \in Nodes, ApprovalTick(s)
      PROVE  Inv'
  <2> DEFINE x == [db.appr EXCEPT ![s] = "OVERDUE"]
  <2>1. x \in Approvals
    BY <1>0 DEF Good, Rows, Approvals, ApprovalState
  <2>2. Handle([db EXCEPT !.appr = x])
    BY <1>5 DEF ApprovalTick
  <2> HIDE DEF x
  <2>3. Good([db EXCEPT !.appr = x])
    BY <1>0, <2>1, ApprGood
  <2> QED BY <2>2, <2>3, HandleKeeps
<1>6. ASSUME NEW s \in Nodes, WindowTick(s)
      PROVE  Inv'
  <2>1. Good([db EXCEPT !.window[s] = "CLOSED"])
    BY <1>0, <1>6, WindowGood DEF WindowTick
  <2> QED BY <1>6, <2>1, HandleKeeps DEF WindowTick
<1> QED BY <1>1, <1>2, <1>3, <1>4, <1>5, <1>6, RunTickKeeps, Zenon DEF Time

-----------------------------------------------------------------------------

(* In every run of every workflow the variables have their types, and each *)
(* live attempt is the latest of its step, holds its only lease, and is    *)
(* within budget: no interleaving of claims, completions, sweeps, fencing, *)
(* retries, holds and operator commands breaks the ownership protocol.     *)
THEOREM OwnershipInvariant == Spec => [](TypeOK /\ Ownership)
<1>1. Init => Inv
  BY InitKeeps
<1>2. Inv /\ [Next]_vars => Inv'
  <2> SUFFICES ASSUME Inv, [Next]_vars PROVE Inv'
    OBVIOUS
  <2>1. CASE UNCHANGED vars
    BY <2>1 DEF vars, Inv
  <2>2. CASE Next
    BY <2>2, TransactionKeeps, WorkerKeeps, SchedulerKeeps, OperatorKeeps, TimeKeeps
       DEF Next
  <2> QED BY <2>1, <2>2
<1>3. Inv => TypeOK /\ Ownership
  BY InvMeaning
<1> QED BY <1>1, <1>2, <1>3, PTL DEF Spec

(* Every variable has its type. *)
THEOREM TypeCorrect == Spec => []TypeOK
BY OwnershipInvariant, PTL

(* INV-03: no reclaim, fence, handoff or retry ever leaves two attempts of *)
(* a step alive, and a live attempt holds the step's lease with the        *)
(* current epoch.                                                          *)
THEOREM OneOwnerAlways == Spec => []OneOwner
<1>1. TypeOK /\ Ownership => OneOwner
  BY DEF Ownership, Owned, OneOwner
<1> QED BY <1>1, OwnershipInvariant, PTL

(* A READY step has no lease, so the INSERT into task_leases of a claim    *)
(* never fails on its primary key.                                         *)
THEOREM ReadyUnleasedAlways == Spec => []ReadyUnleased
<1>1. TypeOK /\ Ownership => ReadyUnleased
  <2> SUFFICES ASSUME TypeOK, Ownership, NEW s \in Nodes, wip.state[s] = "READY",
                      wip.lease[s] # 0
               PROVE  FALSE
    BY DEF ReadyUnleased
  <2>1. Good(wip)
    BY DEF TypeOK, Ownership, Good
  <2>2. Unowned(wip, s)
    BY <2>1, FreeStep
  <2>3. <<s, wip.lease[s]>> \in Live(wip)
    BY DEF Ownership, Owned
  <2> QED BY <2>2, <2>3 DEF Unowned
<1> QED BY <1>1, OwnershipInvariant, PTL

(* No step is ever attempted more often than its retry policy allows. *)
THEOREM AttemptBudgetAlways == Spec => []AttemptBudget
<1>1. TypeOK /\ Ownership => AttemptBudget
  BY DEF Ownership, Owned, AttemptBudget
<1> QED BY <1>1, OwnershipInvariant, PTL
=============================================================================
