----------------------------- MODULE RunEngine -----------------------------
(***************************************************************************)
(* The execution engine of one run: worker polls, starts, completions and  *)
(* stop acknowledgements; the control plane's sweeps; operator commands;   *)
(* worker reconnection and revocation; the passing of database time.       *)
(*                                                                         *)
(* Every transaction that changes the run first locks the run's row, so    *)
(* transactions on a run happen one after the other.  A handler that is    *)
(* one transaction without a loop is one action.  A transaction that loops *)
(* (the sweep, the claim, the evaluation of the graph) is a chain of       *)
(* actions on `wip`, the rows as that transaction sees them, with nothing  *)
(* else in between, and becomes visible in `db` when it commits.  A worker *)
(* poll is two transactions, and everything may happen between them.       *)
(***************************************************************************)
EXTENDS RunStore

CONSTANTS
  Slots,           \* assignments a worker session may hold (DefaultSlots)
  MaxConcurrency,  \* environment_admissions.max_concurrency
  Load,            \* most leases that other runs may hold at a time
  Reports,         \* the unsuccessful results workers may report
  Faulty,          \* nodes whose mapping, expression or schema may fail; 0: the final output
  Misfit,          \* approvals whose output schema refuses a rejection
  Artifacts,       \* tasks whose input refers to an artifact
  Ops,             \* operator commands and worker events that may happen
  Ticks,           \* deadlines that may pass
  MaxSessions      \* bound on the sessions a worker opens

VARIABLES
  db,    \* the committed rows
  wip,   \* the rows as the transaction in progress sees them
  tx,    \* the transaction in progress
  poll   \* per worker: the candidates its poll has read, before it claims

vars == <<db, wip, tx, poll>>

TxKinds == {"none", "create", "sweep", "claim", "complete", "ready", "delay",
            "decide", "resolve"}
TxPlaces == {"idle", "dag", "sweep", "pick", "timers"}
Agents == Workers \cup {"none"}
NodeSets == SUBSET Nodes
TxRecords ==
  [kind : TxKinds, pc : TxPlaces, w : Agents, grants : GrantSets, steps : NodeSets,
   started : BOOLEAN, hit : BOOLEAN, at : Nat, again : BOOLEAN, mem : StepStates]
Transactions ==
  {t \in TxRecords : t.kind = "claim" \/ t.pc = "pick" => t.w \in Workers}
Polls == [Workers -> [sess : Nat, steps : NodeSets]]
NoPoll == [sess |-> 0, steps |-> {}]
NoTx(mem) == [kind |-> "none", pc |-> "idle", w |-> "none", grants |-> {}, steps |-> {},
              started |-> FALSE, hit |-> FALSE, at |-> 1, again |-> FALSE, mem |-> mem]
Fresh == [s \in Nodes |-> "BLOCKED"]

ASSUME EngineAssumption ==
  /\ Slots \in Nat /\ MaxConcurrency \in Nat /\ Load \in Nat /\ MaxSessions \in Nat
  /\ Reports \subseteq [as : {"FAILED", "TIMED_OUT", "CANCELLED"}, fatal : BOOLEAN,
                        retryable : BOOLEAN, unknown : BOOLEAN]
  /\ Faulty \subseteq 0..N /\ Misfit \subseteq Nodes /\ Artifacts \subseteq Nodes
  /\ "none" \notin Workers

-----------------------------------------------------------------------------
(* Transactions. *)

Idle == tx.pc = "idle"

Commit(d) == db' = d /\ wip' = d /\ tx' = NoTx(Fresh)

(* A handler that is a single step. *)
Handle(d) == Commit(d) /\ UNCHANGED poll

Begin(kind, d) ==
  /\ tx' = [NoTx(d.state) EXCEPT !.kind = kind, !.pc = "dag"]
  /\ wip' = d
  /\ UNCHANGED <<db, poll>>

-----------------------------------------------------------------------------
(* Creation.  A root task is READY; everything else starts BLOCKED, and a  *)
(* graph with a choice, merge or delay node is evaluated before commit.    *)

InsertedRun ==
  [status |-> "QUEUED", reason |-> "NONE", pause |-> FALSE, confirmed |-> FALSE,
   ends |-> 0, clock |-> "early",
   state |-> [s \in Nodes |-> IF Kind[s] = "task" /\ After[s] = {}
                              THEN "READY" ELSE "BLOCKED"],
   wait |-> [s \in Nodes |-> "NONE"], next |-> [s \in Nodes |-> 1],
   chosen |-> [s \in Nodes |-> NoLabel], window |-> [s \in Nodes |-> "UNSET"],
   retry |-> NoTimers, delay |-> NoTimers, appr |-> NoTimers, cases |-> [s \in Nodes |-> 0],
   lease |-> [s \in Nodes |-> 0], late |-> [s \in Nodes |-> {}],
   att |-> [g \in Grants |-> "NONE"], started |-> {},
   owner |-> [g \in Grants |-> <<"none", 0>>],
   stop |-> [g \in Grants |-> "NONE"], grace |-> FALSE,
   sess |-> [w \in Workers |-> 1], on |-> Workers,
   worker |-> [w \in Workers |-> "ACTIVE"]]

hasControlNode == \E s \in Nodes : Kind[s] \in {"choice", "merge", "delay"}

Init ==
  /\ db = InsertedRun
  /\ wip = InsertedRun
  /\ tx = IF hasControlNode
          THEN [NoTx(InsertedRun.state) EXCEPT !.kind = "create", !.pc = "dag"]
          ELSE NoTx(Fresh)
  /\ poll = [w \in Workers |-> NoPoll]

-----------------------------------------------------------------------------
(* Graph evaluation: passes over the nodes in declaration order until one *)
(* changes nothing.  `tx.mem` is the in-memory copy of the step states     *)
(* that the passes decide on; a row is updated only if it is BLOCKED.      *)

(* The nodes that come before n, at any distance. *)
Reach[k \in 0..N] ==
  IF k = 0 THEN After
  ELSE [n \in Nodes |-> Reach[k - 1][n] \cup UNION {Reach[k - 1][m] : m \in Reach[k - 1][n]}]
Ancestors == Reach[N]

(* The nodes of the branch b of choice c, when a merge m joins it. *)
getBranchNodes(m, b) ==
  LET c == MergeOf[m]
      t == Terminal[m][b]
  IN {n \in Nodes \ {c, m} : c \in Ancestors[n] /\ (n = t \/ n \in Ancestors[t])}

(* What a workflow must satisfy to be deployed: a choice has one merge,    *)
(* its branches are disjoint, and only the merge depends on them from      *)
(* outside.                                                                *)
ValidateWorkflow ==
  /\ \A n \in Nodes : n \notin Ancestors[n]
  /\ \A c \in Nodes : Kind[c] = "choice" =>
       Cardinality({m \in Nodes : Kind[m] = "merge" /\ MergeOf[m] = c}) = 1
  /\ \A m \in Nodes, b \in Labels : Kind[m] = "merge" =>
       LET c == MergeOf[m]
           branch == getBranchNodes(m, b)
       IN /\ Kind[c] = "choice" /\ Terminal[m][b] \in branch \cap Ancestors[m]
          /\ After[m] \cap branch \subseteq {Terminal[m][b]}
          /\ \A x \in Labels \ {b} : branch \cap getBranchNodes(m, x) = {}
          /\ \A u \in branch : /\ After[u] \subseteq {c} \cup branch \cup Ancestors[c]
                              /\ \A w \in Nodes : u \in After[w] => w \in {m} \cup branch

ASSUME GraphAssumption == ValidateWorkflow

Unselected(m, b) ==
  UNION {getBranchNodes(m, x) : x \in Labels \ {b}}
    \cup {Terminal[m][x] : x \in Labels \ {b}}

(* The dependencies that gate a node: for a merge, not the unselected.    *)
Gate(n) ==
  IF Kind[n] # "merge" THEN After[n]
  ELSE After[n] \ Unselected(n, wip.chosen[MergeOf[n]])

(* A mutant: one finished dependency is enough. *)
Eligible_anyDependency(n) ==
  /\ tx.mem[n] = "BLOCKED"
  /\ After[n] = {} \/ \E m \in After[n] : tx.mem[m] \in {"SUCCEEDED", "SKIPPED"}

(* A node whose dependency (a merge: whose choice) was skipped is skipped  *)
(* in its turn.  A workflow that ValidateWorkflow accepts has no such node *)
(* left BLOCKED, because SelectBranch skips a branch with everything in it *)
(* (SkipsAreWhole), so that path is not an action here.                    *)
Eligible(n) ==
  LET c == MergeOf[n]
  IN /\ tx.mem[n] = "BLOCKED"
     /\ Kind[n] = "merge" => /\ tx.mem[c] = "SUCCEEDED"
                             /\ wip.chosen[c] # NoLabel
                             /\ tx.mem[Terminal[n][wip.chosen[c]]] = "SUCCEEDED"
     /\ \A m \in Gate(n) : tx.mem[m] \in {"SUCCEEDED", "SKIPPED"}

EligibleFrom(k) == {n \in Nodes : n >= k /\ Eligible(n)}

(* n is the next node the pass changes. *)
AtNode(n) ==
  /\ tx.pc = "dag"
  /\ n \in EligibleFrom(tx.at)
  /\ \A m \in EligibleFrom(tx.at) : n <= m

(* The node is dealt with: rows d, in-memory states mem. *)
Evaluated(n, d, mem, changed) ==
  /\ wip' = d
  /\ tx' = [tx EXCEPT !.at = n + 1, !.mem = mem, !.again = @ \/ changed]
  /\ UNCHANGED <<db, poll>>

(* The usual case: the row moves if it is still BLOCKED, and memory with it. *)
Settle(n, to) ==
  LET blocked == wip.state[n] = "BLOCKED"
  IN Evaluated(n, Move(wip, {n}, {"BLOCKED"}, to, "NONE"),
               IF blocked THEN [tx.mem EXCEPT ![n] = to] ELSE tx.mem, blocked)

(* The inputs of node n may fail to map. *)
Fails(n) == AtNode(n) /\ n \in Faulty

ReadyTask(n) == AtNode(n) /\ Kind[n] = "task" /\ Settle(n, "READY")

MergeBranches(n) == AtNode(n) /\ Kind[n] = "merge" /\ Settle(n, "SUCCEEDED")

(* A mapping, expression or schema error fails the run and ends the       *)
(* evaluation.                                                            *)
FailNode(n) ==
  /\ Fails(n) /\ Kind[n] # "approval"
  /\ wip' = failRunForStepTx(wip, n)
  /\ tx' = [tx EXCEPT !.at = N + 1, !.again = FALSE]
  /\ UNCHANGED <<db, poll>>

(* The payload of an approval fails to map: the run fails, and the        *)
(* evaluation goes on with the nodes it still remembers as BLOCKED.       *)
FailApproval(n) ==
  /\ Fails(n) /\ Kind[n] = "approval"
  /\ Evaluated(n, failRunForStepTx(wip, n), tx.mem, FALSE)

(* A mutant: only the first nodes of the other branches are skipped. *)
SelectBranch_heads(n, b) ==
  LET lost == {x \in {y \in UNION {Unselected(m, b) : m \in {k \in Nodes : MergeOf[k] = n}} :
                         n \in After[y]} : wip.state[x] = "BLOCKED"}
      moved == Move(Move(wip, lost, {"BLOCKED"}, "SKIPPED", "NONE"),
                    {n}, {"BLOCKED"}, "SUCCEEDED", "NONE")
  IN /\ AtNode(n) /\ Kind[n] = "choice"
     /\ Evaluated(n, [moved EXCEPT !.chosen[n] = b],
                  [x \in Nodes |-> IF x \in lost \cup {n} THEN moved.state[x]
                                   ELSE tx.mem[x]], TRUE)

(* The branch is chosen and the BLOCKED nodes of the others are skipped.  *)
SelectBranch(n, b) ==
  LET lost == {x \in UNION {UNION {getBranchNodes(m, y) : y \in Labels \ {b}} :
                              m \in {k \in Nodes : MergeOf[k] = n}} :
                 tx.mem[x] = "BLOCKED" /\ wip.state[x] = "BLOCKED"}
      moved == Move(Move(wip, lost, {"BLOCKED"}, "SKIPPED", "NONE"),
                    {n}, {"BLOCKED"}, "SUCCEEDED", "NONE")
  IN /\ AtNode(n) /\ Kind[n] = "choice"
     /\ IF wip.state[n] = "BLOCKED"
        THEN Evaluated(n, [moved EXCEPT !.chosen[n] = b],
                       [x \in Nodes |-> IF x \in lost \cup {n} THEN moved.state[x]
                                        ELSE tx.mem[x]], TRUE)
        ELSE Evaluated(n, wip, tx.mem, FALSE)

openApprovalTx(d, n) ==
  LET e == [d EXCEPT !.appr[n] = "PENDING"]
  IN IF d.appr[n] # "NONE" THEN d
     ELSE IF d.state[n] # "BLOCKED" THEN e
     ELSE recomputeRunStatusAfterControlTx(
            Move(e, {n}, {"BLOCKED"}, "WAITING", "APPROVAL"), "APPROVAL")

OpenApproval(n) ==
  LET parked == wip.appr[n] = "NONE" /\ wip.state[n] = "BLOCKED"
  IN /\ AtNode(n) /\ Kind[n] = "approval"
     /\ Evaluated(n, openApprovalTx(wip, n),
                  IF parked THEN [tx.mem EXCEPT ![n] = "WAITING"] ELSE tx.mem, parked)

scheduleDelayTx(d, n) ==
  LET e == [d EXCEPT !.delay[n] = IF @ = "NONE" THEN "PENDING" ELSE @]
  IN IF d.state[n] # "BLOCKED" THEN e
     ELSE recomputeRunStatusForDelayTx(Move(e, {n}, {"BLOCKED"}, "WAITING", "DELAY"))

ScheduleDelay(n) ==
  /\ AtNode(n) /\ Kind[n] = "delay"
  /\ Evaluated(n, scheduleDelayTx(wip, n), [tx.mem EXCEPT ![n] = "WAITING"],
               wip.delay[n] = "NONE")

NextPass ==
  /\ tx.pc = "dag" /\ EligibleFrom(tx.at) = {}
  /\ tx.again /\ EligibleFrom(1) # {}
  /\ tx' = [tx EXCEPT !.at = 1, !.again = FALSE]
  /\ UNCHANGED <<db, wip, poll>>

evaluateBlockedDAGTx ==
  \/ NextPass
  \/ \E n \in Nodes :
       \/ ReadyTask(n) \/ MergeBranches(n)
       \/ FailNode(n) \/ FailApproval(n)
       \/ OpenApproval(n) \/ ScheduleDelay(n)
       \/ \E b \in Labels : SelectBranch(n, b)

(* The graph is stable: the run settles if every node is terminal, and    *)
(* the handler that asked for the evaluation does what it has left to do. *)
Advanced(kind) ==
  /\ tx.pc = "dag" /\ tx.kind = kind
  /\ EligibleFrom(tx.at) = {} /\ (tx.again => EligibleFrom(1) = {})
  /\ UNCHANGED poll

OutputFits == IF 0 \in Faulty THEN BOOLEAN ELSE {TRUE}

Settled(ok) == settleRunTerminalTx(wip, tx.mem, ok)

advanceAfterStepSuccessTx ==
  \E ok \in OutputFits :
    \/ (Advanced("create") \/ Advanced("ready")) /\ Commit(Settled(ok))
    \/ /\ Advanced("complete")
       /\ Commit(settlePauseAfterCompletionTx(settleHoldAfterCompletionTx(Settled(ok))))
    \/ Advanced("resolve") /\ Commit(releaseHoldTx(Settled(ok), "succeed"))
    \/ /\ Advanced("decide")
       /\ \E why \in durableWaitReasonForRunTx(Settled(ok)) :
            Commit(recomputeRunStatusAfterControlTx(Settled(ok), why))
    \/ /\ Advanced("delay")
       /\ wip' = recomputeRunStatusForDelayTx(Settled(ok))
       /\ tx' = [tx EXCEPT !.pc = "timers", !.at = 1, !.again = FALSE, !.mem = Fresh]
       /\ UNCHANGED db

-----------------------------------------------------------------------------
(* Worker messages.  A message is authenticated by the current, unrevoked *)
(* session of the worker that owns the attempt.                            *)

Owns(w, g) == w \in db.on /\ db.owner[g] = <<w, db.sess[w]>>

HoldsLease(g) == db.lease[g[1]] = g[2] /\ "lease" \notin db.late[g[1]]

Start(w, g) ==
  /\ Idle /\ Owns(w, g) /\ HoldsLease(g)
  /\ db.att[g] = "CLAIMED" /\ "start" \notin db.late[g[1]] /\ db.clock # "over"
  /\ Handle([db EXCEPT !.att[g] = "RUNNING", !.started = @ \cup {g},
                       !.status = IF @ = "QUEUED" THEN "RUNNING" ELSE @,
                       !.reason = IF db.status = "QUEUED" THEN "NONE" ELSE @])

Completable(w, g) ==
  /\ Idle /\ Owns(w, g) /\ HoldsLease(g)
  /\ db.att[g] = "RUNNING" /\ "attempt" \notin db.late[g[1]]

Completed(g, a) ==
  Move(CloseAttempts(db, {g}, a), {g[1]}, StepState,
       IF a = "TIMED_OUT" THEN "FAILED" ELSE a, "NONE")

CompleteSucceeded(w, g) ==
  /\ Completable(w, g)
  /\ Begin("complete", Completed(g, "SUCCEEDED"))

CompleteFailed(w, g, r) ==
  LET d == Completed(g, r.as)
      e == IF r.as = "CANCELLED" THEN failRunForStepTx(d, g[1])
           ELSE scheduleRetryOrHoldTx(d, g[1], r)
  IN /\ Completable(w, g)
     /\ Handle(settlePauseAfterCompletionTx(settleHoldAfterCompletionTx(e)))

StopAck(w, g, stopped) ==
  /\ Idle /\ Owns(w, g) /\ db.stop[g] # "NONE"
  /\ Handle(settleCancellingRunTx(
       [db EXCEPT !.stop[g] = IF stopped \/ @ = "CONFIRMED" THEN "CONFIRMED" ELSE "ACKED"]))

(* A start or a completion that finds the event budget spent is rolled     *)
(* back, and the run failed in a transaction of its own.                   *)
TerminalizeHistoryLimitExceeded ==
  /\ Idle /\ "history" \in Ops
  /\ Live(db) # {} /\ db.status \notin TerminalRun
  /\ Handle(historyLimitTx(db))

-----------------------------------------------------------------------------
(* The expired-lease sweep: the first half of every claim, and with the   *)
(* overdue and cancelling runs the control plane's periodic sweep.  Both   *)
(* scans are read at its start; each candidate is rechecked when its turn  *)
(* comes, in the order of the random row ids.                              *)

BeginSweep(kind, w) ==
  /\ tx' = [NoTx(Fresh) EXCEPT !.kind = kind, !.pc = "sweep", !.w = w,
              !.grants = ExpiredAttempts(db), !.steps = Handoffs(db),
              !.started = (db.started # {})]
  /\ UNCHANGED <<db, wip, poll>>

ReclaimAttempt(g) ==
  /\ tx.pc = "sweep" /\ g \in tx.grants
  /\ wip' = IF Reclaimable(wip, g) THEN reclaimAttemptTx(wip, g) ELSE wip
  /\ tx' = [tx EXCEPT !.grants = @ \ {g}, !.hit = @ \/ Reclaimable(wip, g)]
  /\ UNCHANGED <<db, poll>>

ReclaimHandoff(s) ==
  LET stale == wip.status \in TerminalRun \cup {"CANCELLING", "PAUSED"}
  IN /\ tx.pc = "sweep" /\ tx.grants = {} /\ s \in tx.steps
     /\ wip' = IF stale THEN wip ELSE reclaimHandoffTx(wip, s, tx.started)
     /\ tx' = [tx EXCEPT !.steps = @ \ {s}, !.hit = @ \/ ~stale]
     /\ UNCHANGED <<db, poll>>

reconcileExpiredLeasesTx ==
  \/ \E g \in Grants : ReclaimAttempt(g)
  \/ \E s \in Nodes : ReclaimHandoff(s)

Reconciled(kind) ==
  tx.pc = "sweep" /\ tx.kind = kind /\ tx.grants = {} /\ tx.steps = {}

SweptRows ==
  fireDueRetryTimersTx(IF tx.hit THEN settlePauseAfterCompletionTx(wip) ELSE wip)

(* A mutant: a PAUSED run keeps its deadline from being enforced. *)
failOverdueRunsTx_notPaused(d, s) ==
  IF /\ d.status \in {"QUEUED", "RUNNING", "WAITING"}
     /\ d.clock = "over" /\ Live(d) = {}
  THEN settleExpiredRun(d, s) ELSE d

failOverdueRunsTx(d, s) ==
  IF /\ d.status \in {"QUEUED", "RUNNING", "WAITING", "PAUSING", "PAUSED"}
     /\ d.clock = "over" /\ Live(d) = {}
  THEN settleExpiredRun(d, s) ELSE d

ReconcileExpiredLeases == Idle /\ BeginSweep("sweep", "none")

EndSweep ==
  /\ Reconciled("sweep")
  /\ \E s \in ChargeableSteps(SweptRows) :
       Handle(settleCancellingRunTx(failOverdueRunsTx(SweptRows, s)))

-----------------------------------------------------------------------------
(* Worker polls.  The first transaction reads candidates, the second      *)
(* revalidates and claims them.                                            *)

Claimable(d) ==
  {s \in Nodes : /\ Kind[s] = "task" /\ d.state[s] = "READY"
                 /\ \/ d.status \in {"QUEUED", "RUNNING"}
                    \/ d.status = "WAITING" /\ d.reason = "QUOTA_WAIT"
                 /\ ~d.pause /\ d.clock # "over" /\ OpenCases(d) = {}}

Min(a, b) == IF a < b THEN a ELSE b

(* Rows another poll has locked are passed over. *)
Poll(w) ==
  /\ Idle /\ w \in db.on /\ db.worker[w] = "ACTIVE" /\ poll[w] = NoPoll
  /\ \E S \in SUBSET Claimable(db) :
       /\ S = {} \/ Cardinality(S) = Min(Slots, Cardinality(Claimable(db)))
       /\ poll' = [poll EXCEPT ![w] = [sess |-> db.sess[w], steps |-> S]]
  /\ UNCHANGED <<db, wip, tx>>

SessionCurrent(w) == w \in db.on /\ poll[w].sess = db.sess[w]

BeginClaim(w) ==
  /\ Idle /\ poll[w] # NoPoll /\ SessionCurrent(w) /\ db.worker[w] = "ACTIVE"
  /\ BeginSweep("claim", w)

(* The session is gone or the worker drains; or an error, such as an      *)
(* unreachable object store, ends the poll between its transactions.       *)
DropPoll(w) ==
  /\ Idle /\ poll[w] # NoPoll
  /\ poll' = [poll EXCEPT ![w] = NoPoll]
  /\ UNCHANGED <<db, wip, tx>>

ActiveLeases(d) == {s \in Nodes : d.lease[s] # 0 /\ "lease" \notin d.late[s]}

quotaWaitTx(d) ==
  LET starved == d.status \in {"QUEUED", "RUNNING"} /\ InState(d, {"READY"}) # {}
  IN [d EXCEPT !.status = IF starved THEN "WAITING" ELSE @,
               !.reason = IF starved THEN "QUOTA_WAIT" ELSE @]

EndPoll(d) == Commit(d) /\ poll' = [poll EXCEPT ![tx.w] = NoPoll]

(* A mutant: the worker's slots are the only limit. *)
Admit_ownSlots ==
  /\ Reconciled("claim")
  /\ \E S \in SUBSET poll[tx.w].steps :
       /\ Cardinality(S) = Min(Slots, Cardinality(poll[tx.w].steps))
       /\ wip' = SweptRows
       /\ tx' = [tx EXCEPT !.pc = "pick", !.steps = S]
       /\ UNCHANGED <<db, poll>>

Admit ==
  /\ Reconciled("claim")
  /\ \E others \in 0..Load :
       LET limit == Min(Slots, MaxConcurrency - others - Cardinality(ActiveLeases(SweptRows)))
           found == poll[tx.w].steps
       IN IF limit <= 0 THEN EndPoll(quotaWaitTx(SweptRows))
          ELSE \E S \in SUBSET found :
                 /\ Cardinality(S) = Min(limit, Cardinality(found))
                 /\ wip' = SweptRows
                 /\ tx' = [tx EXCEPT !.pc = "pick", !.steps = S]
                 /\ UNCHANGED <<db, poll>>

(* First-claim window: minted once; a retry without one is held. *)
claimIdempotencyAdmissionTx(d, s) ==
  [d EXCEPT !.window[s] = IF Recovery[s] = "idempotent" /\ @ = "UNSET" THEN "OPEN" ELSE @]

(* A mutant: the recheck of the window at claim is gone. *)
HeldAtClaim_windowOnly(d, s) == Recovery[s] = "unbounded" /\ d.next[s] > 1

HeldAtClaim(d, s) ==
  \/ Recovery[s] = "unbounded" /\ d.next[s] > 1
  \/ Recovery[s] = "idempotent" /\ d.window[s] = "CLOSED"

artifactUnavailableTx(d, s) ==
  LET e == Move(d, {s}, {"READY"}, "FAILED", "NONE")
  IN IF e.state[s] # "FAILED" THEN e
     ELSE RunFailed(Move(e, Nodes, {"BLOCKED", "READY", "WAITING"}, "CANCELLED", "NONE"))

(* A mutant: a pause that committed after the poll read is not seen. *)
Launchable_pauseUnseen(d, s) == d.state[s] = "READY" /\ d.next[s] <= MaxAttempts + 1

(* The last conjunct bounds the model: one attempt past the budget is seen. *)
Launchable(d, s) == ~d.pause /\ d.state[s] = "READY" /\ d.next[s] <= MaxAttempts + 1

launchTx(d, s, w) ==
  LET g == <<s, d.next[s]>>
  IN [d EXCEPT !.state[s] = "RUNNING", !.wait[s] = "NONE", !.next[s] = @ + 1,
               !.att[g] = "CLAIMED", !.owner[g] = <<w, d.sess[w]>>,
               !.lease[s] = d.next[s], !.late[s] = {},
               !.status = IF d.reason = "QUOTA_WAIT" THEN "RUNNING" ELSE @,
               !.reason = IF @ = "QUOTA_WAIT" THEN "NONE" ELSE @]

ClaimStep(s, available) ==
  LET d == claimIdempotencyAdmissionTx(wip, s)
  IN /\ tx.pc = "pick" /\ s \in tx.steps
     /\ s \notin Artifacts => available
     /\ wip' = IF HeldAtClaim(wip, s) THEN routeStepToReconciliationTx(wip, s)
               ELSE IF ~available THEN artifactUnavailableTx(d, s)
               ELSE IF Launchable(d, s) THEN launchTx(d, s, tx.w)
               ELSE d
     /\ tx' = [tx EXCEPT !.steps = @ \ {s}]
     /\ UNCHANGED <<db, poll>>

EndClaim == tx.pc = "pick" /\ tx.steps = {} /\ EndPoll(wip)

-----------------------------------------------------------------------------
(* Scheduled work: delays, ready-work repair, overdue approvals. *)

FireDueDelayTimers ==
  /\ Idle
  /\ \E s \in Nodes : db.delay[s] = "DUE"
  /\ tx' = [NoTx(Fresh) EXCEPT !.kind = "delay", !.pc = "timers",
              !.steps = {s \in Nodes : db.delay[s] = "DUE"}]
  /\ UNCHANGED <<db, wip, poll>>

FireDelay(s) ==
  LET fires == /\ \/ wip.status \in {"QUEUED", "RUNNING"}
                  \/ wip.status = "WAITING" /\ wip.reason = "DELAY"
               /\ wip.clock # "over"
               /\ wip.state[s] = "WAITING" /\ wip.wait[s] = "DELAY"
      d == [Move(wip, {s}, {"WAITING"}, "SUCCEEDED", "NONE") EXCEPT !.delay[s] = "NONE"]
  IN /\ tx.pc = "timers" /\ s \in tx.steps
     /\ wip' = IF fires THEN d ELSE wip
     /\ tx' = [tx EXCEPT !.steps = @ \ {s},
                         !.pc = IF fires THEN "dag" ELSE @,
                         !.mem = IF fires THEN d.state ELSE @]
     /\ UNCHANGED <<db, poll>>

EndDelays == tx.pc = "timers" /\ tx.steps = {} /\ Handle(wip)

ReconcileReadyWork ==
  /\ Idle /\ db.status \in {"QUEUED", "RUNNING"} /\ InState(db, {"BLOCKED"}) # {}
  /\ Begin("ready", db)

expireApprovalTx(d, S) ==
  LET s == CHOOSE x \in S : TRUE
  IN [Move(failRunForStepTx(d, s), S, StepState, "FAILED", "NONE") EXCEPT
       !.appr = [x \in Nodes |-> IF x \in S THEN "EXPIRED" ELSE d.appr[x]],
       !.ends = IF Cardinality(S) > 1 THEN 2 ELSE @]

Overdue(d) == {s \in Nodes : d.appr[s] = "OVERDUE"}

SweepExpiredApprovals == Idle /\ Overdue(db) # {} /\ Handle(expireApprovalTx(db, Overdue(db)))

(* A decision that comes too late settles that approval alone, in a second *)
(* transaction that does not look at the run again: the run may have ended *)
(* in between.                                                             *)
settleExpiredApproval(s) ==
  Idle /\ "decide" \in Ops /\ s \in Overdue(db) /\ Handle(expireApprovalTx(db, {s}))

-----------------------------------------------------------------------------
(* Operator commands. *)

Stoppable(d) == d.status \notin TerminalRun \cup {"CANCELLING"}

DecideApproval(s, decision) ==
  LET d == [db EXCEPT !.appr[s] = decision]
  IN /\ Idle /\ "decide" \in Ops /\ Stoppable(db)
     /\ db.appr[s] = "PENDING" /\ db.state[s] = "WAITING"
     /\ IF decision = "REJECTED" /\ s \in Misfit
        THEN Handle(failRunForStepTx(d, s))
        ELSE Begin("decide", Move(d, {s}, {"WAITING"}, "SUCCEEDED", "NONE"))

pauseRunTx(d) ==
  IF d.pause /\ d.status \in {"PAUSING", "PAUSED"} THEN d
  ELSE [d EXCEPT !.status = IF Live(d) # {} THEN "PAUSING" ELSE "PAUSED",
                 !.reason = "PAUSE_REQUESTED", !.pause = TRUE]

PauseRun ==
  /\ Idle /\ "pause" \in Ops /\ Stoppable(db) /\ db.clock # "over"
  /\ Handle(pauseRunTx(db))

(* A mutant: a resumed run waits and does not say what for. *)
ResumedAs_bare(d) ==
  IF Live(d) # {} THEN <<"RUNNING", "NONE">>
  ELSE IF InState(d, {"READY"}) # {} THEN <<"QUEUED", "NONE">>
  ELSE <<"WAITING", "NONE">>

(* A mutant: the READY tasks of a run that has begun are overlooked. *)
ResumedAs_rootsOnly(d) ==
  IF Live(d) # {} THEN <<"RUNNING", "NONE">>
  ELSE IF InState(d, {"READY"}) # {} /\ d.started = {} THEN <<"QUEUED", "NONE">>
  ELSE <<"WAITING", "RETRY_BACKOFF">>

(* The priority by which a resumed run that is not finished gets its status. *)
ResumedAs(d) ==
  LET begun == \/ d.started # {}
               \/ \E g \in Grants : d.att[g] \in {"RUNNING", "SUCCEEDED", "FAILED",
                                                  "TIMED_OUT", "LOST"}
  IN CASE Live(d) # {} -> <<"RUNNING", "NONE">>
       [] Live(d) = {} /\ InState(d, {"READY"}) # {} ->
            <<IF begun THEN "RUNNING" ELSE "QUEUED", "NONE">>
       [] OTHER ->
            <<"WAITING", IF OpenCases(d) # {} THEN "RECONCILIATION"
                         ELSE IF Pending(d.retry) # {} THEN "RETRY_BACKOFF"
                         ELSE IF Pending(d.delay) # {} THEN "DELAY" ELSE "NONE">>

resumeRunTx(d, ok) ==
  LET e == settleRunTerminalTx(d, d.state, ok)
  IN IF e.status \in TerminalRun THEN [e EXCEPT !.pause = FALSE]
     ELSE [d EXCEPT !.status = ResumedAs(d)[1], !.reason = ResumedAs(d)[2],
                    !.pause = FALSE]

ResumeRun ==
  /\ Idle /\ "pause" \in Ops /\ Stoppable(db) /\ db.clock # "over"
  /\ db.pause \/ db.status \in {"PAUSING", "PAUSED"}
  /\ \E ok \in OutputFits : Handle(resumeRunTx(db, ok))

(* Pause and resume of a run past its deadline settle it instead. *)
settleOverdueRunForControl ==
  /\ Idle /\ "pause" \in Ops /\ Stoppable(db) /\ db.clock = "over"
  /\ \E s \in ChargeableSteps(db) : Handle(settleExpiredRun(db, s))

CancelRun == Idle /\ "cancel" \in Ops /\ Stoppable(db) /\ Handle(cancelRunTx(db))

Resolvable(s) ==
  /\ Idle /\ "resolve" \in Ops /\ db.cases[s] > 0
  /\ db.status \notin TerminalRun /\ db.clock # "over" /\ Recovery[s] # "invalid"

OnHold(d, s) == d.state[s] = "WAITING" /\ d.wait[s] = "RECONCILIATION"

markCaseResolvedTx(d, s) == [d EXCEPT !.cases[s] = @ - 1]

ResolveSucceed(s) ==
  LET d == markCaseResolvedTx(
             IF OnHold(db, s) THEN Move(db, {s}, {"WAITING"}, "SUCCEEDED", "NONE") ELSE db, s)
  IN /\ Resolvable(s)
     /\ IF OpenCases(d) = {} THEN Begin("resolve", d) ELSE Handle(d)

ResolveRetry(s) ==
  LET d == markCaseResolvedTx(
             [db EXCEPT !.retry[s] = IF @ = "NONE" THEN "PENDING" ELSE @,
                        !.wait[s] = "RETRY_BACKOFF"], s)
  IN /\ Resolvable(s) /\ OnHold(db, s)
     /\ HasRetryBudget(db, s) /\ db.clock = "early"
     /\ Idempotent(s) => Recovery[s] # "unbounded" /\ db.window[s] = "OPEN"
     /\ Handle(IF OpenCases(d) = {} THEN releaseHoldTx(d, "retry") ELSE d)

ResolveFail(s) == Resolvable(s) /\ Handle(failRunForStepTx(db, s))

-----------------------------------------------------------------------------
(* Worker sessions. *)

CreateSession(w) ==
  /\ Idle /\ "session" \in Ops /\ db.worker[w] # "REVOKED" /\ db.sess[w] < MaxSessions
  /\ Handle([FenceWorkerSessions(db, w) EXCEPT !.sess[w] = @ + 1, !.on = @ \cup {w}])

RevokeWorker(w) ==
  /\ Idle /\ "revoke" \in Ops /\ db.worker[w] # "REVOKED"
  /\ Handle([FenceWorkerSessions(db, w) EXCEPT !.worker[w] = "REVOKED", !.on = @ \ {w}])

DrainWorker(w) ==
  /\ Idle /\ "drain" \in Ops /\ db.worker[w] = "ACTIVE"
  /\ Handle([db EXCEPT !.worker[w] = "DRAINING"])

-----------------------------------------------------------------------------
(* Database time.  A started attempt's lease is renewed by heartbeats; one *)
(* that has not started has its start deadline long before its lease's.    *)

LeaseTick(s, k) ==
  LET g == <<s, db.lease[s]>>
  IN /\ Idle /\ k \in Ticks /\ db.lease[s] # 0 /\ k \notin db.late[s]
     /\ k = "start" => db.att[g] = "CLAIMED"
     /\ k = "attempt" => db.att[g] = "RUNNING"
     /\ k = "lease" /\ db.att[g] = "CLAIMED" => "start" \in db.late[s]
     /\ Handle([db EXCEPT !.late[s] = @ \cup {k}])

RetryTick(s) ==
  /\ Idle /\ "retry" \in Ticks /\ db.retry[s] = "PENDING"
  /\ Handle([db EXCEPT !.retry[s] = "DUE"])

DelayTick(s) ==
  /\ Idle /\ "delay" \in Ticks /\ db.delay[s] = "PENDING"
  /\ Handle([db EXCEPT !.delay[s] = "DUE"])

ApprovalTick(s) ==
  /\ Idle /\ "approval" \in Ticks /\ db.appr[s] = "PENDING"
  /\ Handle([db EXCEPT !.appr[s] = "OVERDUE"])

WindowTick(s) ==
  /\ Idle /\ "window" \in Ticks /\ db.window[s] = "OPEN"
  /\ Handle([db EXCEPT !.window[s] = "CLOSED"])

GraceTick ==
  /\ Idle /\ "grace" \in Ticks /\ db.status = "CANCELLING" /\ ~db.grace
  /\ Handle([db EXCEPT !.grace = TRUE])

(* First too little of the run's lifetime is left for another attempt,     *)
(* then none: attempts and approvals never outlive the run.                *)
RunTick ==
  /\ Idle /\ "run" \in Ticks
  /\ \/ db.clock = "early" /\ Handle([db EXCEPT !.clock = "late"])
     \/ /\ db.clock = "late"
        /\ Handle([db EXCEPT
             !.clock = "over",
             !.late = [s \in Nodes |->
                         IF db.lease[s] # 0 /\ db.att[<<s, db.lease[s]>>] = "RUNNING"
                         THEN db.late[s] \cup {"attempt"} ELSE db.late[s]],
             !.appr = [s \in Nodes |-> IF db.appr[s] = "PENDING" THEN "OVERDUE"
                                       ELSE db.appr[s]]])

-----------------------------------------------------------------------------
Transaction ==
  \/ evaluateBlockedDAGTx \/ advanceAfterStepSuccessTx
  \/ reconcileExpiredLeasesTx \/ EndSweep
  \/ Admit \/ EndClaim
  \/ \E s \in Nodes : FireDelay(s) \/ \E ok \in BOOLEAN : ClaimStep(s, ok)
  \/ EndDelays

Worker ==
  \E w \in Workers :
    \/ Poll(w) \/ BeginClaim(w) \/ DropPoll(w)
    \/ CreateSession(w) \/ RevokeWorker(w) \/ DrainWorker(w)
    \/ \E g \in Grants :
         \/ Start(w, g) \/ CompleteSucceeded(w, g)
         \/ \E r \in Reports : CompleteFailed(w, g, r)
         \/ \E stopped \in BOOLEAN : StopAck(w, g, stopped)

Scheduler ==
  \/ ReconcileExpiredLeases \/ FireDueDelayTimers \/ ReconcileReadyWork
  \/ SweepExpiredApprovals \/ TerminalizeHistoryLimitExceeded

Operator ==
  \/ PauseRun \/ ResumeRun \/ settleOverdueRunForControl \/ CancelRun
  \/ \E s \in Nodes :
       \/ \E decision \in {"APPROVED", "REJECTED"} : DecideApproval(s, decision)
       \/ settleExpiredApproval(s)
       \/ ResolveSucceed(s) \/ ResolveRetry(s) \/ ResolveFail(s)

Time ==
  \/ GraceTick \/ RunTick
  \/ \E s \in Nodes :
       \/ \E k \in {"start", "lease", "attempt"} : LeaseTick(s, k)
       \/ RetryTick(s) \/ DelayTick(s) \/ ApprovalTick(s) \/ WindowTick(s)

Next == Transaction \/ Worker \/ Scheduler \/ Operator \/ Time

Spec == Init /\ [][Next]_vars

(* Deadlines pass, and the control plane's loops run every second for as  *)
(* long as the process lives, whatever else locks the run in between; a    *)
(* transaction that began runs to its end.  Nothing is assumed of workers, *)
(* of operators, of leases, which heartbeats may renew for ever, or of the *)
(* deadline of the run, which may be days away.                            *)
Fairness ==
  /\ WF_vars(Transaction)
  /\ SF_vars(ReconcileExpiredLeases)
  /\ \A k \in Ticks \cap {"grace"} : SF_vars(GraceTick)
  /\ \A k \in Ticks \cap {"start", "attempt"}, s \in Nodes : SF_vars(LeaseTick(s, k))
  /\ \A k \in Ticks \cap {"retry"}, s \in Nodes : SF_vars(RetryTick(s))
  /\ \A k \in Ticks \cap {"delay"} :
       /\ SF_vars(FireDueDelayTimers)
       /\ \A s \in Nodes : SF_vars(DelayTick(s))

FairSpec == Spec /\ Fairness

-----------------------------------------------------------------------------
(* Every variable has its type. *)
TypeOK ==
  db \in Rows /\ wip \in Rows /\ tx \in Transactions /\ poll \in Polls
=============================================================================
