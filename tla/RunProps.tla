------------------------------ MODULE RunProps ------------------------------
(***************************************************************************)
(* What a run's rows must satisfy, and what its steps may and must do.     *)
(* INV-nn are the invariants of docs/blueprint.md, section 9.              *)
(***************************************************************************)
EXTENDS RunEngine

-----------------------------------------------------------------------------
(* Ownership. *)

(* INV-03.  A live attempt is the latest one of its step (its epoch is     *)
(* current) and holds the step's only lease: no reclaim, fence or retry    *)
(* ever leaves two attempts of a step alive.                               *)
OneOwner ==
  \A g \in Live(db) : g[2] = db.next[g[1]] - 1 /\ db.lease[g[1]] = g[2]

(* A READY step has no lease, also inside a claim, so the claim's INSERT   *)
(* into task_leases (primary key step_id) cannot fail and roll back the    *)
(* other claims of the poll.                                               *)
ReadyUnleased ==
  \A s \in Nodes : wip.state[s] = "READY" => wip.lease[s] = 0

(* The attempts of a step never exceed its retry policy's budget, on       *)
(* whichever of the paths back to READY (retry timer, operator retry,      *)
(* recovery handoff) they were launched.                                   *)
AttemptBudget == \A s \in Nodes : db.next[s] <= MaxAttempts + 1

(* The inductive strengthening of the three: a live attempt's step is      *)
(* running, settled, or was put on hold by a stale claim; a lease belongs  *)
(* to a live attempt; a BLOCKED step was never attempted; a step that can  *)
(* run again without further checks has budget left.                       *)
Owned(d) ==
  /\ \A g \in Live(d) :
       /\ g[2] = d.next[g[1]] - 1 /\ d.lease[g[1]] = g[2]
       /\ \/ d.state[g[1]] \in TerminalStep \cup {"RUNNING"}
          \/ OnHold(d, g[1]) /\ HeldAtClaim(d, g[1])
  /\ \A s \in Nodes :
       /\ d.lease[s] # 0 => <<s, d.lease[s]>> \in Live(d)
       /\ d.next[s] >= 1 /\ d.next[s] <= MaxAttempts + 1
       /\ d.state[s] = "BLOCKED" => d.next[s] = 1
       /\ \/ d.state[s] = "READY"
          \/ d.state[s] = "WAITING" /\ d.wait[s] = "RETRY_BACKOFF"
          => d.next[s] <= MaxAttempts

(* The committed rows and those of the transaction in progress are Owned.  *)
Ownership == Owned(db) /\ Owned(wip)

(* INV-08, quota: the leases held at a time never exceed the environment's *)
(* max_concurrency, whatever polls overlap.                                *)
WithinConcurrency == Cardinality(ActiveLeases(db)) <= MaxConcurrency

-----------------------------------------------------------------------------
(* The graph. *)

(* INV-08.  A task that is READY or was ever attempted has all of its      *)
(* dependencies SUCCEEDED, and a merge that SUCCEEDED has the terminal     *)
(* node of the chosen branch.                                              *)
DependenciesFirst ==
  \A s \in Nodes :
    /\ Kind[s] = "task" /\ (db.state[s] = "READY" \/ db.next[s] > 1) =>
         \A m \in After[s] : db.state[m] = "SUCCEEDED"
    /\ Kind[s] = "merge" /\ db.state[s] = "SUCCEEDED" =>
         db.state[Terminal[s][db.chosen[MergeOf[s]]]] = "SUCCEEDED"

(* Choosing a branch skips the others to the last node, nested choices     *)
(* included.  A branch that was not chosen does nothing: its nodes are     *)
(* SKIPPED, none was attempted and none waits; and no node is left BLOCKED *)
(* behind one that will never run, which would leave the run without an    *)
(* end.                                                                    *)
SkipsAreWhole ==
  /\ \A m \in Nodes : Kind[m] = "merge" /\ db.chosen[MergeOf[m]] # NoLabel =>
       \A b \in Labels \ {db.chosen[MergeOf[m]]} : \A s \in getBranchNodes(m, b) :
         db.state[s] = "SKIPPED" /\ db.next[s] = 1 /\ db.delay[s] = "NONE"
  /\ \A s \in InState(wip, {"BLOCKED"}) :
       IF Kind[s] = "merge" THEN wip.state[MergeOf[s]] # "SKIPPED"
       ELSE \A m \in After[s] : wip.state[m] # "SKIPPED"

-----------------------------------------------------------------------------
(* Waiting. *)

(* A WAITING step has what will wake it: a timer, an undecided approval,   *)
(* an open case; nothing else ever looks at it again.  A WAITING run names *)
(* a reason that one of its steps has: the sweeps and timers admit a run   *)
(* by its reason, so a reason nothing stands behind wakes nobody.          *)
WaitsAreBacked ==
  /\ \A s \in InState(db, {"WAITING"}) :
       CASE db.wait[s] = "RETRY_BACKOFF" -> db.retry[s] # "NONE"
         [] db.wait[s] = "DELAY" -> db.delay[s] # "NONE"
         [] db.wait[s] = "APPROVAL" -> s \in Undecided(db)
         [] db.wait[s] = "RECONCILIATION" -> db.cases[s] > 0
         [] OTHER -> db.wait[s] = "RECOVERY_HANDOFF"
  /\ db.status = "WAITING" =>
       CASE db.reason = "RECONCILIATION" -> OpenCases(db) # {}
         [] db.reason = "QUOTA_WAIT" -> InState(db, {"READY"}) # {}
         [] OTHER -> \E s \in InState(db, {"WAITING"}) :
                       db.wait[s] = db.reason /\ db.wait[s] # "NONE"

(* A READY task of a run that is neither paused, held, overdue nor under   *)
(* recovery can be claimed: the run's status admits it to the claim scan.  *)
NotStranded ==
  /\ ~db.pause /\ OpenCases(db) = {} /\ db.clock # "over"
  /\ db.reason # "RECOVERY_HANDOFF"
  /\ \E s \in Nodes : Kind[s] = "task" /\ db.state[s] = "READY"
  => Claimable(db) # {}

-----------------------------------------------------------------------------
(* The end of a run. *)

(* Nothing at all outlives the run (approvals apart): no attempt is live   *)
(* (blueprint 10.2, 3), no step is open, no case and no timer is left.     *)
TerminalQuiet ==
  db.status \in TerminalRun =>
    /\ Live(db) = {} /\ InState(db, OpenStep) = {} /\ OpenCases(db) = {}
    /\ Pending(db.retry) = {} /\ Pending(db.delay) = {}

(* INV-09.  A run ends once: it has recorded one terminal event if it has  *)
(* ended and none before; then it never gets another status.  A terminal   *)
(* step never gets another state; in particular (INV-05) a SUCCEEDED step  *)
(* is never run again, whatever reports, timers and sweeps come late.      *)
EndsOnce ==
  [][/\ db'.ends = IF db'.status \in TerminalRun THEN 1 ELSE 0
     /\ db.status \in TerminalRun => db'.status = db.status
     /\ \A s \in Nodes :
          db.state[s] \in TerminalStep => db'.state[s] = db.state[s]]_vars

-----------------------------------------------------------------------------
(* Pause and cancellation. *)

(* No attempt is launched while a pause is requested, although candidates  *)
(* were read by polls before the pause committed; and once the run is      *)
(* PAUSED none is live, also after recoveries while it drained.            *)
PauseHolds ==
  [][/\ db.pause => Live(db') \subseteq Live(db)
     /\ db'.status = "PAUSED" => Live(db') = {}]_vars

(* Blueprint 10.2, 2: once the run is CANCELLING nothing runs, no step     *)
(* moves, and the run ends CANCELLED, whatever completions, expiries or    *)
(* deadlines arrive later.                                                 *)
CancelWins ==
  [][db.status = "CANCELLING" =>
       /\ Live(db') = {} /\ db'.state = db.state
       /\ db'.status \in {"CANCELLING", "CANCELLED"}]_vars

(* A cancellation recorded as confirmed had every stop it sent confirmed.  *)
ConfirmedMeansStopped ==
  db.confirmed => \A g \in Grants : db.stop[g] \in {"NONE", "CONFIRMED"}

-----------------------------------------------------------------------------
(* Unknown outcomes. *)

(* An attempt of a "reconcile" task that started and ends without a known  *)
(* result puts its step on hold in the same transaction, or ends the run:  *)
(* with HoldNeedsDecision, only an operator can have it repeated.          *)
AmbiguityHeld ==
  [][\A g \in Live(db) \cap db.started :
       Recovery[g[1]] = "reconcile" /\ db'.att[g] \in {"LOST", "TIMED_OUT"} =>
         OnHold(db', g[1]) \/ db'.status \in TerminalRun]_vars

(* A step leaves its hold only when its case is closed: no timer, sweep or *)
(* late message releases it.                                               *)
HoldNeedsDecision ==
  [][\A s \in Nodes : OnHold(db, s) /\ ~OnHold(db', s) =>
       db'.cases[s] < db.cases[s]]_vars

(* A task with an idempotency window is launched only inside it, and one   *)
(* without a window is never launched twice.                               *)
RepeatsInsideWindow ==
  [][\A g \in Live(db') \ Live(db) :
       CASE Recovery[g[1]] = "idempotent" -> db'.window[g[1]] = "OPEN"
         [] Recovery[g[1]] = "unbounded" -> g[2] = 1
         [] OTHER -> TRUE]_vars

-----------------------------------------------------------------------------
(* Approvals. *)

(* A step has an undecided approval exactly while it waits for it, and a   *)
(* decision is the one its step carries.                                   *)
ApprovalMatchesStep ==
  \A s \in Nodes :
    /\ db.appr[s] = "APPROVED" => db.state[s] = "SUCCEEDED"
    /\ db.appr[s] = "EXPIRED" => db.state[s] = "FAILED"
    /\ db.state[s] = "WAITING" /\ Kind[s] = "approval" => s \in Undecided(db)
    /\ s \in Undecided(db) => db.state[s] = "WAITING" \/ db.status \in TerminalRun

-----------------------------------------------------------------------------
(* Progress, under Fairness. *)

(* The sweeps settle what workers leave open: a run that is CANCELLING is  *)
(* CANCELLED in the end, acknowledged or not; one that drains for a pause  *)
(* stops draining, although its workers may never report; one whose        *)
(* deadline has passed ends, whatever it was doing; and a step that waits  *)
(* for a retry does not wait for ever, unless somebody pauses the run.     *)
Settles ==
  /\ db.status = "CANCELLING" ~> db.status = "CANCELLED"
  /\ db.status = "PAUSING" ~> db.status # "PAUSING"
  /\ db.clock = "over" ~> db.status \in TerminalRun
  /\ \A s \in Nodes :
       db.state[s] = "WAITING" /\ db.wait[s] = "RETRY_BACKOFF" /\ ~db.pause
         ~> db.pause \/ ~(db.state[s] = "WAITING" /\ db.wait[s] = "RETRY_BACKOFF")

-----------------------------------------------------------------------------
(* What documents and comments say, and the code does not do. *)

(* Until it ends or is cancelled, a run is PAUSING or PAUSED exactly while *)
(* a pause is requested (docs/pause-resume-safe-actions.md:33).            *)
PauseFlag ==
  Stoppable(db) => (db.pause <=> db.status \in {"PAUSING", "PAUSED"})

(* INV-05.  A step that SUCCEEDED stays SUCCEEDED (docs/blueprint.md:363). *)
SucceededStays ==
  [][\A s \in Nodes : db.state[s] = "SUCCEEDED" => db'.state[s] = "SUCCEEDED"]_vars

(* INV-13.  An attempt of a "reconcile" task that started and was lost is  *)
(* not followed by another one, in instances without operator retries      *)
(* (docs/blueprint.md:371).                                                *)
NoBlindRepeat ==
  \A g \in db.started :
    /\ Recovery[g[1]] = "reconcile" /\ db.att[g] \in {"LOST", "TIMED_OUT"}
    /\ g[2] <= MaxAttempts
    => db.att[<<g[1], g[2] + 1>>] = "NONE"

(* While a case is open no attempt of the run is launched                  *)
(* (docs/unknown-outcome-reconciliation.md:31).                            *)
NoClaimUnderHold ==
  [][OpenCases(db) # {} => Live(db') \subseteq Live(db)]_vars
=============================================================================
