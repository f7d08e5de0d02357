------------------------------- MODULE Agent -------------------------------
(***************************************************************************)
(* The worker agent: the poll loop, one executor and one heartbeat loop    *)
(* per attempt, the child process each executor supervises, the stop of    *)
(* all runners on reconnection, revocation and shutdown, and the answers   *)
(* of the control plane, whose own steps RunEngine has in full.            *)
(*                                                                         *)
(* Goroutines interleave at every call and at every lock.  The agent's     *)
(* mutex is held by stopAllRunners while it waits for a process to die;    *)
(* every other critical section is short and is part of one action, which  *)
(* needs the mutex to be free.                                             *)
(*                                                                         *)
(* Time is counted down in units: the lease at the control plane, the      *)
(* agent's monotonic budget, the supervisor's lease timer and the grace    *)
(* between SIGTERM and SIGKILL.  A timer that is due, or a cancelled       *)
(* context, is noticed before the next unit passes.                        *)
(***************************************************************************)
EXTENDS Naturals, FiniteSets

CONSTANTS
  Attempts,     \* attempts the control plane may assign to this worker
  TTL,          \* DefaultLeaseTTL
  Margin,       \* the round trip and the safety margin taken off a lease
  StartWithin,  \* ClaimStartDeadline
  Grace,        \* the supervisor's GracePeriod
  DrainGrace,   \* cfg.DrainGracePeriod
  Stubborn,     \* attempts whose child ignores SIGTERM
  Undying,      \* attempts whose child outlives SIGKILL as well
  Scenarios     \* attempts to be done, slots, and the troubles met once on the way

ASSUME AgentAssumption ==
  /\ TTL \in Nat /\ Grace \in Nat /\ DrainGrace \in Nat
  /\ StartWithin \in Nat /\ Margin \in 1..TTL
  /\ Undying \subseteq Stubborn /\ Stubborn \subseteq Attempts
  /\ "none" \notin Attempts
  /\ Scenarios \subseteq
       [work : SUBSET Attempts, slots : Nat,
        ahead : SUBSET {"session", "loss", "stop", "revoke", "interrupt"}]

VARIABLES
  at,       \* per attempt: its rows, its executor, heartbeat loop and child
  session,  \* the worker's session at the control plane
  worker,   \* the worker's status there
  slots,    \* cfg.Slots
  mine,     \* a.sessionID and a.sessionTok
  loop,     \* the poll loop: top, polling, refreshing, returned
  asked,    \* availableSlots of the poll in flight
  mu,       \* whose stopAllRunners holds the mutex, or "free"
  victim,   \* the attempt whose process it is waiting for
  waits,    \* calls of stopAllRunners that wait for the mutex
  closing,  \* draining is set and stopPoll closed
  revoked,  \* a.revoked
  signal,   \* the process has been told to shut down
  ctx,      \* the root context is cancelled
  drain,    \* Drain: off, waiting, done
  patience, \* what is left of the drain's grace
  up,       \* the agent's process exists
  ahead     \* troubles that may still happen: a new session, a lost answer,
            \* a stop command, a revocation, a shutdown

vars == <<at, session, worker, slots, mine, loop, asked, mu, victim, waits,
          closing, revoked, signal, ctx, drain, patience, up, ahead>>
plane == <<session, worker, slots>>
poller == <<mine, loop, asked>>
stopper == <<mu, victim, waits>>
flags == <<closing, revoked>>
shutdown == <<signal, ctx, drain, patience, up>>

Free == mu = "free"
Cancelled(a) == at[a].cancelled \/ ctx
Tracked(a) == at[a].listed /\ at[a].pid
Alive(a) == at[a].child \in {"idle", "busy", "termed"}
Holding == {a \in Attempts : at[a].exec \notin {"none", "ended"}}

(* An attempt's state changes, and nothing else does. *)
Only(a, x) ==
  /\ at' = [at EXCEPT ![a] = x]
  /\ UNCHANGED <<plane, poller, stopper, flags, shutdown, ahead>>

(* A trouble happens. *)
Meet(t) == t \in ahead /\ ahead' = ahead \ {t}

(* The same, when an answer of the control plane is lost. *)
Lost(a, x) ==
  /\ Meet("loss")
  /\ at' = [at EXCEPT ![a] = x]
  /\ UNCHANGED <<plane, poller, stopper, flags, shutdown>>

-----------------------------------------------------------------------------
(* The lease tracker and process groups. *)

(* A mutant: the safety margin is forgotten. *)
Safe_unmargined(left) == left

(* The local budget of a lease: what is left, less the margin. *)
Safe(left) == IF left > Margin THEN left - Margin ELSE 0

(* SIGTERM to the child's process group; an obedient child is gone. *)
Signalled(a, x) ==
  IF x.child # "busy" THEN x
  ELSE IF a \in Stubborn THEN [x EXCEPT !.child = "termed", !.kill = Grace]
  ELSE [x EXCEPT !.child = "gone"]

(* TerminateProcessGroup has returned: the group is gone, or survived SIGKILL. *)
Terminated(a) ==
  \/ ~Alive(a)
  \/ a \in Undying /\ at[a].child = "termed" /\ at[a].kill = 0

(* SIGKILL when the grace is over. *)
Kill(a) ==
  /\ up /\ a \notin Undying /\ at[a].child = "termed" /\ at[a].kill = 0
  /\ Only(a, [at[a] EXCEPT !.child = "gone"])

(* The handler ends by itself, under an agent or without one. *)
ChildExits(a) ==
  /\ at[a].child \in {"busy", "termed"} /\ a \notin Undying
  /\ Only(a, [at[a] EXCEPT !.child = "gone"])

-----------------------------------------------------------------------------
(* What the control plane answers. *)

Authentic == worker # "REVOKED" /\ mine = session
Stale == worker # "REVOKED" /\ mine # session
Owned(x) == Authentic /\ x.issued = session /\ x.lease > 0
StartHolds(x) ==
  /\ Owned(x)
  /\ \/ x.row = "RUNNING"
     \/ x.row = "CLAIMED" /\ TTL - x.lease <= StartWithin
Renewable(x) == Owned(x) /\ x.row = "RUNNING" /\ ~x.stop
Fenced(x) == IF x.row \in {"CLAIMED", "RUNNING"} THEN [x EXCEPT !.row = "LOST"] ELSE x

(* 403 WORKER_REVOKED: the attempt becomes x, every runner is to be stopped. *)
handleWorkerRevoked(a, x) ==
  /\ worker = "REVOKED" /\ Free
  /\ at' = [at EXCEPT ![a] = x]
  /\ revoked' = TRUE /\ closing' = TRUE
  /\ waits' = waits \cup {"revoke"}
  /\ UNCHANGED <<plane, poller, mu, victim, shutdown, ahead>>

-----------------------------------------------------------------------------
(* The poll loop. *)

(* A mutant: the slots in use are counted in the map of running attempts. *)
FreeSlots_byMap == slots - Cardinality({a \in Attempts : at[a].listed})

(* What the semaphore has left: an executor gives its slot back last. *)
FreeSlots == slots - Cardinality(Holding)

Running == loop = "top" /\ Free /\ ~closing /\ ~ctx

PollSends ==
  /\ up /\ Running /\ FreeSlots > 0
  /\ loop' = "polling" /\ asked' = FreeSlots
  /\ UNCHANGED <<at, plane, mine, stopper, flags, shutdown, ahead>>

Claimed(S, exec) ==
  [a \in Attempts |->
     IF a \in S THEN [at[a] EXCEPT !.row = "CLAIMED", !.issued = session,
                                   !.lease = TTL, !.exec = exec]
     ELSE at[a]]

Claimable == {S \in SUBSET {a \in Attempts : at[a].row = "READY"} : Cardinality(S) <= asked}

(* Each assignment gets a slot and a goroutine, whatever happened meanwhile. *)
PollAnswered ==
  /\ up /\ loop = "polling" /\ Authentic
  /\ \E S \in Claimable : at' = Claimed(S, "spawned")
  /\ loop' = "top" /\ asked' = 0
  /\ UNCHANGED <<plane, mine, stopper, flags, shutdown, ahead>>

(* The control plane assigned work and the agent never learns of it. *)
PollLost ==
  /\ up /\ loop = "polling" /\ Authentic /\ Meet("loss")
  /\ \E S \in Claimable : at' = Claimed(S, "none")
  /\ loop' = "top" /\ asked' = 0
  /\ UNCHANGED <<plane, mine, stopper, flags, shutdown>>

(* The session is no longer valid, or the context is cancelled. *)
PollFails ==
  /\ up /\ loop = "polling" /\ (Stale \/ ctx)
  /\ loop' = "top" /\ asked' = 0
  /\ UNCHANGED <<at, plane, mine, stopper, flags, shutdown, ahead>>

PollRevoked ==
  /\ up /\ loop = "polling" /\ worker = "REVOKED" /\ Free
  /\ loop' = "returned" /\ asked' = 0
  /\ revoked' = TRUE /\ closing' = TRUE /\ waits' = waits \cup {"revoke"}
  /\ UNCHANGED <<at, plane, mine, mu, victim, shutdown, ahead>>

(* FenceWorkerSessions: what the worker holds is lost. *)
Fence == [a \in Attempts |-> Fenced(at[a])]

(* Two minutes before the session expires the loop opens a new one. *)
refreshSession ==
  /\ up /\ Running /\ worker # "REVOKED" /\ Meet("session")
  /\ session' = session + 1 /\ at' = Fence
  /\ loop' = "refreshing" /\ waits' = waits \cup {"refresh"}
  /\ UNCHANGED <<worker, slots, mine, asked, mu, victim, flags, shutdown>>

(* The session is open and its answer is lost: the loop goes on as before. *)
refreshLost ==
  /\ up /\ Running /\ worker # "REVOKED" /\ Meet("loss")
  /\ session' = session + 1 /\ at' = Fence
  /\ UNCHANGED <<worker, slots, poller, stopper, flags, shutdown>>

LoopReturns ==
  /\ up /\ loop = "top" /\ (closing \/ ctx)
  /\ loop' = "returned"
  /\ UNCHANGED <<at, plane, mine, asked, stopper, flags, shutdown, ahead>>

-----------------------------------------------------------------------------
(* stopAllRunners: under the mutex, one attempt after the other. *)

StopBegins(k) ==
  /\ up /\ Free /\ k \in waits
  /\ mu' = k /\ waits' = waits \ {k}
  /\ UNCHANGED <<at, plane, poller, victim, flags, shutdown, ahead>>

(* A mutant: only runners that have a process are cancelled. *)
StopRunner_launchedOnly(a) ==
  /\ up /\ ~Free /\ victim = "none" /\ at[a].listed
  /\ IF at[a].pid
     THEN /\ at' = [at EXCEPT ![a] = Signalled(a, [@ EXCEPT !.cancelled = TRUE])]
          /\ victim' = a
     ELSE /\ at' = [at EXCEPT ![a].listed = FALSE]
          /\ UNCHANGED victim
  /\ UNCHANGED <<plane, poller, mu, waits, flags, shutdown, ahead>>

(* Its context is cancelled; a process that is known is terminated. *)
StopRunner(a) ==
  /\ up /\ ~Free /\ victim = "none" /\ at[a].listed
  /\ LET x == [at[a] EXCEPT !.cancelled = TRUE]
     IN IF x.pid THEN at' = [at EXCEPT ![a] = Signalled(a, x)] /\ victim' = a
        ELSE at' = [at EXCEPT ![a] = [x EXCEPT !.listed = FALSE]] /\ UNCHANGED victim
  /\ UNCHANGED <<plane, poller, mu, waits, flags, shutdown, ahead>>

StopAwaits(a) ==
  /\ up /\ victim = a /\ Terminated(a)
  /\ victim' = "none" /\ at' = [at EXCEPT ![a].listed = FALSE]
  /\ UNCHANGED <<plane, poller, mu, waits, flags, shutdown, ahead>>

(* A mutant: a revocation leaves the mutex locked. *)
StopEnds_locked ==
  /\ up /\ ~Free /\ victim = "none" /\ \A a \in Attempts : ~at[a].listed
  /\ IF mu = "refresh" THEN mu' = "free" /\ mine' = session /\ loop' = "top"
     ELSE mu # "revoke" /\ mu' = "free" /\ UNCHANGED <<mine, loop>>
  /\ UNCHANGED <<at, plane, asked, victim, waits, flags, shutdown, ahead>>

(* The map is empty.  A refresh now installs the session it opened. *)
StopEnds ==
  /\ up /\ ~Free /\ victim = "none" /\ \A a \in Attempts : ~at[a].listed
  /\ mu' = "free"
  /\ IF mu = "refresh" THEN mine' = session /\ loop' = "top" ELSE UNCHANGED <<mine, loop>>
  /\ UNCHANGED <<at, plane, asked, victim, waits, flags, shutdown, ahead>>

-----------------------------------------------------------------------------
(* executeAssignment. *)

(* The attempt enters the map and its lease tracker is set up. *)
Register(a) ==
  /\ up /\ at[a].exec = "spawned" /\ Free
  /\ Only(a, [at[a] EXCEPT !.exec = "start", !.listed = TRUE, !.track = Safe(at[a].lease)])

Starting(a) == up /\ at[a].exec \in {"start", "retry"}

CanStart(a) == at[a].track > 0

(* Start is acknowledged and the budget checked once more. *)
StartAccepted(a) ==
  /\ Starting(a) /\ ~Cancelled(a) /\ StartHolds(at[a])
  /\ Only(a, [at[a] EXCEPT !.exec = IF CanStart(a) THEN "prepared" ELSE "report",
                           !.row = "RUNNING", !.hb = "on"])

(* The answer is lost; the same Start is sent once more. *)
StartLost(a) ==
  /\ Starting(a) /\ ~Cancelled(a)
  /\ Lost(a, [at[a] EXCEPT !.row = IF StartHolds(at[a]) THEN "RUNNING" ELSE @,
                           !.exec = IF @ = "start" THEN "retry" ELSE "leaving"])

StartRefused(a) ==
  /\ Starting(a)
  /\ \/ Cancelled(a)
     \/ worker # "REVOKED" /\ ~StartHolds(at[a])
  /\ Only(a, [at[a] EXCEPT !.exec = "leaving"])

StartRevoked(a) ==
  Starting(a) /\ ~Cancelled(a) /\ handleWorkerRevoked(a, [at[a] EXCEPT !.exec = "leaving"])

(* A secret is missing, or the bundle, the environment or the input is refused. *)
PreparationFails(a) ==
  /\ up /\ at[a].exec = "prepared"
  /\ Only(a, [at[a] EXCEPT !.exec = "report"])

Launch(a) ==
  /\ up /\ at[a].exec = "prepared"
  /\ Only(a, [at[a] EXCEPT !.exec = "launched", !.child = "idle"])

(* OnProcessStart records the process; the input is written; the lease     *)
(* timer is set to what the tracker has left, and never again.             *)
Deliver(a) ==
  /\ up /\ at[a].exec = "launched" /\ Free
  /\ Only(a, [at[a] EXCEPT !.exec = "running", !.pid = TRUE, !.child = "busy",
                           !.fuse = at[a].track])

(* The child is dead before it has read its input. *)
DeliveryFails(a) ==
  /\ up /\ at[a].exec = "launched" /\ Free
  /\ Only(a, [at[a] EXCEPT !.exec = "report", !.pid = TRUE, !.child = "gone"])

ChildEnded(a) ==
  /\ up /\ at[a].exec = "running" /\ at[a].child = "gone"
  /\ Only(a, [at[a] EXCEPT !.exec = "report"])

(* The context is cancelled, the lease timer or the attempt's timeout fires. *)
Terminate(a, why) ==
  /\ up /\ at[a].exec = "running"
  /\ CASE why = "ctx" -> Cancelled(a)
       [] why = "lease" -> at[a].fuse = 0
       [] OTHER -> TRUE
  /\ Only(a, [Signalled(a, at[a]) EXCEPT !.exec = "killing"])

(* A mutant: the executor does not wait for the process to exit. *)
Reap_unwaited(a) ==
  /\ up /\ at[a].exec = "killing"
  /\ Only(a, [at[a] EXCEPT !.exec = "report"])

Reap(a) ==
  /\ up /\ at[a].exec = "killing" /\ at[a].child = "gone"
  /\ Only(a, [at[a] EXCEPT !.exec = "report"])

(* After a revocation or under a cancelled context nothing is reported. *)
Silent(a) == revoked \/ Cancelled(a)

ReportAccepted(a) ==
  /\ up /\ at[a].exec = "report" /\ Free /\ ~Silent(a)
  /\ Owned(at[a]) /\ at[a].row = "RUNNING"
  /\ Only(a, [at[a] EXCEPT !.exec = "leaving", !.row = "DONE", !.lease = 0])

ReportRefused(a) ==
  /\ up /\ at[a].exec = "report" /\ Free
  /\ \/ Silent(a)
     \/ worker # "REVOKED" /\ ~(Owned(at[a]) /\ at[a].row = "RUNNING")
  /\ Only(a, [at[a] EXCEPT !.exec = "leaving"])

(* Neither of the two identical requests arrives. *)
ReportLost(a) ==
  /\ up /\ at[a].exec = "report" /\ Free /\ ~Silent(a)
  /\ Lost(a, [at[a] EXCEPT !.exec = "leaving"])

ReportRevoked(a) ==
  /\ up /\ at[a].exec = "report" /\ ~Silent(a)
  /\ handleWorkerRevoked(a, [at[a] EXCEPT !.exec = "leaving"])

(* The deferred calls: the heartbeat loop ends, the entry and the slot go. *)
Leave(a) ==
  /\ up /\ at[a].exec = "leaving" /\ Free
  /\ Only(a, [at[a] EXCEPT !.exec = "ended", !.listed = FALSE, !.cancelled = TRUE,
                           !.track = 0, !.fuse = 0, !.hb = IF @ = "on" THEN "off" ELSE @])

-----------------------------------------------------------------------------
(* heartbeatLoop. *)

Beating(a) == up /\ at[a].hb = "on" /\ ~Cancelled(a)

HeartbeatQuits(a) ==
  /\ up /\ at[a].hb = "on" /\ Cancelled(a)
  /\ Only(a, [at[a] EXCEPT !.hb = "off"])

(* The budget is used up: a known process is terminated, and the loop ends. *)
HeartbeatExpires(a) ==
  /\ Beating(a) /\ at[a].track = 0 /\ Free
  /\ Only(a, IF Tracked(a) THEN [Signalled(a, at[a]) EXCEPT !.hb = "ending"]
             ELSE [at[a] EXCEPT !.hb = "off"])

HeartbeatEnds(a) ==
  /\ up /\ at[a].hb = "ending" /\ Terminated(a)
  /\ Only(a, [at[a] EXCEPT !.hb = "off"])

Renew(a) ==
  /\ Beating(a) /\ at[a].track > 0 /\ Renewable(at[a])
  /\ Only(a, [at[a] EXCEPT !.lease = TTL, !.track = Safe(TTL)])

(* The lease is longer than the agent knows. *)
RenewalLost(a) ==
  /\ Beating(a) /\ at[a].track > 0 /\ Renewable(at[a])
  /\ Lost(a, [at[a] EXCEPT !.lease = TTL])

StopReceived(a) ==
  /\ Beating(a) /\ at[a].track > 0 /\ Authentic /\ ~Renewable(at[a])
  /\ Only(a, [at[a] EXCEPT !.hb = "stop"])

HeartbeatRevoked(a) ==
  /\ Beating(a) /\ at[a].track > 0
  /\ handleWorkerRevoked(a, [at[a] EXCEPT !.hb = "off"])

(* The stop command: a known process is terminated first; without one the  *)
(* stop is acknowledged.                                                   *)
HandleStop(a) ==
  /\ up /\ at[a].hb = "stop" /\ Free
  /\ Only(a, IF Tracked(a) THEN [Signalled(a, at[a]) EXCEPT !.hb = "stopping"]
             ELSE [at[a] EXCEPT !.hb = "ack", !.said = "stopped"])

StopObserved(a) ==
  /\ up /\ at[a].hb = "stopping" /\ Terminated(a)
  /\ Only(a, [at[a] EXCEPT !.hb = "ack", !.said = IF Alive(a) THEN "alive" ELSE "stopped"])

(* The answer to the acknowledgement; any error but a revocation is dropped. *)
StopAcknowledged(a) ==
  /\ up /\ at[a].hb = "ack"
  /\ \/ worker # "REVOKED" /\ Only(a, [at[a] EXCEPT !.hb = "off"])
     \/ handleWorkerRevoked(a, [at[a] EXCEPT !.hb = "off"])

-----------------------------------------------------------------------------
(* Shutdown.  The signal reaches the caller, which cancels the root        *)
(* context, and the agent, which drains.                                   *)

Interrupt ==
  /\ up /\ Meet("interrupt") /\ signal' = TRUE
  /\ UNCHANGED <<at, plane, poller, stopper, flags, ctx, drain, patience, up>>

CancelContext ==
  /\ up /\ signal /\ ~ctx /\ ctx' = TRUE
  /\ UNCHANGED <<at, plane, poller, stopper, flags, signal, drain, patience, up, ahead>>

DrainBegins ==
  /\ up /\ signal /\ drain = "off" /\ Free
  /\ closing' = TRUE /\ drain' = "waiting" /\ patience' = DrainGrace
  /\ UNCHANGED <<at, plane, poller, stopper, revoked, signal, ctx, up, ahead>>

Drained ==
  /\ up /\ drain = "waiting" /\ Free /\ \A a \in Attempts : ~at[a].listed
  /\ drain' = "done"
  /\ UNCHANGED <<at, plane, poller, stopper, flags, signal, ctx, patience, up, ahead>>

DrainForces ==
  /\ up /\ drain = "waiting" /\ (ctx \/ patience = 0)
  /\ drain' = "done" /\ waits' = waits \cup {"drain"}
  /\ UNCHANGED <<at, plane, poller, mu, victim, flags, signal, ctx, patience, up, ahead>>

(* Start returns as soon as the poll loop does, and main with it: the      *)
(* goroutines are gone, the children are not.                              *)
Exit ==
  /\ up /\ loop = "returned" /\ up' = FALSE
  /\ at' = [a \in Attempts |->
       [at[a] EXCEPT !.exec = IF @ = "none" THEN @ ELSE "ended", !.hb = "off",
                     !.listed = FALSE, !.pid = FALSE, !.cancelled = TRUE,
                     !.track = 0, !.fuse = 0, !.kill = 0]]
  /\ mu' = "free" /\ victim' = "none" /\ waits' = {}
  /\ drain' = "done" /\ patience' = 0
  /\ UNCHANGED <<plane, poller, flags, signal, ctx, ahead>>

-----------------------------------------------------------------------------
(* The control plane, and time. *)

(* The run is cancelled: the next heartbeat brings a stop command. *)
RequestStop(a) ==
  /\ at[a].row \in {"CLAIMED", "RUNNING"} /\ Meet("stop")
  /\ at' = [at EXCEPT ![a].stop = TRUE]
  /\ UNCHANGED <<plane, poller, stopper, flags, shutdown>>

(* The sweep finds the lease expired. *)
ExpireLease(a) ==
  /\ at[a].row \in {"CLAIMED", "RUNNING"} /\ at[a].lease = 0
  /\ Only(a, Fenced(at[a]))

RevokeWorker ==
  /\ Meet("revoke") /\ worker' = "REVOKED"
  /\ at' = Fence
  /\ UNCHANGED <<session, slots, poller, stopper, flags, shutdown>>

(* What a prompt agent does before the next unit of time. *)
Due(a) ==
  /\ up
  /\ \/ at[a].exec = "running" /\ at[a].child # "gone" /\ (Cancelled(a) \/ at[a].fuse = 0)
     \/ a \notin Undying /\ at[a].child = "termed" /\ at[a].kill = 0

Less(n) == IF n > 0 THEN n - 1 ELSE 0

Older(x) == [x EXCEPT !.lease = Less(@), !.track = Less(@), !.fuse = Less(@), !.kill = Less(@)]

Tick ==
  /\ \A a \in Attempts : ~Due(a)
  /\ at' = [a \in Attempts |-> Older(at[a])]
  /\ patience' = Less(patience)
  /\ UNCHANGED <<plane, poller, stopper, flags, signal, ctx, drain, up, ahead>>

-----------------------------------------------------------------------------
(* The specification.  The agent is up, enrolled and has opened a session. *)

NewAttempt ==
  [row |-> "READY", issued |-> 0, lease |-> 0, stop |-> FALSE, said |-> "none",
   exec |-> "none", hb |-> "off", child |-> "none", listed |-> FALSE, pid |-> FALSE,
   cancelled |-> FALSE, track |-> 0, fuse |-> 0, kill |-> 0]

Init ==
  /\ \E s \in Scenarios :
       /\ at = [a \in Attempts |->
                 IF a \in s.work THEN NewAttempt ELSE [NewAttempt EXCEPT !.row = "DONE"]]
       /\ slots = s.slots /\ ahead = s.ahead
  /\ session = 1 /\ worker = "ACTIVE" /\ mine = 1
  /\ loop = "top" /\ asked = 0
  /\ mu = "free" /\ victim = "none" /\ waits = {}
  /\ closing = FALSE /\ revoked = FALSE
  /\ signal = FALSE /\ ctx = FALSE /\ drain = "off" /\ patience = 0
  /\ up = TRUE

LoopStep ==
  PollSends \/ PollAnswered \/ PollLost \/ PollFails \/ PollRevoked \/ LoopReturns \/ Exit

StopStep ==
  \/ \E k \in {"refresh", "revoke", "drain"} : StopBegins(k)
  \/ \E a \in Attempts : StopRunner(a) \/ StopAwaits(a)
  \/ StopEnds

ExecuteStep(a) ==
  \/ Register(a)
  \/ StartAccepted(a) \/ StartLost(a) \/ StartRefused(a) \/ StartRevoked(a)
  \/ PreparationFails(a) \/ Launch(a) \/ Deliver(a) \/ DeliveryFails(a)
  \/ ChildEnded(a) \/ Reap(a) \/ Terminate(a, "ctx") \/ Terminate(a, "lease")
  \/ ReportAccepted(a) \/ ReportRefused(a) \/ ReportLost(a) \/ ReportRevoked(a)
  \/ Leave(a)

HeartbeatStep(a) ==
  \/ HeartbeatQuits(a) \/ HeartbeatExpires(a) \/ HeartbeatEnds(a)
  \/ Renew(a) \/ RenewalLost(a) \/ StopReceived(a) \/ HeartbeatRevoked(a)
  \/ HandleStop(a) \/ StopObserved(a) \/ StopAcknowledged(a)

ShutdownStep == CancelContext \/ DrainBegins \/ Drained \/ DrainForces

Next ==
  \/ LoopStep \/ refreshSession \/ refreshLost \/ StopStep
  \/ \E a \in Attempts : ExecuteStep(a) \/ HeartbeatStep(a) \/ Kill(a) \/ ChildExits(a)
  \/ \E a \in Attempts : Terminate(a, "timeout") \/ RequestStop(a) \/ ExpireLease(a)
  \/ Interrupt \/ ShutdownStep \/ RevokeWorker \/ Tick

Spec == Init /\ [][Next]_vars

(* The poll loop, stopAllRunners, the executors and the shutdown run, and  *)
(* time passes.  Heartbeats need not: an executor does not wait for them.  *)
(* No child is assumed to end by itself, and nobody has to revoke, cancel  *)
(* or interrupt.                                                           *)
Fairness ==
  /\ WF_vars(LoopStep) /\ WF_vars(StopStep) /\ WF_vars(ShutdownStep) /\ WF_vars(Tick)
  /\ \A a \in Attempts : WF_vars(ExecuteStep(a)) /\ WF_vars(Kill(a))

FairSpec == Spec /\ Fairness

-----------------------------------------------------------------------------
(* Properties. *)

(* The type of every variable. *)
TypeOK ==
  /\ at \in [Attempts ->
       [row : {"READY", "CLAIMED", "RUNNING", "LOST", "DONE"}, issued : 0..session,
        lease : 0..TTL, stop : BOOLEAN, said : {"none", "stopped", "alive"},
        exec : {"none", "spawned", "start", "retry", "prepared", "launched",
                "running", "killing", "report", "leaving", "ended"},
        hb : {"off", "on", "ending", "stop", "stopping", "ack"},
        child : {"none", "idle", "busy", "termed", "gone"},
        listed : BOOLEAN, pid : BOOLEAN, cancelled : BOOLEAN,
        track : 0..TTL, fuse : 0..TTL, kill : 0..Grace]]
  /\ slots \in {s.slots : s \in Scenarios}
  /\ session \in 1..3 /\ mine \in 1..session
  /\ worker \in {"ACTIVE", "REVOKED"}
  /\ loop \in {"top", "polling", "refreshing", "returned"} /\ asked \in 0..slots
  /\ mu \in {"free", "refresh", "revoke", "drain"}
  /\ victim \in Attempts \cup {"none"}
  /\ waits \subseteq {"refresh", "revoke", "drain"}
  /\ {closing, revoked, signal, ctx, up} \subseteq BOOLEAN
  /\ drain \in {"off", "waiting", "done"} /\ patience \in 0..DrainGrace
  /\ ahead \subseteq UNION {s.ahead : s \in Scenarios}

(* While the agent lives, no unit of time begins with a handler that runs  *)
(* undisturbed and a lease that is down to the safety margin: whatever     *)
(* answers were lost and whoever holds the mutex, SIGTERM has been sent    *)
(* by then (ExecuteAttempt's lease timer, LeaseTracker).                   *)
LeaseCoversHandler ==
  [][Tick => \A a \in Attempts : up /\ at[a].child = "busy" => at[a].lease > Margin]_vars

(* No unit of time begins with a handler of an earlier session, once the   *)
(* agent has taken the new one over: not even one that was between its     *)
(* Start and its launch when the old runners were stopped (refreshSession, *)
(* stopAllRunners).                                                        *)
OldRunnersAreStopped ==
  [][Tick => \A a \in Attempts :
       up /\ at[a].child = "busy" => at[a].issued = mine \/ loop = "refreshing"]_vars

(* There are never more child processes than slots, although stopped       *)
(* runners leave the map before their executors have ended (slotsChan).    *)
ChildrenWithinSlots == Cardinality({a \in Attempts : Alive(a)}) <= slots

(* What the agent says of its processes is true.  A result is accepted     *)
(* only after the process that produced it is gone, so the next step never *)
(* overlaps the handler (ExecuteAttempt, Complete); ProcessStopped is      *)
(* never said of a process the agent knows of and that is alive, although  *)
(* other goroutines cancel, unlist and kill it while the stop command is   *)
(* handled (heartbeatLoop).                                                *)
ReportsAreTrue ==
  [][\A a \in Attempts :
       /\ at'[a].row = "DONE" => ~Alive(a)'
       /\ at[a].said = "none" /\ at'[a].said = "stopped" => ~(Tracked(a) /\ Alive(a))]_vars

(* Every assignment gives its slot back, whatever its handler does, unless *)
(* the process group outlives SIGKILL: no order of stops, losses and      *)
(* revocations leaves an executor waiting forever (executeAssignment).     *)
EveryAttemptEnds == <>[](up => Holding \subseteq Undying)

-----------------------------------------------------------------------------
(* What documents and comments say, and the code does not do. *)

(* The lease timer ends a handler only when no renewal came in time        *)
(* (docs/worker-agent-and-execution-lifecycle.md:156).                     *)
RenewalExtends ==
  [][\A a \in Attempts : Terminate(a, "lease") => at[a].track = 0 \/ Cancelled(a)]_vars

(* Every local child is stopped before the agent exits (agent.go:771).     *)
NoOrphans == ~up => \A a \in Attempts : at[a].child # "busy"

(* A stop that was confirmed stays true (agent.go:660).                    *)
ConfirmedIsStopped == \A a \in Attempts : at[a].said = "stopped" => at[a].child # "busy"
=============================================================================
