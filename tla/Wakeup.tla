------------------------------- MODULE Wakeup -------------------------------
(***************************************************************************)
(* What becomes of a hint, and how work is found without one.  The outbox   *)
(* is what AtLeastOnce says of it.  JetStream keeps a copy of what it       *)
(* accepts, delivers it to one consumer at a time, delivers it again when   *)
(* no ACK came, gives up after MaxDeliver deliveries, and may lose it.  The *)
(* consumer (internal/outbox/consumer.go) turns a hint into a wake-up of    *)
(* the reconciler (internal/scheduling/reconciler.go), a channel of         *)
(* capacity one; the reconciler sweeps all tenants on a wake-up and on its  *)
(* ticker, and the first tenant that fails ends the sweep.                  *)
(***************************************************************************)
EXTENDS Naturals

CONSTANTS
  Procs,       \* control-plane processes
  Tenants,     \* organizations
  Events,      \* outbox events
  TenantOf,    \* the organization of each event
  MaxDeliver,  \* ConsumerConfig.MaxDeliver
  MaxFaults,   \* bound: crashes of one behaviour
  None         \* no tenant

ASSUME WakeupAssumption ==
  /\ TenantOf \in [Events -> Tenants] /\ None \notin Tenants
  /\ MaxDeliver \in Nat /\ MaxFaults \in Nat

VARIABLES
  stage,   \* the outbox, as AtLeastOnce has it
  stream,  \* the copy of each hint: absent, ready or out (delivered, not ACKed)
  tries,   \* its deliveries
  up,      \* the process runs
  wake,    \* Reconciler.wakeup holds a signal
  sweep,   \* the tenants the running sweep has still to visit; Between sweeps, none runs
  work,    \* committed events whose change no sweep has acted on
  saw,     \* history: the work that was there when the running sweep began
  told,    \* history: events whose hint this process took since its last failed sweep
  faults   \* crashes so far

vars == <<stage, stream, tries, up, wake, sweep, work, saw, told, faults>>

\* A malformed event is, to everyone here, one that is never published.
Delivery == INSTANCE AtLeastOnce WITH Malformed <- {}

Between == {None}

TypeOK ==
  /\ stage \in [Events -> Delivery!Stages]
  /\ stream \in [Events -> {"absent", "ready", "out"}]
  /\ tries \in [Events -> 0..MaxDeliver]
  /\ up \in [Procs -> BOOLEAN] /\ wake \in [Procs -> BOOLEAN]
  /\ sweep \in [Procs -> (SUBSET Tenants) \cup {Between}]
  /\ work \subseteq Events
  /\ saw \in [Procs -> SUBSET Events] /\ told \in [Procs -> SUBSET Events]
  /\ faults \in 0..MaxFaults

Init ==
  /\ Delivery!Init
  /\ stream = [e \in Events |-> "absent"] /\ tries = [e \in Events |-> 0]
  /\ up = [p \in Procs |-> TRUE] /\ wake = [p \in Procs |-> FALSE]
  /\ sweep = [p \in Procs |-> Between] /\ work = {}
  /\ saw = [p \in Procs |-> {}] /\ told = [p \in Procs |-> {}] /\ faults = 0

-----------------------------------------------------------------------------
(* The outbox and the broker. *)

\* A transaction commits a change and its outbox row.
Commit(e) ==
  /\ Delivery!Owe(e)
  /\ work' = work \cup {e}
  /\ UNCHANGED <<stream, tries, up, wake, sweep, saw, told, faults>>

\* The broker accepts the event, for the first time or (its duplicate window
\* over, the row not marked yet) once more.
Publish(e) ==
  /\ Delivery!Send(e) \/ (stage[e] = "sent" /\ UNCHANGED stage)
  /\ stream[e] = "absent"
  /\ stream' = [stream EXCEPT ![e] = "ready"]
  /\ UNCHANGED <<tries, up, wake, sweep, work, saw, told, faults>>

\* The row is marked published and will not be sent again.
Settle(e) ==
  /\ Delivery!Settle(e)
  /\ UNCHANGED <<stream, tries, up, wake, sweep, work, saw, told, faults>>

\* The broker drops the hint: MaxAge, DiscardOld, or its files are lost.
Lose(e) ==
  /\ stream[e] # "absent"
  /\ stream' = [stream EXCEPT ![e] = "absent"] /\ tries' = [tries EXCEPT ![e] = 0]
  /\ UNCHANGED <<stage, up, wake, sweep, work, saw, told, faults>>

\* AckWait passes without an ACK.
AckWaitPasses(e) ==
  /\ stream[e] = "out"
  /\ stream' = [stream EXCEPT ![e] = "ready"]
  /\ UNCHANGED <<stage, tries, up, wake, sweep, work, saw, told, faults>>

\* processMessage: HandleWakeup is Reconciler.Wake, which neither blocks nor
\* fails; then the ACK, which the broker may not get.
ProcessMessage(p, e) ==
  /\ up[p] /\ stream[e] = "ready" /\ tries[e] < MaxDeliver
  /\ wake' = [wake EXCEPT ![p] = TRUE]
  /\ told' = [told EXCEPT ![p] = @ \cup {e}]
  /\ \/ stream' = [stream EXCEPT ![e] = "absent"] /\ tries' = [tries EXCEPT ![e] = 0]
     \/ stream' = [stream EXCEPT ![e] = "out"] /\ tries' = [tries EXCEPT ![e] = @ + 1]
  /\ UNCHANGED <<stage, up, sweep, work, saw, faults>>

-----------------------------------------------------------------------------
(* The reconciler: one goroutine, one sweep at a time. *)

Begin(p) ==
  /\ up[p] /\ sweep[p] = Between
  /\ sweep' = [sweep EXCEPT ![p] = Tenants]
  /\ saw' = [saw EXCEPT ![p] = work]
  /\ UNCHANGED <<stage, stream, tries, up, work, told, faults>>

WakeSweep(p) == Begin(p) /\ wake[p] /\ wake' = [wake EXCEPT ![p] = FALSE]

(* A mutant: once a hint was taken the ticker leaves sweeping to hints. *)
TickSweep_untilHinted(p) == Begin(p) /\ told[p] = {} /\ UNCHANGED wake

TickSweep(p) == Begin(p) /\ UNCHANGED wake

\* The hook of one tenant reads the database and acts on what it finds there.
VisitTenant(p, t) ==
  /\ up[p] /\ t \in sweep[p]
  /\ sweep' = [sweep EXCEPT ![p] = @ \ {t}]
  /\ work' = {e \in work : TenantOf[e] # t}
  /\ UNCHANGED <<stage, stream, tries, up, wake, saw, told, faults>>

(* A mutant: a failing tenant is logged and left out. *)
TenantFails_skipped(p) ==
  /\ up[p] /\ \E t \in sweep[p] \ Between : sweep' = [sweep EXCEPT ![p] = @ \ {t}]
  /\ told' = [told EXCEPT ![p] = {}]
  /\ UNCHANGED <<stage, stream, tries, up, wake, work, saw, faults>>

\* The hook of one tenant fails and the sweep ends with it.
TenantFails(p) ==
  /\ up[p] /\ sweep[p] \notin {Between, {}}
  /\ sweep' = [sweep EXCEPT ![p] = Between]
  /\ saw' = [saw EXCEPT ![p] = {}] /\ told' = [told EXCEPT ![p] = {}]
  /\ UNCHANGED <<stage, stream, tries, up, wake, work, faults>>

(* A mutant: wake-ups that arrived during the sweep are drained with it. *)
StoreHeartbeat_drained(p) ==
  /\ up[p] /\ sweep[p] = {}
  /\ sweep' = [sweep EXCEPT ![p] = Between]
  /\ saw' = [saw EXCEPT ![p] = {}] /\ wake' = [wake EXCEPT ![p] = FALSE]
  /\ UNCHANGED <<stage, stream, tries, up, work, told, faults>>

\* Every tenant was visited: the heartbeat that /readyz asks for is stored.
StoreHeartbeat(p) ==
  /\ up[p] /\ sweep[p] = {}
  /\ sweep' = [sweep EXCEPT ![p] = Between]
  /\ saw' = [saw EXCEPT ![p] = {}]
  /\ UNCHANGED <<stage, stream, tries, up, wake, work, told, faults>>

Crash(p) ==
  /\ faults < MaxFaults /\ faults' = faults + 1
  /\ up[p] /\ up' = [up EXCEPT ![p] = FALSE]
  /\ wake' = [wake EXCEPT ![p] = FALSE]
  /\ sweep' = [sweep EXCEPT ![p] = Between]
  /\ saw' = [saw EXCEPT ![p] = {}] /\ told' = [told EXCEPT ![p] = {}]
  /\ UNCHANGED <<stage, stream, tries, work>>

Restart(p) ==
  /\ ~up[p] /\ up' = [up EXCEPT ![p] = TRUE]
  /\ UNCHANGED <<stage, stream, tries, wake, sweep, work, saw, told, faults>>

Hints ==
  \E e \in Events : \/ Commit(e) \/ Publish(e) \/ Settle(e) \/ Lose(e) \/ AckWaitPasses(e)
                    \/ \E p \in Procs : ProcessMessage(p, e)

Reconciler(p) ==
  \/ WakeSweep(p) \/ TickSweep(p) \/ TenantFails(p) \/ StoreHeartbeat(p)
  \/ \E t \in Tenants : VisitTenant(p, t)

Next == Hints \/ \E p \in Procs : Reconciler(p) \/ Crash(p) \/ Restart(p)

Spec == Init /\ [][Next]_vars

(***************************************************************************)
(* The ticker fires while the reconciler waits, a sweep goes on, and a      *)
(* crashed process is restarted.  No tenant's hook fails every time it is   *)
(* tried (strong fairness); without that the tenants behind it would wait   *)
(* for ever.  Nothing is assumed of the broker or of hints.                 *)
(***************************************************************************)
Fairness ==
  \A p \in Procs :
    /\ WF_vars(TickSweep(p)) /\ WF_vars(StoreHeartbeat(p)) /\ WF_vars(Restart(p))
    /\ \A t \in Tenants : SF_vars(VisitTenant(p, t))

FairSpec == Spec /\ Fairness

-----------------------------------------------------------------------------
\* Work is found whatever happens to hints: Reconciler.Run sweeps on its
\* ticker, so lost hints, spent deliveries, lost wake-ups, failed sweeps and
\* crashes only delay it.
WorkIsFound == \A e \in Events : e \in work ~> e \notin work

\* Coalescing loses no wake-up: while the change behind a hint this process
\* took is still to be acted on, a wake-up is pending or the running sweep
\* has yet to visit the tenant (Reconciler.Wake, Run).
WakeIsNotLost ==
  \A p \in Procs : \A e \in told[p] \cap work : wake[p] \/ TenantOf[e] \in sweep[p]

\* A heartbeat is never stored over work the sweep was there to do: when it
\* is, all that was committed before the sweep began has been acted on, so
\* /readyz cannot call a reconciler active that fails on a tenant.
HeartbeatMeansSwept ==
  [][\A p \in Procs : sweep[p] = {} /\ sweep'[p] # {} /\ up'[p] => saw[p] \cap work = {}]_vars
=============================================================================
