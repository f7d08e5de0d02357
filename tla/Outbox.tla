------------------------------- MODULE Outbox -------------------------------
(***************************************************************************)
(* The transactional outbox and its dispatchers.  A transaction commits a   *)
(* change together with an outbox row; every control plane runs a           *)
(* dispatcher (internal/outbox/dispatcher.go) that claims due rows, commits *)
(* the claim, publishes each row to JetStream as a wake-up hint and marks   *)
(* it published.  A claim is nothing but a next_at thirty seconds away: it  *)
(* lapses by itself, also under a dispatcher that is still at work.  The    *)
(* broker and the marking transaction may fail, a process may crash between *)
(* any two steps, and the broker manager takes the publisher away while the *)
(* broker does not answer (broker_manager.go).                              *)
(***************************************************************************)
EXTENDS Naturals, FiniteSets

CONSTANTS
  Procs,      \* control-plane processes
  Events,     \* outbox events
  Malformed,  \* events BuildSanitizedHint refuses
  BatchSize,  \* DispatcherConfig.BatchSize
  MaxFaults,  \* bound: crashes and broker outages of one behaviour
  None        \* no event

ASSUME OutboxAssumption ==
  Malformed \subseteq Events /\ BatchSize \in Nat \ {0} /\ MaxFaults \in Nat /\ None \notin Events

VARIABLES
  row,       \* outbox_events: none, pending, published (published_at) or dead (dead_lettered_at)
  due,       \* next_at <= clock_timestamp()
  accepted,  \* history: events the broker has stored at least once
  up,        \* the process runs
  slot,      \* its JetStreamPublisherSlot holds a client
  batch,     \* records claimed by this DispatchBatch call and not handled yet
  ack,       \* the record whose publish ACK arrived and which is not marked yet
  broker,    \* the NATS server answers
  faults     \* crashes and outages so far

vars == <<row, due, accepted, up, slot, batch, ack, broker, faults>>

TypeOK ==
  /\ row \in [Events -> {"none", "pending", "published", "dead"}]
  /\ due \in [Events -> BOOLEAN]
  /\ accepted \subseteq Events
  /\ up \in [Procs -> BOOLEAN] /\ slot \in [Procs -> BOOLEAN]
  /\ batch \in [Procs -> SUBSET Events]
  /\ ack \in [Procs -> Events \cup {None}]
  /\ broker \in BOOLEAN /\ faults \in 0..MaxFaults

Init ==
  /\ row = [e \in Events |-> "none"] /\ due = [e \in Events |-> FALSE]
  /\ accepted = {}
  /\ up = [p \in Procs |-> TRUE] /\ slot = [p \in Procs |-> FALSE]
  /\ batch = [p \in Procs |-> {}] /\ ack = [p \in Procs |-> None]
  /\ broker = TRUE /\ faults = 0

-----------------------------------------------------------------------------
(* The table: the UPDATEs of migration 00014, each guarded by the columns   *)
(* of the row it finds.                                                     *)

\* A transaction of the run store commits a change with its outbox row.
Commit(e) ==
  /\ row[e] = "none"
  /\ row' = [row EXCEPT ![e] = "pending"]
  /\ due' = [due EXCEPT ![e] = TRUE]
  /\ UNCHANGED <<accepted, up, slot, batch, ack, broker, faults>>

(* A mutant: a row the broker has seen is not taken up again. *)
NextAtPasses_unsentOnly(e) ==
  /\ row[e] = "pending" /\ ~due[e] /\ e \notin accepted
  /\ due' = [due EXCEPT ![e] = TRUE]
  /\ UNCHANGED <<row, accepted, up, slot, batch, ack, broker, faults>>

\* next_at is reached: a back-off is over or a claim has lapsed.
NextAtPasses(e) ==
  /\ row[e] = "pending" /\ ~due[e]
  /\ due' = [due EXCEPT ![e] = TRUE]
  /\ UNCHANGED <<row, accepted, up, slot, batch, ack, broker, faults>>

Claimable == {e \in Events : row[e] = "pending" /\ due[e]}

MarkPublished(e) == [row EXCEPT ![e] = IF @ = "pending" THEN "published" ELSE @]

DeadLetter(e) == [row EXCEPT ![e] = IF @ = "published" THEN @ ELSE "dead"]

RetryLater(e) == [due EXCEPT ![e] = IF row[e] = "pending" THEN FALSE ELSE @]

-----------------------------------------------------------------------------
(* DispatchBatch. *)

\* claim_outbox_batch and its commit, before the broker is contacted.
ClaimBatch(p) ==
  /\ up[p] /\ batch[p] = {} /\ ack[p] = None
  /\ \E b \in SUBSET Claimable :
       /\ b # {} /\ Cardinality(b) <= BatchSize
       /\ Cardinality(b) < BatchSize => b = Claimable
       /\ batch' = [batch EXCEPT ![p] = b]
       /\ due' = [e \in Events |-> due[e] /\ e \notin b]
  /\ UNCHANGED <<row, accepted, up, slot, ack, broker, faults>>

\* The next record of the loop, any one: UPDATE ... RETURNING keeps no order.
Take(p, e) ==
  /\ up[p] /\ ack[p] = None /\ e \in batch[p]
  /\ batch' = [batch EXCEPT ![p] = @ \ {e}]

\* handleValidationFailure; its own UPDATE may fail and is then forgotten.
Invalid(p, e) ==
  /\ Take(p, e) /\ e \in Malformed
  /\ row' \in {row, DeadLetter(e)}
  /\ UNCHANGED <<due, accepted, up, slot, ack, broker, faults>>

\* PublishMsg returns an ACK; a duplicate of an accepted event is ACKed too.
PublishAcked(p, e) ==
  /\ Take(p, e) /\ e \notin Malformed
  /\ slot[p] /\ broker
  /\ accepted' = accepted \cup {e}
  /\ ack' = [ack EXCEPT ![p] = e]
  /\ UNCHANGED <<row, due, up, slot, broker, faults>>

(* A mutant: the publish error is logged and the row marked all the same. *)
PublishFailed_marked(p, e) ==
  /\ Take(p, e) /\ e \notin Malformed
  /\ ack' = [ack EXCEPT ![p] = e]
  /\ UNCHANGED <<row, due, accepted, up, slot, broker, faults>>

\* PublishMsg fails: no client, no connection or no answer, and then the
\* message may be stored all the same.  handlePublishFailure gives the row
\* its next attempt, unless that UPDATE fails as well.
PublishFailed(p, e) ==
  /\ Take(p, e) /\ e \notin Malformed
  /\ accepted' \in {accepted} \cup (IF slot[p] THEN {accepted \cup {e}} ELSE {})
  /\ due' \in {due, RetryLater(e)}
  /\ UNCHANGED <<row, up, slot, ack, broker, faults>>

\* mark_outbox_published.
Mark(p) ==
  /\ up[p] /\ ack[p] # None
  /\ row' = MarkPublished(ack[p])
  /\ ack' = [ack EXCEPT ![p] = None]
  /\ UNCHANGED <<due, accepted, up, slot, batch, broker, faults>>

\* The mark fails: DispatchBatch returns and abandons the rest of its batch.
MarkFails(p) ==
  /\ up[p] /\ ack[p] # None
  /\ ack' = [ack EXCEPT ![p] = None]
  /\ batch' = [batch EXCEPT ![p] = {}]
  /\ UNCHANGED <<row, due, accepted, up, slot, broker, faults>>

-----------------------------------------------------------------------------
(* The broker manager, the broker and the processes. *)

\* BrokerManager.connect: stream, consumer and publisher, or none of them.
Connect(p) ==
  /\ up[p] /\ ~slot[p] /\ broker
  /\ slot' = [slot EXCEPT ![p] = TRUE]
  /\ UNCHANGED <<row, due, accepted, up, batch, ack, broker, faults>>

\* BrokerManager.Run finds the connection gone and takes the client away.
Disconnect(p) ==
  /\ up[p] /\ slot[p] /\ ~broker
  /\ slot' = [slot EXCEPT ![p] = FALSE]
  /\ UNCHANGED <<row, due, accepted, up, batch, ack, broker, faults>>

Fault == faults < MaxFaults /\ faults' = faults + 1

BrokerStops ==
  /\ Fault /\ broker /\ broker' = FALSE
  /\ UNCHANGED <<row, due, accepted, up, slot, batch, ack>>

BrokerStarts ==
  /\ ~broker /\ broker' = TRUE
  /\ UNCHANGED <<row, due, accepted, up, slot, batch, ack, faults>>

Crash(p) ==
  /\ Fault /\ up[p]
  /\ up' = [up EXCEPT ![p] = FALSE] /\ slot' = [slot EXCEPT ![p] = FALSE]
  /\ batch' = [batch EXCEPT ![p] = {}] /\ ack' = [ack EXCEPT ![p] = None]
  /\ UNCHANGED <<row, due, accepted, broker>>

Restart(p) ==
  /\ ~up[p]
  /\ up' = [up EXCEPT ![p] = TRUE]
  /\ UNCHANGED <<row, due, accepted, slot, batch, ack, broker, faults>>

Table == \E e \in Events : Commit(e) \/ NextAtPasses(e)

Dispatch(p) ==
  \/ ClaimBatch(p) \/ Mark(p) \/ MarkFails(p)
  \/ \E e \in Events : Invalid(p, e) \/ PublishAcked(p, e) \/ PublishFailed(p, e)

Surroundings(p) == Connect(p) \/ Disconnect(p) \/ Crash(p) \/ Restart(p)

Next ==
  \/ Table \/ BrokerStops \/ BrokerStarts
  \/ \E p \in Procs : Dispatch(p) \/ Surroundings(p)

Spec == Init /\ [][Next]_vars

(***************************************************************************)
(* Dispatcher.Run and BrokerManager.Run repeat on tickers and a crashed     *)
(* process is restarted by its supervisor (weak fairness); MaxFaults bounds *)
(* crashes and outages.  What fails may fail again and again, but not for   *)
(* ever: of infinitely many publishes, marks and dead-letter updates some   *)
(* succeed (strong fairness).                                               *)
(***************************************************************************)
Fairness ==
  /\ WF_vars(BrokerStarts)
  /\ \A e \in Events : WF_vars(NextAtPasses(e))
  /\ \A p \in Procs :
       /\ WF_vars(Restart(p)) /\ WF_vars(Connect(p))
       /\ WF_vars(ClaimBatch(p)) /\ SF_vars(Mark(p))
       /\ \A e \in Events \ Malformed : SF_vars(PublishAcked(p, e))
       /\ \A e \in Malformed : SF_vars(Invalid(p, e) /\ row' = DeadLetter(e))

FairSpec == Spec /\ Fairness

-----------------------------------------------------------------------------
Stage(e) ==
  CASE row[e] = "none" -> "new"
    [] row[e] = "published" -> "settled"
    [] row[e] = "dead" -> "refused"
    [] row[e] = "pending" /\ e \in accepted -> "sent"
    [] row[e] = "pending" /\ e \notin accepted -> "owed"

stages == [e \in Events |-> Stage(e)]

Delivery == INSTANCE AtLeastOnce WITH stage <- stages

\* The outbox implements at-least-once delivery: whatever crashes between
\* claim, publish and mark (dispatcher.go:261, :306), and whoever claims the
\* row meanwhile, a row is marked published only after the broker accepted
\* it, stays so, and only a malformed row is dead-lettered.
DeliversAtLeastOnce == Delivery!Spec

\* Every committed event is published or dead-lettered in the end, however
\* long the broker is away and whatever the batch it was claimed in came to:
\* handlePublishFailure knows no last attempt, and an abandoned claim lapses.
EveryEventSettles ==
  \A e \in Events : row[e] = "pending" ~> row[e] \in {"published", "dead"}
=============================================================================
