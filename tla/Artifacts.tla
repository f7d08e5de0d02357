------------------------------ MODULE Artifacts ------------------------------
(***************************************************************************)
(* Artifacts (internal/artifacts): the results too large for a step output. *)
(* A worker that owns an attempt reserves a row against the environment's   *)
(* quota, puts the bytes to the object store through a presigned URL, has   *)
(* the row finalized and completes the step with a reference to it; the     *)
(* step that consumes the reference has the bytes verified when it is       *)
(* claimed; sweeps collect what nothing refers to.  Rows change in          *)
(* transactions and objects do not, so each operation is cut where the code *)
(* leaves a transaction to talk to the store.  A row and the attempt that   *)
(* reserved it share one identifier; the store is external.                 *)
(***************************************************************************)
EXTENDS Integers, FiniteSets, FiniteSetsExt

CONSTANTS
  N,               \* artifacts, in the order of their identifiers
  Sweepers,        \* control planes that run CollectGarbage
  Sizes,           \* reservation sizes
  Quota,           \* EnvStorageQuotaBytes
  PutTTL,          \* PresignPutTTL
  AttemptTimeout,  \* MaxAttemptTimeoutMs
  Grace,           \* OrphanGracePeriod
  Batch,           \* batchSize
  Horizon,         \* bound: the last instant
  MaxDamage,       \* bound: objects the store loses or spoils
  MaxFaults,       \* bound: store errors and interrupted sweeps
  None

Arts == 1..N

\* 5 minutes, an hour and a day: what the code's constants guarantee.
ASSUME ArtifactsAssumption ==
  /\ N \in Nat /\ Batch \in Nat \ {0} /\ Horizon \in Nat /\ Quota \in Nat
  /\ Sizes \subseteq Nat /\ None \notin Arts
  /\ MaxDamage \in Nat /\ MaxFaults \in Nat
  /\ PutTTL \in Nat /\ AttemptTimeout \in Nat /\ Grace \in Nat
  /\ PutTTL <= Grace /\ AttemptTimeout <= Grace

VARIABLES
  now,         \* clock_timestamp(), and the time.Now of the sweeps
  size,        \* artifacts.size_bytes, the length of the result
  attempt,     \* the producing attempt: waiting, live, succeeded or ended
  begin,       \* when it was claimed
  reserving,   \* reservations that found room and have not committed
  status,      \* artifacts.status, none before the reservation
  created,     \* artifacts.created_at
  sealed,      \* artifacts.expires_at is set
  object,      \* the stored bytes: none, whole or spoiled
  finalizing,  \* the request that finalizes: no, snapshot or verified
  output,      \* the step's output refers to the artifact
  consumer,    \* the step that consumes it: idle, verified, refused, started, failed
  damaged,     \* artifacts whose bytes the store has lost or spoiled
  late,        \* those damaged after a consumer verified them
  sweep,       \* each sweep: its step, its clock, candidates, victims, victim
  collected,   \* how often each artifact was counted as collected
  damages,     \* objects the store may still lose or spoil
  faults       \* store errors and interruptions that may still come

rows == <<status, created, sealed>>
vars == <<now, size, attempt, begin, reserving, rows, object, finalizing,
          output, consumer, damaged, late, sweep, collected, damages, faults>>

Statuses == {"none", "PENDING_UPLOAD", "READY", "DELETING", "DELETED", "EXPIRED"}

\* A control plane that is not running has a sweep that is down.
At(p) == [pc |-> p, limit |-> 0, cand |-> {}, todo |-> {}, victim |-> None]

Idle == At("idle")

Sweep == [pc : {"down", "idle", "select", "work", "erase", "mark", "seal"}, limit : 0..Horizon,
          cand : SUBSET Arts, todo : SUBSET Arts, victim : Arts \cup {None}]

TypeOK ==
  /\ now \in 0..Horizon /\ size \in [Arts -> Sizes]
  /\ attempt \in [Arts -> {"waiting", "live", "succeeded", "ended"}]
  /\ begin \in [Arts -> 0..Horizon] /\ created \in [Arts -> 0..Horizon]
  /\ reserving \subseteq Arts
  /\ status \in [Arts -> Statuses] /\ sealed \in [Arts -> BOOLEAN]
  /\ object \in [Arts -> {"none", "whole", "spoiled"}]
  /\ finalizing \in [Arts -> {"no", "snapshot", "verified"}]
  /\ output \in [Arts -> BOOLEAN]
  /\ consumer \in [Arts -> {"idle", "verified", "refused", "started", "failed"}]
  /\ damaged \subseteq Arts /\ late \subseteq damaged
  /\ sweep \in [Sweepers -> Sweep] /\ collected \in [Arts -> Nat] 
  /\ damages \in 0..MaxDamage /\ faults \in 0..MaxFaults

Init ==
  /\ now \in 0..Horizon /\ size \in [Arts -> Sizes]
  /\ attempt \in [Arts -> {"waiting", "ended"}] /\ begin = [a \in Arts |-> 0]
  /\ reserving = {}
  /\ status = [a \in Arts |-> "none"] /\ created = [a \in Arts |-> 0]
  /\ sealed = [a \in Arts |-> FALSE] /\ object = [a \in Arts |-> "none"]
  /\ finalizing = [a \in Arts |-> "no"] /\ output = [a \in Arts |-> FALSE]
  /\ consumer = [a \in Arts |-> "idle"] /\ damaged = {} /\ late = {}
  /\ sweep \in [Sweepers -> {Idle, At("down")}]
  /\ collected = [a \in Arts |-> 0]
  /\ damages \in 0..MaxDamage /\ faults \in 0..MaxFaults

-----------------------------------------------------------------------------
(* The producing attempt.  Its lease, epoch, session and run deadline are   *)
(* RunEngine's subject; here it is live until it is lost or its deadline    *)
(* passes.                                                                  *)

ClaimAttempt(a) ==
  /\ attempt[a] = "waiting"
  /\ attempt' = [attempt EXCEPT ![a] = "live"] /\ begin' = [begin EXCEPT ![a] = now]
  /\ UNCHANGED <<now, size, reserving, rows, object, finalizing, output, consumer,
                 damaged, late, sweep, collected, damages, faults>>

\* The reservation's transaction holds the attempt's row.
LoseAttempt(a) ==
  /\ attempt[a] = "live" /\ a \notin reserving
  /\ attempt' = [attempt EXCEPT ![a] = "ended"]
  /\ UNCHANGED <<now, size, begin, reserving, rows, object, finalizing, output,
                 consumer, damaged, late, sweep, collected, damages, faults>>

(* A mutant: an attempt past its deadline still owns its artifacts. *)
Owns_pastDeadline(a) == attempt[a] = "live"

\* The ownership query of ReserveTx, Finalize and transitionToReadyTx.
Owns(a) == attempt[a] = "live" /\ now < begin[a] + AttemptTimeout

-----------------------------------------------------------------------------
(* Reserve, upload, finalize, complete *)

Charged == {a \in Arts : status[a] \in {"PENDING_UPLOAD", "READY"}}

(* A mutant: the admission row is not locked. *)
ReserveBegin_unlocked(a) ==
  LET sum == MapThenSumSet(LAMBDA b : size[b], Charged) IN
  /\ Owns(a) /\ status[a] = "none" /\ a \notin reserving /\ sum + size[a] <= Quota
  /\ reserving' = reserving \cup {a}
  /\ UNCHANGED <<now, size, attempt, begin, rows, object, finalizing, output, consumer,
                 damaged, late, sweep, collected, damages, faults>>

\* ReserveTx up to its checks: the admission row is locked first, then the
\* attempt's; the quota counts pending and ready rows.
ReserveBegin(a) ==
  LET sum == MapThenSumSet(LAMBDA b : size[b], Charged) IN
  /\ Owns(a) /\ status[a] = "none" /\ reserving = {}
  /\ sum + size[a] <= Quota
  /\ reserving' = reserving \cup {a}
  /\ UNCHANGED <<now, size, attempt, begin, rows, object, finalizing, output, consumer,
                 damaged, late, sweep, collected, damages, faults>>

\* Its INSERT and commit.
ReserveInsert(a) ==
  /\ a \in reserving /\ reserving' = reserving \ {a}
  /\ status' = [status EXCEPT ![a] = "PENDING_UPLOAD"]
  /\ created' = [created EXCEPT ![a] = now]
  /\ UNCHANGED <<now, size, attempt, begin, sealed, object, finalizing, output, consumer,
                 damaged, late, sweep, collected, damages, faults>>

\* The transaction is rolled back; the URL was never handed out.
ReserveFails(a) ==
  /\ a \in reserving /\ reserving' = reserving \ {a}
  /\ UNCHANGED <<now, size, attempt, begin, rows, object, finalizing, output, consumer,
                 damaged, late, sweep, collected, damages, faults>>

\* publishArtifactViaControlPlane puts the bytes whose digest it reserved,
\* perhaps twice, perhaps after its attempt is gone, while the URL is valid.
Upload(a) ==
  /\ status[a] # "none" /\ now < created[a] + PutTTL
  /\ object' = [object EXCEPT ![a] = "whole"]
  /\ UNCHANGED <<now, size, attempt, begin, reserving, rows, finalizing, output,
                 consumer, damaged, late, sweep, collected, damages, faults>>

SnapshotForFinalize(a) ==
  /\ finalizing[a] = "no" /\ Owns(a) /\ status[a] = "PENDING_UPLOAD"
  /\ finalizing' = [finalizing EXCEPT ![a] = "snapshot"]
  /\ UNCHANGED <<now, size, attempt, begin, reserving, rows, object, output,
                 consumer, damaged, late, sweep, collected, damages, faults>>

(* A mutant: the object is not looked at. *)
VerifySnapshot_unchecked(a) ==
  /\ finalizing[a] = "snapshot"
  /\ finalizing' = [finalizing EXCEPT ![a] = "verified"]
  /\ UNCHANGED <<now, size, attempt, begin, reserving, rows, object, output,
                 consumer, damaged, late, sweep, collected, damages, faults>>

\* Stat, Fetch and the digest, with no transaction open; a mismatch or a store
\* error ends the request and leaves the row pending.
VerifySnapshot(a) ==
  /\ finalizing[a] = "snapshot"
  /\ finalizing' = [finalizing EXCEPT ![a] = IF object[a] = "whole" THEN "verified" ELSE "no"]
  /\ UNCHANGED <<now, size, attempt, begin, reserving, rows, object, output,
                 consumer, damaged, late, sweep, collected, damages, faults>>

\* transitionToReadyTx asks everything again.
TransitionToReady(a) ==
  /\ finalizing[a] = "verified"
  /\ finalizing' = [finalizing EXCEPT ![a] = "no"]
  /\ status' = IF Owns(a) /\ status[a] = "PENDING_UPLOAD"
                 THEN [status EXCEPT ![a] = "READY"] ELSE status
  /\ UNCHANGED <<now, size, attempt, begin, reserving, created, sealed, object,
                 output, consumer, damaged, late, sweep, collected, damages, faults>>

\* The completion's transaction: LookupForCompletionTx, then the step's output.
\* A row that is not ready fails the step.
Complete(a) ==
  /\ Owns(a) /\ status[a] # "none" /\ finalizing[a] = "no"
  /\ IF status[a] = "READY"
       THEN /\ attempt' = [attempt EXCEPT ![a] = "succeeded"]
            /\ output' = [output EXCEPT ![a] = TRUE]
       ELSE attempt' = [attempt EXCEPT ![a] = "ended"] /\ UNCHANGED output
  /\ UNCHANGED <<now, size, begin, reserving, rows, object, finalizing, consumer,
                 damaged, late, sweep, collected, damages, faults>>

-----------------------------------------------------------------------------
(* The consumer: verified between the two transactions of Claim *)

VerifyReferences(a) ==
  /\ output[a] /\ consumer[a] = "idle"
  /\ consumer' = [consumer EXCEPT ![a] = IF status[a] = "READY" /\ object[a] = "whole"
                                           THEN "verified" ELSE "refused"]
  /\ UNCHANGED <<now, size, attempt, begin, reserving, rows, object, finalizing,
                 output, damaged, late, sweep, collected, damages, faults>>

\* The second transaction claims the step or fails it for want of its artifact;
\* the step may also be gone, paused or out of slots, and waits for a later poll.
ClaimConsumer(a) ==
  /\ consumer[a] \in {"verified", "refused"}
  /\ \/ consumer' = [consumer EXCEPT ![a] = IF @ = "verified" /\ status[a] = "READY"
                                              THEN "started" ELSE "failed"]
     \/ consumer' = [consumer EXCEPT ![a] = "idle"]
  /\ UNCHANGED <<now, size, attempt, begin, reserving, rows, object, finalizing,
                 output, damaged, late, sweep, collected, damages, faults>>

-----------------------------------------------------------------------------
(* CollectGarbage *)

\* ORDER BY created_at, id LIMIT n
First(S, n) ==
  {a \in S : Cardinality({b \in S : created[b] < created[a]
                                    \/ (created[b] = created[a] /\ b < a)}) < n}

(* A mutant: there is no grace period. *)
Old_atOnce(a, at) == created[a] < at

Old(a, at) == created[a] + Grace < at

\* Rows that another sweep's open transaction holds are skipped.
Locked == UNION {sweep[w].todo : w \in {v \in Sweepers : sweep[v].pc = "select"}}

(* A mutant: cleanups that were interrupted are not taken up again. *)
Resumed_deletingOnly == First({a \in Arts \ Locked : status[a] = "DELETING"}, Batch)

\* What an earlier sweep left: DELETING rows, then EXPIRED ones not sealed.
Resumed ==
  LET deleting == First({a \in Arts \ Locked : status[a] = "DELETING"}, Batch)
  IN deleting \cup First({a \in Arts \ Locked : status[a] = "EXPIRED" /\ ~sealed[a]},
                         Batch - Cardinality(deleting))

Orphans(at) ==
  {a \in Arts : /\ Old(a, at)
                /\ \/ status[a] = "PENDING_UPLOAD"
                   \/ status[a] = "READY" /\ ~output[a]}

\* The queries of the first transaction.  The last one reads references from
\* its snapshot and locks the rows afterwards, in SweepFlip.
SweepBegin(w) ==
  /\ sweep[w].pc = "idle"
  /\ Resumed \cup Orphans(now) # {}
  /\ sweep' = [sweep EXCEPT ![w] = [pc |-> "select", limit |-> now, cand |-> Orphans(now),
                                    todo |-> Resumed, victim |-> None]]
  /\ UNCHANGED <<now, size, attempt, begin, reserving, rows, object, finalizing,
                 output, consumer, damaged, late, collected, damages, faults>>

\* A row that has changed is judged again by its new version, but not its
\* references.
Chosen(w) ==
  First({a \in sweep[w].cand : Old(a, sweep[w].limit)
                               /\ status[a] \in {"PENDING_UPLOAD", "READY"}},
        Batch - Cardinality(sweep[w].todo))

SweepFlip(w) ==
  /\ sweep[w].pc = "select"
  /\ status' = [a \in Arts |-> IF a \notin Chosen(w) THEN status[a]
                               ELSE IF status[a] = "READY" THEN "DELETING" ELSE "EXPIRED"]
  /\ sweep' = [sweep EXCEPT ![w].pc = "work", ![w].cand = {}, ![w].todo = @ \cup Chosen(w)]
  /\ UNCHANGED <<now, size, attempt, begin, reserving, created, sealed, object,
                 finalizing, output, consumer, damaged, late, collected, damages, faults>>

\* A victim is remembered as DELETING or EXPIRED; DELETED was DELETING.
Expiring(a) == status[a] = "EXPIRED"

\* For DELETING, Delete; for EXPIRED, Stat first.
SweepVictim(w, a) ==
  /\ sweep[w].pc = "work" /\ a \in sweep[w].todo
  /\ sweep' = [sweep EXCEPT ![w].victim = a,
                 ![w].pc = IF Expiring(a) /\ object[a] = "none" THEN "seal" ELSE "erase"]
  /\ UNCHANGED <<now, size, attempt, begin, reserving, rows, object, finalizing,
                 output, consumer, damaged, late, collected, damages, faults>>

SweepErase(w) ==
  /\ sweep[w].pc = "erase"
  /\ object' = [object EXCEPT ![sweep[w].victim] = "none"]
  /\ sweep' = [sweep EXCEPT ![w].pc = "mark"]
  /\ UNCHANGED <<now, size, attempt, begin, reserving, rows, finalizing, output,
                 consumer, damaged, late, collected, damages, faults>>

\* The second transaction: DELETING becomes DELETED, EXPIRED is sealed; whoever
\* made the change counts it, unless the object was already absent.
SweepMark(w) ==
  LET a == sweep[w].victim
      mine == status[a] = "DELETING" \/ (Expiring(a) /\ ~sealed[a]) IN
  /\ sweep[w].pc \in {"mark", "seal"}
  /\ status' = [status EXCEPT ![a] = IF @ = "DELETING" THEN "DELETED" ELSE @]
  /\ sealed' = [sealed EXCEPT ![a] = @ \/ Expiring(a)]
  /\ collected' = IF sweep[w].pc = "mark" /\ mine
                    THEN [collected EXCEPT ![a] = @ + 1] ELSE collected
  /\ sweep' = [sweep EXCEPT ![w].pc = "work", ![w].todo = @ \ {a}, ![w].victim = None]
  /\ UNCHANGED <<now, size, attempt, begin, reserving, created, object, finalizing,
                 output, consumer, damaged, late, damages, faults>>

\* Stat or Delete fails: the victim is left for a later sweep.
StoreFails(w) ==
  /\ sweep[w].pc \in {"erase", "seal"} /\ faults > 0
  /\ faults' = faults - 1
  /\ sweep' = [sweep EXCEPT ![w].pc = "work", ![w].todo = @ \ {sweep[w].victim},
                            ![w].victim = None]
  /\ UNCHANGED <<now, size, attempt, begin, reserving, rows, object, finalizing,
                 output, consumer, damaged, late, collected, damages>>

SweepEnds(w) ==
  /\ sweep[w].pc = "work" /\ sweep[w].todo = {}
  /\ sweep' = [sweep EXCEPT ![w] = Idle]
  /\ UNCHANGED <<now, size, attempt, begin, reserving, rows, object, finalizing,
                 output, consumer, damaged, late, collected, damages, faults>>

\* The process dies or the database refuses: the sweep ends where it is.
SweepFails(w) ==
  /\ sweep[w].pc \notin {"idle", "down"} /\ faults > 0
  /\ faults' = faults - 1
  /\ sweep' = [sweep EXCEPT ![w] = Idle]
  /\ UNCHANGED <<now, size, attempt, begin, reserving, rows, object, finalizing,
                 output, consumer, damaged, late, collected, damages>>

-----------------------------------------------------------------------------
\* The store loses or spoils an object.
Damage(a, c) ==
  /\ object[a] = "whole" /\ damages > 0 /\ damages' = damages - 1
  /\ object' = [object EXCEPT ![a] = c]
  /\ damaged' = damaged \cup {a}
  /\ late' = IF consumer[a] \in {"verified", "started"} THEN late \cup {a} ELSE late
  /\ UNCHANGED <<now, size, attempt, begin, reserving, rows, finalizing, output,
                 consumer, sweep, collected, faults>>

Tick ==
  /\ now < Horizon /\ now' = now + 1
  /\ UNCHANGED <<size, attempt, begin, reserving, rows, object, finalizing, output,
                 consumer, damaged, late, sweep, collected, damages, faults>>

\* The two requests of the API.  A repeated one replays its recorded outcome
\* (Tenancy) and changes nothing.
Create(a) == ReserveBegin(a) \/ ReserveInsert(a) \/ ReserveFails(a)

Finalize(a) == SnapshotForFinalize(a) \/ VerifySnapshot(a) \/ TransitionToReady(a)

Work(w) ==
  \/ SweepBegin(w) \/ SweepFlip(w) \/ SweepErase(w) \/ SweepMark(w) \/ SweepEnds(w)
  \/ \E a \in Arts : SweepVictim(w, a)

Next ==
  \/ \E a \in Arts :
       \/ ClaimAttempt(a) \/ LoseAttempt(a) \/ Create(a) \/ Upload(a) \/ Finalize(a)
       \/ Complete(a) \/ VerifyReferences(a) \/ ClaimConsumer(a)
       \/ \E c \in {"none", "spoiled"} : Damage(a, c)
  \/ \E w \in Sweepers : Work(w) \/ StoreFails(w) \/ SweepFails(w)
  \/ Tick

Spec == Init /\ [][Next]_vars

\* Every control plane keeps sweeping: the reconciler calls CollectGarbage on
\* each slow sweep, whatever the last one met.
Fairness == \A w \in Sweepers : WF_vars(Work(w))

FairSpec == Spec /\ Fairness

-----------------------------------------------------------------------------
(* Properties *)

\* What a step's output refers to is kept: its row is READY for ever.  A sweep
\* reads the references before it locks the row, so this rests on no attempt
\* living as long as the grace period (CollectGarbage, LookupForCompletionTx).
ReferencedIsKept == \A a \in Arts : output[a] => status[a] = "READY"

\* A READY row has the bytes it was reserved for, unless the store lost them:
\* between the verification and the transition nothing removes or replaces
\* them (Finalize), and afterwards no sweep does.  A consumer that starts has
\* them even so, unless they were lost after the verification of its claim.
ReadyIsWhole ==
  \A a \in Arts :
    /\ status[a] = "READY" => object[a] = "whole" \/ a \in damaged
    /\ consumer[a] = "started" /\ a \notin late => object[a] = "whole"

\* A row that is done leaves no bytes behind, not even through an upload that
\* comes late (DELETED, and EXPIRED with expires_at), and whatever sweeps
\* overlap, crash and resume, it is counted at most once, when it is done.
CollectedOnce ==
  \A a \in Arts :
    /\ status[a] = "DELETED" \/ sealed[a] => object[a] = "none"
    /\ collected[a] <= 1 /\ (collected[a] = 1 => status[a] = "DELETED" \/ sealed[a])

\* Reservations that race stay within the environment's quota.
WithinQuota == MapThenSumSet(LAMBDA b : size[b], Charged) <= Quota

\* What nothing refers to is collected in the end: interrupted cleanups are
\* taken up again, and no row is passed over for ever.
OrphansAreCollected ==
  \A a \in Arts : (status[a] \in {"DELETING", "EXPIRED"} \/ a \in Orphans(now))
                    ~> (status[a] = "DELETED" \/ sealed[a])
=============================================================================
