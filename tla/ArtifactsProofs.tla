--------------------------- MODULE ArtifactsProofs ---------------------------
(***************************************************************************)
(* What the rows and the object store promise each other, for any number of *)
(* artifacts, sweeps and faults, and for any periods in the order of the    *)
(* code's: an attempt and an upload URL end before the grace period does.   *)
(***************************************************************************)
EXTENDS Artifacts, TLAPS

Dying == {"DELETING", "DELETED", "EXPIRED"}

\* A row is as old as its attempt at most, is given up only after the grace
\* period, and a reservation in progress has no row yet.
Aged ==
  \A a \in Arts :
    /\ begin[a] <= now
    /\ status[a] # "none" => /\ attempt[a] # "waiting"
                             /\ begin[a] <= created[a] /\ created[a] <= now
    /\ status[a] \in Dying => created[a] + Grace < now
    /\ a \in reserving => attempt[a] = "live" /\ status[a] = "none"
    /\ sealed[a] => status[a] = "EXPIRED"

\* What is referred to was handed over by its attempt.
Referenced == \A a \in Arts : output[a] => attempt[a] = "succeeded" /\ status[a] = "READY"

\* What was verified is whole, unless the store damaged it since.
Verified ==
  \A a \in Arts :
    /\ finalizing[a] = "verified" /\ status[a] = "PENDING_UPLOAD"
         => object[a] = "whole" \/ a \in damaged
    /\ status[a] = "READY" => object[a] = "whole" \/ a \in damaged
    /\ status[a] = "none" => finalizing[a] = "no"
    /\ consumer[a] \in {"verified", "started"}
         => output[a] /\ (a \notin late => object[a] = "whole")

\* What a sweep has in hand: candidates older than any attempt, which nothing
\* refers to; victims that were given up; and none of their bytes once erased.
Swept ==
  \A w \in Sweepers :
    /\ sweep[w].pc = "select" =>
         /\ sweep[w].limit <= now
         /\ \A a \in sweep[w].cand :
              created[a] + Grace < sweep[w].limit /\ status[a] # "none" /\ ~output[a]
    /\ \A a \in sweep[w].todo : status[a] \in Dying
    /\ sweep[w].pc \in {"erase", "mark", "seal"} =>
         sweep[w].victim \in Arts /\ status[sweep[w].victim] \in Dying
    /\ sweep[w].pc \in {"mark", "seal"} => object[sweep[w].victim] = "none"

Inv == TypeOK /\ Aged /\ Referenced /\ Verified /\ Swept /\ CollectedOnce

-----------------------------------------------------------------------------
\* The little arithmetic that counting collections takes.
LEMMA Counting ==
  /\ \A n \in Nat : n + 1 \in Nat
  /\ \A n \in Nat : n <= 1 /\ n # 1 => n = 0
OBVIOUS

\* The states the model starts from satisfy the invariant.
LEMMA InitInv == Init => Inv
<1> SUFFICES ASSUME Init PROVE Inv
  OBVIOUS
<1> USE ArtifactsAssumption DEF Init
<1>1. TypeOK
  <2>1. \A w \in Sweepers : sweep[w] \in Sweep
    BY DEF Sweep, Idle, At
  <2> QED
    BY <2>1 DEF TypeOK, Statuses
<1>2. Aged /\ Referenced /\ Verified /\ CollectedOnce
  BY DEF Aged, Referenced, Verified, CollectedOnce, Dying
<1>3. Swept
  BY DEF Swept, Idle, At
<1> QED
  BY <1>1, <1>2, <1>3 DEF Inv

\* The queries of a sweep choose among the artifacts.
LEMMA SelectionTyped ==
  /\ Resumed \in SUBSET Arts /\ \A a \in Resumed : status[a] \in Dying
  /\ Orphans(now) \in SUBSET Arts
  /\ \A w \in Sweepers : \A a \in Chosen(w) :
       /\ a \in sweep[w].cand /\ status[a] \in {"PENDING_UPLOAD", "READY"}
       /\ Old(a, sweep[w].limit)
<1>1. ASSUME NEW S, NEW n PROVE First(S, n) \subseteq S
  BY DEF First
<1>2. \A a \in Resumed : a \in Arts /\ status[a] \in Dying
  <2> DEFINE D == {a \in Arts \ Locked : status[a] = "DELETING"}
             X == {a \in Arts \ Locked : status[a] = "EXPIRED" /\ ~sealed[a]}
             n == Batch - Cardinality(First(D, Batch))
  <2>1. Resumed = First(D, Batch) \cup First(X, n)
    BY DEF Resumed
  <2> HIDE DEF n
  <2>2. First(D, Batch) \subseteq D /\ First(X, n) \subseteq X
    BY <1>1
  <2> QED
    BY <2>1, <2>2 DEF Dying
<1>3. ASSUME NEW w \in Sweepers
      PROVE  \A a \in Chosen(w) : /\ a \in sweep[w].cand
                                  /\ status[a] \in {"PENDING_UPLOAD", "READY"}
                                  /\ Old(a, sweep[w].limit)
  <2> DEFINE S == {a \in sweep[w].cand : Old(a, sweep[w].limit)
                                         /\ status[a] \in {"PENDING_UPLOAD", "READY"}}
             n == Batch - Cardinality(sweep[w].todo)
  <2>1. Chosen(w) = First(S, n)
    BY DEF Chosen
  <2> HIDE DEF n
  <2>2. First(S, n) \subseteq S
    BY <1>1
  <2> QED
    BY <2>1, <2>2
<1> QED
  BY <1>2, <1>3 DEF Orphans

-----------------------------------------------------------------------------
\* What each step of a sweep makes of it.
LEMMA SweepTyped ==
  ASSUME TypeOK, NEW w \in Sweepers, Work(w) \/ StoreFails(w) \/ SweepFails(w)
  PROVE  /\ sweep' \in [Sweepers -> Sweep]
         /\ \A v \in Sweepers \ {w} : sweep'[v] = sweep[v]
<1> SUFFICES ASSUME TRUE PROVE \E s \in Sweep : sweep' = [sweep EXCEPT ![w] = s]
  BY DEF TypeOK
<1>0. sweep[w] \in Sweep /\ now \in 0..Horizon /\ Idle \in Sweep
  BY ArtifactsAssumption DEF TypeOK, Idle, At, Sweep
<1>1. CASE SweepBegin(w)
  <2>1. [pc |-> "select", limit |-> now, cand |-> Orphans(now), todo |-> Resumed,
         victim |-> None] \in Sweep
    BY <1>0, SelectionTyped DEF Sweep
  <2> QED
    BY <1>1, <2>1 DEF SweepBegin
<1>2. CASE SweepFlip(w)
  <2>1. Chosen(w) \in SUBSET Arts
    BY <1>0, SelectionTyped DEF Sweep
  <2>2. [sweep[w] EXCEPT !.pc = "work", !.cand = {}, !.todo = sweep[w].todo \cup Chosen(w)] \in Sweep
    BY <1>0, <2>1 DEF Sweep
  <2> QED
    BY <1>2, <2>2 DEF SweepFlip, TypeOK
<1>3. CASE \E a \in Arts : SweepVictim(w, a)
  <2> PICK a \in Arts : SweepVictim(w, a)
    BY <1>3
  <2> PICK p \in {"seal", "erase"} : sweep' = [sweep EXCEPT ![w].victim = a, ![w].pc = p]
    BY DEF SweepVictim
  <2>1. [sweep[w] EXCEPT !.victim = a, !.pc = p] \in Sweep
    BY <1>0 DEF Sweep
  <2> QED
    BY <2>1 DEF TypeOK
<1>4. CASE SweepErase(w)
  <2>1. [sweep[w] EXCEPT !.pc = "mark"] \in Sweep
    BY <1>0 DEF Sweep
  <2> QED
    BY <1>4, <2>1 DEF SweepErase, TypeOK
<1>5. CASE SweepMark(w)
  <2>1. [sweep[w] EXCEPT !.pc = "work", !.todo = sweep[w].todo \ {sweep[w].victim}, !.victim = None] \in Sweep
    BY <1>0 DEF Sweep
  <2> QED
    BY <1>5, <2>1 DEF SweepMark, TypeOK
<1>6. CASE StoreFails(w)
  <2>1. [sweep[w] EXCEPT !.pc = "work", !.todo = sweep[w].todo \ {sweep[w].victim}, !.victim = None] \in Sweep
    BY <1>0 DEF Sweep
  <2> QED
    BY <1>6, <2>1 DEF StoreFails, TypeOK
<1>7. CASE SweepEnds(w) \/ SweepFails(w)
  BY <1>0, <1>7 DEF SweepEnds, SweepFails
<1> QED
  BY <1>1, <1>2, <1>3, <1>4, <1>5, <1>6, <1>7 DEF Work

-----------------------------------------------------------------------------
\* A step that leaves the sweeps alone keeps what they have in hand, if what is
\* given up stays so, what is erased stays so, and nothing old is referred to.
LEMMA SweptKept ==
  ASSUME Inv, UNCHANGED sweep, now' \in Nat, now <= now',
         \A a \in Arts :
           /\ status[a] \in Dying => status'[a] \in Dying
           /\ status[a] # "none" => status'[a] # "none" /\ created'[a] = created[a]
           /\ status[a] \in Dying /\ object[a] = "none" => object'[a] = "none"
           /\ output'[a] /\ status[a] # "none" /\ created[a] + Grace < now => output[a]
  PROVE  Swept'
<1> SUFFICES ASSUME NEW w \in Sweepers
             PROVE  /\ sweep[w].pc = "select" =>
                         /\ sweep[w].limit <= now'
                         /\ \A a \in sweep[w].cand :
                              /\ created'[a] + Grace < sweep[w].limit
                              /\ status'[a] # "none" /\ ~output'[a]
                    /\ \A a \in sweep[w].todo : status'[a] \in Dying
                    /\ sweep[w].pc \in {"erase", "mark", "seal"} =>
                         sweep[w].victim \in Arts /\ status'[sweep[w].victim] \in Dying
                    /\ sweep[w].pc \in {"mark", "seal"} => object'[sweep[w].victim] = "none"
  BY DEF Swept
<1>0. /\ now \in Int /\ Grace \in Int /\ created \in [Arts -> 0..Horizon]
      /\ sweep[w].limit \in Int /\ sweep[w].cand \subseteq Arts /\ sweep[w].todo \subseteq Arts
  BY ArtifactsAssumption DEF Inv, TypeOK, Sweep
<1>1. sweep[w].pc = "select" => sweep[w].limit <= now'
  BY <1>0 DEF Inv, Swept
<1>2. ASSUME sweep[w].pc = "select", NEW a \in sweep[w].cand
      PROVE  created'[a] + Grace < sweep[w].limit /\ status'[a] # "none" /\ ~output'[a]
  <2>1. /\ created[a] + Grace < sweep[w].limit /\ status[a] # "none" /\ ~output[a]
        /\ sweep[w].limit <= now
    BY <1>2 DEF Inv, Swept
  <2>2. created[a] + Grace < now
    BY <1>0, <2>1
  <2> QED
    BY <1>0, <2>1, <2>2
<1>3. \A a \in sweep[w].todo : status'[a] \in Dying
  BY <1>0 DEF Inv, Swept
<1>4. sweep[w].pc \in {"erase", "mark", "seal"} =>
        sweep[w].victim \in Arts /\ status'[sweep[w].victim] \in Dying
  BY DEF Inv, Swept
<1>5. sweep[w].pc \in {"mark", "seal"} => object'[sweep[w].victim] = "none"
  BY DEF Inv, Swept
<1> QED
  BY <1>1, <1>2, <1>3, <1>4, <1>5

\* What the invariant says of one artifact.
LEMMA Facts ==
  ASSUME Inv
  PROVE  /\ now \in Nat /\ now <= Horizon /\ Horizon \in Nat /\ Grace \in Nat
         /\ PutTTL \in Nat /\ AttemptTimeout \in Nat /\ PutTTL <= Grace
         /\ AttemptTimeout <= Grace
         /\ \A a \in Arts : created[a] \in Nat /\ begin[a] \in Nat
BY ArtifactsAssumption DEF Inv, TypeOK

\* Neither an upload nor a completion comes after the grace period.
LEMMA TooLate ==
  ASSUME Inv, NEW a \in Arts, status[a] # "none", created[a] + Grace < now
  PROVE  ~Owns(a) /\ ~(now < created[a] + PutTTL)
<1>1. begin[a] <= created[a]
  BY DEF Inv, Aged
<1> QED
  BY <1>1, Facts DEF Owns

\* A claim starts the clock of an attempt that has no row.
LEMMA ClaimAttemptInv ==
  ASSUME Inv, NEW a \in Arts, ClaimAttempt(a) PROVE Inv'
<1> USE DEF ClaimAttempt, Statuses, rows
<1>1. TypeOK'
  BY Facts DEF Inv, TypeOK
<1>2. Aged'
  BY Facts DEF Inv, TypeOK, Aged, Dying
<1>3. Referenced'
  BY DEF Inv, TypeOK, Referenced, Aged
<1>4. Verified'
  BY DEF Inv, TypeOK, Verified
<1>5. CollectedOnce'
  BY DEF Inv, TypeOK, CollectedOnce
<1>6. Swept'
  BY SweptKept, Facts, TooLate DEF Inv, TypeOK, Dying
<1> QED
  BY <1>1, <1>2, <1>3, <1>4, <1>5, <1>6 DEF Inv

\* An attempt that is lost keeps its rows.
LEMMA LoseAttemptInv ==
  ASSUME Inv, NEW a \in Arts, LoseAttempt(a) PROVE Inv'
<1> USE DEF LoseAttempt, Statuses, rows
<1>1. TypeOK'
  BY Facts DEF Inv, TypeOK
<1>2. Aged'
  BY Facts DEF Inv, TypeOK, Aged, Dying
<1>3. Referenced'
  BY DEF Inv, TypeOK, Referenced, Aged
<1>4. Verified'
  BY DEF Inv, TypeOK, Verified
<1>5. CollectedOnce'
  BY DEF Inv, TypeOK, CollectedOnce
<1>6. Swept'
  BY SweptKept, Facts, TooLate DEF Inv, TypeOK, Dying
<1> QED
  BY <1>1, <1>2, <1>3, <1>4, <1>5, <1>6 DEF Inv

\* A reservation begins for an attempt that is live.
LEMMA ReserveBeginInv ==
  ASSUME Inv, NEW a \in Arts, ReserveBegin(a) PROVE Inv'
<1> USE DEF ReserveBegin, Statuses, rows
<1>1. TypeOK'
  BY Facts DEF Inv, TypeOK
<1>2. Aged'
  BY Facts DEF Inv, TypeOK, Aged, Dying, Owns
<1>3. Referenced'
  BY DEF Inv, TypeOK, Referenced, Aged
<1>4. Verified'
  BY DEF Inv, TypeOK, Verified
<1>5. CollectedOnce'
  BY DEF Inv, TypeOK, CollectedOnce
<1>6. Swept'
  BY SweptKept, Facts, TooLate DEF Inv, TypeOK, Dying
<1> QED
  BY <1>1, <1>2, <1>3, <1>4, <1>5, <1>6 DEF Inv

\* The row is as old as its insertion.
LEMMA ReserveInsertInv ==
  ASSUME Inv, NEW a \in Arts, ReserveInsert(a) PROVE Inv'
<1> USE DEF ReserveInsert, Statuses, rows
<1>1. TypeOK'
  BY Facts DEF Inv, TypeOK
<1>2. Aged'
  BY Facts DEF Inv, TypeOK, Aged, Dying
<1>3. Referenced'
  BY DEF Inv, TypeOK, Referenced, Aged
<1>4. Verified'
  BY DEF Inv, TypeOK, Verified, Aged
<1>5. CollectedOnce'
  BY DEF Inv, TypeOK, CollectedOnce, Aged
<1>6. Swept'
  BY SweptKept, Facts, TooLate DEF Inv, TypeOK, Dying, Aged
<1> QED
  BY <1>1, <1>2, <1>3, <1>4, <1>5, <1>6 DEF Inv

\* A reservation that fails leaves no row.
LEMMA ReserveFailsInv ==
  ASSUME Inv, NEW a \in Arts, ReserveFails(a) PROVE Inv'
<1> USE DEF ReserveFails, Statuses, rows
<1>1. TypeOK'
  BY Facts DEF Inv, TypeOK
<1>2. Aged'
  BY Facts DEF Inv, TypeOK, Aged, Dying
<1>3. Referenced'
  BY DEF Inv, TypeOK, Referenced, Aged
<1>4. Verified'
  BY DEF Inv, TypeOK, Verified
<1>5. CollectedOnce'
  BY DEF Inv, TypeOK, CollectedOnce
<1>6. Swept'
  BY SweptKept, Facts, TooLate DEF Inv, TypeOK, Dying
<1> QED
  BY <1>1, <1>2, <1>3, <1>4, <1>5, <1>6 DEF Inv

\* An upload cannot come after the bytes of its row were erased.
LEMMA UploadInv ==
  ASSUME Inv, NEW a \in Arts, Upload(a) PROVE Inv'
<1> USE DEF Upload, Statuses, rows
<1>1. TypeOK'
  BY Facts DEF Inv, TypeOK
<1>2. Aged'
  BY Facts DEF Inv, TypeOK, Aged, Dying
<1>3. Referenced'
  BY DEF Inv, TypeOK, Referenced, Aged
<1>4. Verified'
  BY DEF Inv, TypeOK, Verified
<1>5. CollectedOnce'
  BY TooLate DEF Inv, TypeOK, CollectedOnce, Aged, Dying
<1>6. Swept'
  BY SweptKept, Facts, TooLate DEF Inv, TypeOK, Dying, Aged
<1> QED
  BY <1>1, <1>2, <1>3, <1>4, <1>5, <1>6 DEF Inv

\* A finalize begins with a row.
LEMMA SnapshotForFinalizeInv ==
  ASSUME Inv, NEW a \in Arts, SnapshotForFinalize(a) PROVE Inv'
<1> USE DEF SnapshotForFinalize, Statuses, rows
<1>1. TypeOK'
  BY Facts DEF Inv, TypeOK
<1>2. Aged'
  BY Facts DEF Inv, TypeOK, Aged, Dying
<1>3. Referenced'
  BY DEF Inv, TypeOK, Referenced, Aged
<1>4. Verified'
  BY DEF Inv, TypeOK, Verified
<1>5. CollectedOnce'
  BY DEF Inv, TypeOK, CollectedOnce
<1>6. Swept'
  BY SweptKept, Facts, TooLate DEF Inv, TypeOK, Dying
<1> QED
  BY <1>1, <1>2, <1>3, <1>4, <1>5, <1>6 DEF Inv

\* Only whole bytes are verified.
LEMMA VerifySnapshotInv ==
  ASSUME Inv, NEW a \in Arts, VerifySnapshot(a) PROVE Inv'
<1> USE DEF VerifySnapshot, Statuses, rows
<1>1. TypeOK'
  BY Facts DEF Inv, TypeOK
<1>2. Aged'
  BY Facts DEF Inv, TypeOK, Aged, Dying
<1>3. Referenced'
  BY DEF Inv, TypeOK, Referenced, Aged
<1>4. Verified'
  BY DEF Inv, TypeOK, Verified
<1>5. CollectedOnce'
  BY DEF Inv, TypeOK, CollectedOnce
<1>6. Swept'
  BY SweptKept, Facts, TooLate DEF Inv, TypeOK, Dying
<1> QED
  BY <1>1, <1>2, <1>3, <1>4, <1>5, <1>6 DEF Inv

\* What becomes READY was verified.
LEMMA TransitionToReadyInv ==
  ASSUME Inv, NEW a \in Arts, TransitionToReady(a) PROVE Inv'
<1> USE DEF TransitionToReady, Statuses, rows
<1>1. TypeOK'
  BY Facts DEF Inv, TypeOK
<1>2. Aged'
  BY Facts DEF Inv, TypeOK, Aged, Dying
<1>3. Referenced'
  BY DEF Inv, TypeOK, Referenced, Aged
<1>4. Verified'
  BY DEF Inv, TypeOK, Verified
<1>5. CollectedOnce'
  BY DEF Inv, TypeOK, CollectedOnce
<1>6. Swept'
  BY SweptKept, Facts, TooLate DEF Inv, TypeOK, Dying
<1> QED
  BY <1>1, <1>2, <1>3, <1>4, <1>5, <1>6 DEF Inv

\* What is referred to is READY, and too young for any sweep.
LEMMA CompleteInv ==
  ASSUME Inv, NEW a \in Arts, Complete(a) PROVE Inv'
<1> USE DEF Complete, Statuses, rows
<1>1. TypeOK'
  BY Facts DEF Inv, TypeOK
<1>2. Aged'
  BY Facts DEF Inv, TypeOK, Aged, Dying
<1>3. Referenced'
  BY DEF Inv, TypeOK, Referenced, Aged
<1>4. Verified'
  BY DEF Inv, TypeOK, Verified
<1>5. CollectedOnce'
  BY DEF Inv, TypeOK, CollectedOnce
<1>6. Swept'
  BY SweptKept, Facts, TooLate DEF Inv, TypeOK, Dying
<1> QED
  BY <1>1, <1>2, <1>3, <1>4, <1>5, <1>6 DEF Inv

\* A consumer verifies whole bytes.
LEMMA VerifyReferencesInv ==
  ASSUME Inv, NEW a \in Arts, VerifyReferences(a) PROVE Inv'
<1> USE DEF VerifyReferences, Statuses, rows
<1>1. TypeOK'
  BY Facts DEF Inv, TypeOK
<1>2. Aged'
  BY Facts DEF Inv, TypeOK, Aged, Dying
<1>3. Referenced'
  BY DEF Inv, TypeOK, Referenced, Aged
<1>4. Verified'
  BY DEF Inv, TypeOK, Verified
<1>5. CollectedOnce'
  BY DEF Inv, TypeOK, CollectedOnce
<1>6. Swept'
  BY SweptKept, Facts, TooLate DEF Inv, TypeOK, Dying
<1> QED
  BY <1>1, <1>2, <1>3, <1>4, <1>5, <1>6 DEF Inv

\* A consumer that starts was verified.
LEMMA ClaimConsumerInv ==
  ASSUME Inv, NEW a \in Arts, ClaimConsumer(a) PROVE Inv'
<1> USE DEF ClaimConsumer, Statuses, rows
<1>1. TypeOK'
  BY Facts DEF Inv, TypeOK
<1>2. Aged'
  BY Facts DEF Inv, TypeOK, Aged, Dying
<1>3. Referenced'
  BY DEF Inv, TypeOK, Referenced, Aged
<1>4. Verified'
  BY DEF Inv, TypeOK, Verified
<1>5. CollectedOnce'
  BY DEF Inv, TypeOK, CollectedOnce
<1>6. Swept'
  BY SweptKept, Facts, TooLate DEF Inv, TypeOK, Dying
<1> QED
  BY <1>1, <1>2, <1>3, <1>4, <1>5, <1>6 DEF Inv

\* The store takes bytes away only where it is recorded.
LEMMA DamageInv ==
  ASSUME Inv, NEW a \in Arts, NEW c \in {"none", "spoiled"}, Damage(a, c) PROVE Inv'
<1> USE DEF Damage, Statuses, rows
<1>1. TypeOK'
  BY Facts, ArtifactsAssumption DEF Inv, TypeOK
<1>2. Aged' /\ Referenced'
  BY DEF Inv, Aged, Referenced
<1>3. Verified'
  BY DEF Inv, TypeOK, Verified
<1>4. CollectedOnce'
  BY DEF Inv, TypeOK, CollectedOnce
<1>5. Swept'
  BY SweptKept, Facts DEF Inv, TypeOK, Dying
<1> QED
  BY <1>1, <1>2, <1>3, <1>4, <1>5 DEF Inv

\* Time only makes things older.
LEMMA TickInv ==
  ASSUME Inv, Tick PROVE Inv'
<1> USE DEF Tick, rows
<1>0. now' = now + 1 /\ now' \in 0..Horizon
  BY Facts
<1>1. TypeOK'
  BY <1>0 DEF Inv, TypeOK
<1>2. Aged'
  BY <1>0, Facts DEF Inv, Aged
<1>3. Referenced' /\ Verified' /\ CollectedOnce'
  BY DEF Inv, Referenced, Verified, CollectedOnce
<1>4. Swept'
  BY <1>0, SweptKept, Facts DEF Inv
<1> QED
  BY <1>1, <1>2, <1>3, <1>4 DEF Inv

-----------------------------------------------------------------------------
\* A sweep's step concerns itself, and what the others have in hand is kept if
\* the rows that are given up stay so.
LEMMA OthersSwept ==
  ASSUME Inv, NEW w \in Sweepers, \A v \in Sweepers \ {w} : sweep'[v] = sweep[v],
         UNCHANGED <<now, created, output>>,
         \A a \in Arts :
           /\ status[a] \in Dying => status'[a] \in Dying
           /\ status[a] # "none" => status'[a] # "none"
           /\ status[a] \in Dying /\ object[a] = "none" => object'[a] = "none",
         /\ sweep'[w].pc = "select" =>
              /\ sweep'[w].limit <= now
              /\ \A a \in sweep'[w].cand :
                   created[a] + Grace < sweep'[w].limit /\ status'[a] # "none" /\ ~output[a]
         /\ \A a \in sweep'[w].todo : status'[a] \in Dying
         /\ sweep'[w].pc \in {"erase", "mark", "seal"} =>
              sweep'[w].victim \in Arts /\ status'[sweep'[w].victim] \in Dying
         /\ sweep'[w].pc \in {"mark", "seal"} => object'[sweep'[w].victim] = "none"
  PROVE  Swept'
<1> SUFFICES ASSUME NEW v \in Sweepers \ {w}
             PROVE  /\ sweep[v].pc = "select" =>
                         /\ sweep[v].limit <= now
                         /\ \A a \in sweep[v].cand :
                              /\ created[a] + Grace < sweep[v].limit
                              /\ status'[a] # "none" /\ ~output[a]
                    /\ \A a \in sweep[v].todo : status'[a] \in Dying
                    /\ sweep[v].pc \in {"erase", "mark", "seal"} =>
                         sweep[v].victim \in Arts /\ status'[sweep[v].victim] \in Dying
                    /\ sweep[v].pc \in {"mark", "seal"} => object'[sweep[v].victim] = "none"
  BY DEF Swept
<1>0. sweep[v].cand \subseteq Arts /\ sweep[v].todo \subseteq Arts
  BY DEF Inv, TypeOK, Sweep
<1> QED
  BY <1>0 DEF Inv, Swept

\* Rows and objects that a step leaves alone satisfy what is said of them.
LEMMA RowsKept ==
  ASSUME Inv, UNCHANGED <<now, size, attempt, begin, reserving, rows, object, finalizing,
                          output, consumer, damaged, late, collected, damages>>,
         faults' \in 0..MaxFaults, sweep' \in [Sweepers -> Sweep]
  PROVE  TypeOK' /\ Aged' /\ Referenced' /\ Verified' /\ CollectedOnce'
BY DEF Inv, TypeOK, Aged, Referenced, Verified, CollectedOnce, rows

\* A sweep takes up candidates that nothing refers to, past the grace period.
LEMMA SweepBeginInv ==
  ASSUME Inv, NEW w \in Sweepers, SweepBegin(w) PROVE Inv'
<1>0. sweep' \in [Sweepers -> Sweep] /\ \A v \in Sweepers \ {w} : sweep'[v] = sweep[v]
  BY SweepTyped DEF Inv, Work
<1>1. TypeOK' /\ Aged' /\ Referenced' /\ Verified' /\ CollectedOnce'
  BY <1>0, RowsKept DEF SweepBegin, Inv, TypeOK
<1>2. sweep'[w] = [pc |-> "select", limit |-> now, cand |-> Orphans(now), todo |-> Resumed,
                   victim |-> None]
  BY DEF SweepBegin, Inv, TypeOK
<1>3. \A a \in Orphans(now) : created[a] + Grace < now /\ status[a] # "none" /\ ~output[a]
  BY DEF Orphans, Old, Inv, Aged, Referenced
<1>4. \A a \in Resumed : status[a] \in Dying
  BY SelectionTyped
<1>5. UNCHANGED <<now, created, output, status, object>>
  BY DEF SweepBegin, rows
<1>6. Swept'
  BY <1>0, <1>2, <1>3, <1>4, <1>5, OthersSwept, Facts
<1> QED
  BY <1>1, <1>6 DEF Inv

\* What a sweep gives up is past the grace period and nothing refers to it:
\* no completion has come since it looked.
LEMMA SweepFlipInv ==
  ASSUME Inv, NEW w \in Sweepers, SweepFlip(w) PROVE Inv'
<1>0. sweep' \in [Sweepers -> Sweep] /\ \A v \in Sweepers \ {w} : sweep'[v] = sweep[v]
  BY SweepTyped DEF Inv, Work
<1>c. ASSUME NEW a \in Chosen(w)
      PROVE  /\ a \in Arts /\ status[a] \in {"PENDING_UPLOAD", "READY"} /\ ~output[a]
             /\ created[a] + Grace < now
  <2>1. /\ a \in sweep[w].cand /\ status[a] \in {"PENDING_UPLOAD", "READY"}
        /\ created[a] + Grace < sweep[w].limit
    BY SelectionTyped DEF Old
  <2>2. /\ sweep[w].limit <= now /\ ~output[a] /\ sweep[w].limit \in Int /\ a \in Arts
    BY <2>1 DEF SweepFlip, Inv, Swept, TypeOK, Sweep
  <2> QED
    BY <2>1, <2>2, Facts
<1>s. /\ \A a \in Arts : IF a \in Chosen(w) THEN status'[a] \in {"DELETING", "EXPIRED"}
                        ELSE status'[a] = status[a]
      /\ status' \in [Arts -> Statuses]
  BY DEF SweepFlip, Inv, TypeOK, Statuses
<1>u. UNCHANGED <<now, size, attempt, begin, reserving, created, sealed, object, finalizing,
                  output, consumer, damaged, late, collected, damages, faults>>
  BY DEF SweepFlip
<1>1. TypeOK'
  BY <1>0, <1>s, <1>u DEF Inv, TypeOK
<1>2. Aged'
  BY <1>c, <1>s, <1>u DEF Inv, Aged, Dying
<1>3. Referenced' /\ Verified'
  BY <1>c, <1>s, <1>u DEF Inv, Referenced, Verified
<1>4. CollectedOnce'
  BY <1>c, <1>s, <1>u DEF Inv, CollectedOnce, Aged
<1>5. sweep'[w].pc = "work" /\ sweep'[w].todo = sweep[w].todo \cup Chosen(w)
  BY DEF SweepFlip, Inv, TypeOK, Sweep
<1>6. \A a \in sweep'[w].todo : status'[a] \in Dying
  <2>1. sweep[w].todo \subseteq Arts /\ \A a \in sweep[w].todo : status[a] \in Dying
    BY DEF Inv, Swept, TypeOK, Sweep
  <2> QED
    BY <1>c, <1>s, <1>5, <2>1 DEF Dying
<1>7. Swept'
  BY <1>0, <1>c, <1>s, <1>u, <1>5, <1>6, OthersSwept DEF Dying
<1> QED
  BY <1>1, <1>2, <1>3, <1>4, <1>7 DEF Inv

\* A victim is one of those given up, and Stat says when its bytes are absent.
LEMMA SweepVictimInv ==
  ASSUME Inv, NEW w \in Sweepers, NEW a \in Arts, SweepVictim(w, a) PROVE Inv'
<1>0. sweep' \in [Sweepers -> Sweep] /\ \A v \in Sweepers \ {w} : sweep'[v] = sweep[v]
  BY SweepTyped DEF Inv, Work
<1>1. TypeOK' /\ Aged' /\ Referenced' /\ Verified' /\ CollectedOnce'
  BY <1>0, RowsKept DEF SweepVictim, Inv, TypeOK
<1>2. UNCHANGED <<now, created, output, status, object>>
  BY DEF SweepVictim, rows
<1>3. /\ sweep'[w].victim = a /\ sweep'[w].todo = sweep[w].todo /\ a \in sweep[w].todo
      /\ sweep'[w].pc = IF Expiring(a) /\ object[a] = "none" THEN "seal" ELSE "erase"
  BY DEF SweepVictim, Inv, TypeOK, Sweep
<1>4. \A b \in sweep[w].todo : status[b] \in Dying
  BY DEF Inv, Swept
<1>5. Swept'
  BY <1>0, <1>2, <1>3, <1>4, OthersSwept
<1> QED
  BY <1>1, <1>5 DEF Inv

\* The bytes of a row that was given up are erased.
LEMMA SweepEraseInv ==
  ASSUME Inv, NEW w \in Sweepers, SweepErase(w) PROVE Inv'
<1>0. sweep' \in [Sweepers -> Sweep] /\ \A v \in Sweepers \ {w} : sweep'[v] = sweep[v]
  BY SweepTyped DEF Inv, Work
<1> PICK a \in Arts : a = sweep[w].victim /\ status[a] \in Dying
  BY DEF SweepErase, Inv, Swept
<1>1. /\ object'[a] = "none" /\ \A b \in Arts \ {a} : object'[b] = object[b]
      /\ object' \in [Arts -> {"none", "whole", "spoiled"}]
  BY DEF SweepErase, Inv, TypeOK
<1>u. UNCHANGED <<now, size, attempt, begin, reserving, status, created, sealed, finalizing,
                  output, consumer, damaged, late, collected, damages, faults>>
  BY DEF SweepErase, rows
<1>2. TypeOK'
  BY <1>0, <1>1, <1>u DEF Inv, TypeOK
<1>3. Aged' /\ Referenced'
  BY <1>u DEF Inv, Aged, Referenced
<1>4. Verified'
  BY <1>1, <1>u DEF Inv, Verified, Referenced, Dying
<1>5. CollectedOnce'
  BY <1>1, <1>u DEF Inv, CollectedOnce
<1>6. sweep'[w].pc = "mark" /\ sweep'[w].victim = a /\ sweep'[w].todo = sweep[w].todo
  BY DEF SweepErase, Inv, TypeOK, Sweep
<1>7. \A b \in sweep[w].todo : status[b] \in Dying
  BY DEF Inv, Swept
<1>8. Swept'
  BY <1>0, <1>1, <1>u, <1>6, <1>7, OthersSwept
<1> QED
  BY <1>2, <1>3, <1>4, <1>5, <1>8 DEF Inv

\* A row is done, and counted, once its bytes are gone.
LEMMA SweepMarkInv ==
  ASSUME Inv, NEW w \in Sweepers, SweepMark(w) PROVE Inv'
<1>0. sweep' \in [Sweepers -> Sweep] /\ \A v \in Sweepers \ {w} : sweep'[v] = sweep[v]
  BY SweepTyped DEF Inv, Work
<1> PICK a \in Arts : a = sweep[w].victim /\ status[a] \in Dying /\ object[a] = "none"
  BY DEF SweepMark, Inv, Swept
<1>1. /\ status'[a] = IF status[a] = "DELETING" THEN "DELETED" ELSE status[a]
      /\ \A b \in Arts \ {a} : status'[b] = status[b] /\ sealed'[b] = sealed[b]
                               /\ collected'[b] = collected[b]
      /\ sealed'[a] = (sealed[a] \/ status[a] = "EXPIRED")
      /\ status' \in [Arts -> Statuses] /\ sealed' \in [Arts -> BOOLEAN]
  BY DEF SweepMark, Expiring, Inv, TypeOK, Statuses
<1>2. /\ collected' \in [Arts -> Nat]
      /\ \/ collected'[a] = collected[a]
         \/ /\ collected'[a] = collected[a] + 1
            /\ status[a] = "DELETING" \/ (status[a] = "EXPIRED" /\ ~sealed[a])
  <2>1. collected \in [Arts -> Nat]
    BY DEF Inv, TypeOK
  <2>2. CASE collected' = collected
    BY <2>1, <2>2
  <2>3. CASE /\ collected' = [collected EXCEPT ![a] = collected[a] + 1]
             /\ status[a] = "DELETING" \/ (status[a] = "EXPIRED" /\ ~sealed[a])
    <3>0. collected[a] \in Nat
      BY <2>1
    <3>1. collected[a] + 1 \in Nat
      BY <3>0, Counting, Zenon
    <3> QED
      BY <2>1, <2>3, <3>1
  <2> QED
    BY <2>2, <2>3 DEF SweepMark, Expiring
<1>u. UNCHANGED <<now, size, attempt, begin, reserving, created, object, finalizing,
                  output, consumer, damaged, late, damages, faults>>
  BY DEF SweepMark
<1>s. /\ status'[a] \in Dying /\ status'[a] # "none"
      /\ status[a] = "DELETING" => status'[a] = "DELETED"
      /\ status[a] # "DELETING" => status'[a] = status[a]
      /\ (sealed[a] => sealed'[a]) /\ (status[a] = "EXPIRED" => sealed'[a])
      /\ sealed'[a] => sealed[a] \/ status[a] = "EXPIRED"
  BY <1>1 DEF Dying
<1>t. \A b \in Arts : /\ status[b] \in Dying => status'[b] \in Dying
                      /\ status'[b] \in Dying => status[b] \in Dying
                      /\ status[b] # "none" => status'[b] # "none"
                      /\ status'[b] # "none" => status[b] # "none"
                      /\ sealed'[b] => status'[b] = "EXPIRED"
  <2>1. status[a] \in Dying /\ status[a] # "none"
    BY DEF Dying
  <2>2. \A b \in Arts : sealed[b] => status[b] = "EXPIRED"
    BY DEF Inv, Aged
  <2> QED
    BY <1>1, <1>s, <2>1, <2>2
<1>3. TypeOK'
  BY <1>0, <1>1, <1>2, <1>u DEF Inv, TypeOK
<1>4. Aged'
  <2> SUFFICES ASSUME NEW b \in Arts
               PROVE  /\ begin[b] <= now
                      /\ status'[b] # "none" => /\ attempt[b] # "waiting"
                                                /\ begin[b] <= created[b] /\ created[b] <= now
                      /\ status'[b] \in Dying => created[b] + Grace < now
                      /\ b \in reserving => attempt[b] = "live" /\ status'[b] = "none"
                      /\ sealed'[b] => status'[b] = "EXPIRED"
    BY <1>u DEF Aged
  <2>1. status[a] # "none"
    BY DEF Dying
  <2> QED
    BY <1>1, <1>t, <2>1 DEF Inv, Aged
<1>5. Referenced' /\ Verified'
  <2>1. /\ status'[a] \notin {"READY", "PENDING_UPLOAD", "none"}
        /\ status[a] \notin {"READY", "PENDING_UPLOAD", "none"}
    BY <1>s DEF Dying
  <2>2. \A b \in Arts : \A x \in {"READY", "PENDING_UPLOAD", "none"} :
          status'[b] = x <=> status[b] = x
    BY <1>1, <2>1
  <2>3. Referenced'
    BY <1>u, <2>2 DEF Inv, Referenced
  <2>4. Verified'
    BY <1>u, <2>2 DEF Inv, Verified
  <2> QED
    BY <2>3, <2>4
<1>6. CollectedOnce'
  <2>1. /\ collected[a] \in Nat /\ collected[a] <= 1
        /\ collected[a] = 1 => status[a] = "DELETED" \/ sealed[a]
        /\ sealed[a] => status[a] = "EXPIRED"
    BY DEF Inv, TypeOK, CollectedOnce, Aged
  <2>0. status'[a] = "DELETED" \/ sealed'[a]
    BY <1>s DEF Dying
  <2>2. ASSUME status[a] = "DELETING" \/ (status[a] = "EXPIRED" /\ ~sealed[a])
        PROVE  collected[a] = 0
    <3>1. collected[a] # 1
      BY <2>1, <2>2
    <3> QED
      BY <2>1, <3>1, Counting, Zenon
  <2>3. collected'[a] <= 1
    BY <1>2, <2>1, <2>2
  <2> QED
    BY <1>1, <1>u, <2>0, <2>3 DEF Inv, CollectedOnce
<1>7. sweep'[w].pc = "work" /\ sweep'[w].todo \subseteq sweep[w].todo
  BY DEF SweepMark, Inv, TypeOK, Sweep
<1>8. \A b \in sweep[w].todo : b \in Arts /\ status[b] \in Dying
  BY DEF Inv, Swept, TypeOK, Sweep
<1>9. Swept'
  <2>1. \A b \in sweep'[w].todo : status'[b] \in Dying
    BY <1>7, <1>8, <1>t
  <2> QED
    BY <1>0, <1>t, <1>u, <1>7, <2>1, OthersSwept
<1> QED
  BY <1>3, <1>4, <1>5, <1>6, <1>9 DEF Inv

\* A sweep that ends, fails or passes over a victim changes no row.
LEMMA SweepStopsInv ==
  ASSUME Inv, NEW w \in Sweepers, SweepEnds(w) \/ SweepFails(w) \/ StoreFails(w) PROVE Inv'
<1>0. sweep' \in [Sweepers -> Sweep] /\ \A v \in Sweepers \ {w} : sweep'[v] = sweep[v]
  BY SweepTyped DEF Inv, Work
<1>f. faults \in 0..MaxFaults /\ faults' \in 0..MaxFaults
  <2>1. faults \in 0..MaxFaults /\ MaxFaults \in Nat
    BY ArtifactsAssumption DEF Inv, TypeOK
  <2>2. faults' = faults \/ (faults > 0 /\ faults' = faults - 1)
    BY DEF SweepEnds, SweepFails, StoreFails
  <2> QED
    BY <2>1, <2>2
<1>u. UNCHANGED <<now, size, attempt, begin, reserving, rows, object, finalizing,
                  output, consumer, damaged, late, collected, damages>>
  BY DEF SweepEnds, SweepFails, StoreFails
<1>1. TypeOK' /\ Aged' /\ Referenced' /\ Verified' /\ CollectedOnce'
  BY <1>0, <1>f, <1>u, RowsKept
<1>2. sweep'[w].pc \in {"idle", "work"} /\ sweep'[w].todo \subseteq sweep[w].todo
  BY DEF SweepEnds, SweepFails, StoreFails, Inv, TypeOK, Sweep, Idle, At
<1>3. \A b \in sweep[w].todo : status[b] \in Dying
  BY DEF Inv, Swept
<1>4. Swept'
  BY <1>0, <1>u, <1>2, <1>3, OthersSwept DEF rows
<1> QED
  BY <1>1, <1>4 DEF Inv

-----------------------------------------------------------------------------
\* Every step keeps the invariant.
LEMMA NextInv == Inv /\ [Next]_vars => Inv'
<1> SUFFICES ASSUME Inv, [Next]_vars PROVE Inv'
  OBVIOUS
<1>1. ASSUME NEW a \in Arts,
             \/ ClaimAttempt(a) \/ LoseAttempt(a) \/ Create(a) \/ Upload(a) \/ Finalize(a)
             \/ Complete(a) \/ VerifyReferences(a) \/ ClaimConsumer(a)
             \/ \E c \in {"none", "spoiled"} : Damage(a, c)
      PROVE  Inv'
  BY <1>1, ClaimAttemptInv, LoseAttemptInv, ReserveBeginInv, ReserveInsertInv,
     ReserveFailsInv, UploadInv, SnapshotForFinalizeInv, VerifySnapshotInv,
     TransitionToReadyInv, CompleteInv, VerifyReferencesInv, ClaimConsumerInv, DamageInv
  DEF Create, Finalize
<1>2. ASSUME NEW w \in Sweepers, Work(w) \/ StoreFails(w) \/ SweepFails(w) PROVE Inv'
  BY <1>2, SweepBeginInv, SweepFlipInv, SweepVictimInv, SweepEraseInv, SweepMarkInv,
     SweepStopsInv DEF Work
<1>3. CASE UNCHANGED vars
  <2>1. UNCHANGED <<now, size, attempt, begin, reserving, rows, object, finalizing,
                    output, consumer, damaged, late, collected, damages, faults, sweep>>
    BY <1>3 DEF vars
  <2>2. TypeOK' /\ Aged' /\ Referenced' /\ Verified' /\ CollectedOnce'
    BY <2>1, RowsKept DEF Inv, TypeOK
  <2>3. Swept'
    BY <2>1 DEF Inv, Swept, rows
  <2> QED
    BY <2>2, <2>3 DEF Inv
<1> QED
  BY <1>1, <1>2, <1>3, TickInv DEF Next

\* The invariant holds in every state of every execution.
THEOREM ArtifactsInvariant == Spec => []Inv
<1> QED
  BY InitInv, NextInv, PTL DEF Spec

\* CollectGarbage and LookupForCompletionTx: what a step's output refers to is
\* READY for ever, although a sweep reads references before it locks the row.
THEOREM ReferencedAlwaysKept == Spec => []ReferencedIsKept
<1>1. Inv => ReferencedIsKept
  BY DEF Inv, Referenced, ReferencedIsKept
<1> QED
  BY <1>1, ArtifactsInvariant, PTL

\* Finalize and the verification at a claim: a READY row has its bytes and a
\* consumer that starts finds them, unless the store itself damaged them.
THEOREM ReadyAlwaysWhole == Spec => []ReadyIsWhole
<1>1. Inv => ReadyIsWhole
  BY DEF Inv, Verified, ReadyIsWhole
<1> QED
  BY <1>1, ArtifactsInvariant, PTL

\* CollectGarbage: rows that are done leave no bytes and are counted once,
\* whatever sweeps overlap, fail and resume.
THEOREM AlwaysCollectedOnce == Spec => []CollectedOnce
<1>1. Inv => CollectedOnce
  BY DEF Inv
<1> QED
  BY <1>1, ArtifactsInvariant, PTL
=============================================================================
