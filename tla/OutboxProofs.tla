---------------------------- MODULE OutboxProofs ----------------------------
(***************************************************************************)
(* The outbox implements at-least-once delivery, for any number of          *)
(* dispatchers, events, crashes and outages.                                *)
(***************************************************************************)
EXTENDS Outbox, TLAPS

\* What the steps of DispatchBatch carry from one transaction to the next: a
\* record in hand exists, and an ACK in hand is the broker's word for an
\* event it has accepted.
InHand ==
  /\ \A p \in Procs : \A e \in batch[p] : row[e] # "none"
  /\ \A p \in Procs : ack[p] # None => ack[p] \in accepted
  /\ \A e \in accepted : row[e] # "none" /\ e \notin Malformed

\* A published row was accepted and a dead one was malformed.
Justified ==
  /\ \A e \in Events : row[e] = "published" => e \in accepted
  /\ \A e \in Events : row[e] = "dead" => e \in Malformed

IInv == TypeOK /\ InHand /\ Justified

\* The empty outbox satisfies the invariant.
LEMMA InitIInv == Init => IInv
  BY OutboxAssumption DEF Init, IInv, TypeOK, InHand, Justified

\* Every step of a dispatcher keeps it, with a crash between any two.
LEMMA NextIInv == IInv /\ [Next]_vars => IInv'
<1> SUFFICES ASSUME IInv, [Next]_vars PROVE IInv'
  OBVIOUS
<1> USE OutboxAssumption DEF IInv
<1>1. CASE UNCHANGED vars
  BY <1>1 DEF vars, TypeOK, InHand, Justified
<1>2. ASSUME NEW e \in Events, Commit(e) PROVE IInv'
  BY <1>2 DEF Commit, TypeOK, InHand, Justified
<1>3. ASSUME NEW e \in Events, NextAtPasses(e) PROVE IInv'
  BY <1>3 DEF NextAtPasses, TypeOK, InHand, Justified
<1>0. Fault => faults' \in 0..MaxFaults
  BY DEF Fault, TypeOK
<1>4. CASE BrokerStops
  <2>1. faults' \in 0..MaxFaults
    BY <1>0, <1>4 DEF BrokerStops
  <2> QED
    BY <1>4, <2>1 DEF BrokerStops, TypeOK, InHand, Justified
<1>5. CASE BrokerStarts
  BY <1>5 DEF BrokerStarts, TypeOK, InHand, Justified
<1>6. ASSUME NEW p \in Procs, ClaimBatch(p) PROVE IInv'
  <2> PICK b \in SUBSET Claimable :
        /\ batch' = [batch EXCEPT ![p] = b]
        /\ due' = [e \in Events |-> due[e] /\ e \notin b]
    BY <1>6 DEF ClaimBatch
  <2>1. b \subseteq Events /\ \A e \in b : row[e] = "pending"
    BY DEF Claimable
  <2>2. TypeOK'
    <3>1. due' \in [Events -> BOOLEAN]
      BY DEF TypeOK
    <3> QED
      BY <1>6, <2>1, <3>1 DEF ClaimBatch, TypeOK
  <2> QED
    BY <1>6, <2>1, <2>2 DEF ClaimBatch, TypeOK, InHand, Justified
<1>7. ASSUME NEW p \in Procs, NEW e \in Events, Invalid(p, e) PROVE IInv'
  <2>1. e \in batch[p] /\ e \in Malformed /\ row[e] # "none"
    BY <1>7 DEF Invalid, Take, InHand
  <2>2. row' = row \/ row' = DeadLetter(e)
    BY <1>7 DEF Invalid
  <2> QED
    BY <1>7, <2>1, <2>2 DEF Invalid, Take, DeadLetter, TypeOK, InHand, Justified
<1>8. ASSUME NEW p \in Procs, NEW e \in Events, PublishAcked(p, e) PROVE IInv'
  BY <1>8 DEF PublishAcked, Take, TypeOK, InHand, Justified
<1>9. ASSUME NEW p \in Procs, NEW e \in Events, PublishFailed(p, e) PROVE IInv'
  <2>1. row[e] # "none" /\ e \notin Malformed
    BY <1>9 DEF PublishFailed, Take, InHand
  <2>2. accepted' = accepted \/ accepted' = accepted \cup {e}
    BY <1>9 DEF PublishFailed
  <2>3. due' = due \/ due' = RetryLater(e)
    BY <1>9 DEF PublishFailed
  <2> QED
    BY <1>9, <2>1, <2>2, <2>3 DEF PublishFailed, Take, RetryLater, TypeOK, InHand, Justified
<1>10. ASSUME NEW p \in Procs, Mark(p) PROVE IInv'
  <2>1. ack[p] \in Events /\ ack[p] \in accepted
    BY <1>10 DEF Mark, TypeOK, InHand
  <2> QED
    BY <1>10, <2>1 DEF Mark, MarkPublished, TypeOK, InHand, Justified
<1>11. ASSUME NEW p \in Procs, MarkFails(p) PROVE IInv'
  BY <1>11 DEF MarkFails, TypeOK, InHand, Justified
<1>12. ASSUME NEW p \in Procs, Surroundings(p) PROVE IInv'
  <2>1. CASE Connect(p)
    BY <2>1 DEF Connect, TypeOK, InHand, Justified
  <2>3. CASE Disconnect(p)
    BY <2>3 DEF Disconnect, TypeOK, InHand, Justified
  <2>4. CASE Restart(p)
    BY <2>4 DEF Restart, TypeOK, InHand, Justified
  <2>2. CASE Crash(p)
    <3>1. faults' \in 0..MaxFaults
      BY <1>0, <2>2 DEF Crash
    <3> QED
      BY <2>2, <3>1 DEF Crash, TypeOK, InHand, Justified
  <2> QED
    BY <1>12, <2>1, <2>2, <2>3, <2>4 DEF Surroundings
<1> QED
  BY <1>1, <1>2, <1>3, <1>4, <1>5, <1>6, <1>7, <1>8, <1>9, <1>10, <1>11, <1>12
  DEF Next, Table, Dispatch

\* A step that changes row and accepted at e alone moves at most stage e.
LEMMA StageFrame ==
  ASSUME NEW e \in Events, TypeOK, TypeOK',
         \A f \in Events \ {e} : row'[f] = row[f] /\ (f \in accepted' <=> f \in accepted)
  PROVE  stages' = [stages EXCEPT ![e] = Stage(e)']
<1>1. \A f \in Events \ {e} : Stage(f)' = Stage(f)
  BY DEF Stage, TypeOK
<1> QED
  BY <1>1 DEF stages

\* The outbox with any number of dispatchers implements AtLeastOnce: a row is
\* published only after the broker accepted it and stays so, whatever crashes
\* between claim, publish and mark, and only malformed rows are dead-lettered.
THEOREM OutboxDelivers == Spec => DeliversAtLeastOnce
<1> USE OutboxAssumption
<1>1. Init => Delivery!Init
  BY DEF Init, Delivery!Init, Stage, stages
<1>2. IInv /\ IInv' /\ [Next]_vars => [Delivery!Next]_stages
  <2> SUFFICES ASSUME IInv, IInv', [Next]_vars
               PROVE  Delivery!Next \/ stages' = stages
    OBVIOUS
  <2> USE DEF IInv
  <2>1. ASSUME row' = row, accepted' = accepted PROVE stages' = stages
    BY <2>1 DEF stages, Stage
  <2>2. ASSUME NEW e \in Events, Commit(e) PROVE Delivery!Next
    <3>1. stages' = [stages EXCEPT ![e] = Stage(e)']
      BY <2>2, StageFrame DEF Commit, TypeOK
    <3>2. Stage(e) = "new" /\ Stage(e)' = "owed"
      BY <2>2 DEF Commit, Stage, TypeOK, InHand
    <3> QED
      BY <3>1, <3>2 DEF Delivery!Next, Delivery!Owe, stages
  <2>3. ASSUME NEW p \in Procs, NEW e \in Events, Invalid(p, e), row' # row PROVE Delivery!Next
    <3>1. row' = DeadLetter(e) /\ row[e] # "none" /\ e \in Malformed /\ e \notin accepted
      BY <2>3 DEF Invalid, Take, InHand
    <3>2. row[e] = "pending" /\ row'[e] = "dead"
      BY <2>3, <3>1 DEF DeadLetter, TypeOK, Justified
    <3>3. stages' = [stages EXCEPT ![e] = Stage(e)']
      BY <2>3, <3>1, StageFrame DEF Invalid, DeadLetter, TypeOK
    <3>4. Stage(e) = "owed" /\ Stage(e)' = "refused"
      BY <3>1, <3>2 DEF Stage
    <3> QED
      BY <3>1, <3>3, <3>4 DEF Delivery!Next, Delivery!Refuse, stages
  <2>4. ASSUME NEW p \in Procs, NEW e \in Events, e \in batch[p], e \notin Malformed,
               row' = row, accepted' = accepted \cup {e}
        PROVE  Delivery!Next \/ stages' = stages
    <3>1. row[e] # "none"
      BY <2>4 DEF InHand
    <3>2. CASE e \in accepted
      BY <2>1, <2>4, <3>2
    <3>3. CASE e \notin accepted
      <4>1. stages' = [stages EXCEPT ![e] = Stage(e)']
        BY <2>4, StageFrame
      <4>2. row[e] = "pending"
        BY <2>4, <3>1, <3>3 DEF TypeOK, Justified
      <4>3. Stage(e) = "owed" /\ Stage(e)' = "sent"
        BY <2>4, <3>3, <4>2 DEF Stage
      <4> QED
        BY <2>4, <4>1, <4>3 DEF Delivery!Next, Delivery!Send, stages
    <3> QED
      BY <3>2, <3>3
  <2>5. ASSUME NEW p \in Procs, Mark(p), row' # row PROVE Delivery!Next
    <3> PICK e \in Events : e = ack[p]
      BY <2>5 DEF Mark, TypeOK
    <3>1. e \in accepted /\ row' = MarkPublished(e) /\ accepted' = accepted
      BY <2>5 DEF Mark, TypeOK, InHand
    <3>2. row[e] = "pending" /\ row'[e] = "published"
      BY <2>5, <3>1 DEF MarkPublished, TypeOK
    <3>3. stages' = [stages EXCEPT ![e] = Stage(e)']
      <4>1. \A f \in Events \ {e} : row'[f] = row[f] /\ (f \in accepted' <=> f \in accepted)
        BY <3>1 DEF MarkPublished, TypeOK
      <4> QED
        BY <4>1, StageFrame
    <3>4. Stage(e) = "sent" /\ Stage(e)' = "settled"
      BY <3>1, <3>2 DEF Stage
    <3> QED
      BY <3>1, <3>3, <3>4 DEF Delivery!Next, Delivery!Settle, stages
  <2>6. CASE UNCHANGED vars
    BY <2>1, <2>6 DEF vars
  <2>7. CASE Next
    <3>1. CASE Table
      BY <2>1, <2>2, <3>1 DEF Table, NextAtPasses
    <3>2. CASE BrokerStops \/ BrokerStarts
      BY <2>1, <3>2 DEF BrokerStops, BrokerStarts
    <3>3. ASSUME NEW p \in Procs, Surroundings(p) PROVE stages' = stages
      BY <2>1, <3>3 DEF Surroundings, Connect, Disconnect, Crash, Restart
    <3>4. ASSUME NEW p \in Procs, ClaimBatch(p) \/ MarkFails(p) PROVE stages' = stages
      BY <2>1, <3>4 DEF ClaimBatch, MarkFails
    <3>5. ASSUME NEW p \in Procs, Mark(p) PROVE Delivery!Next \/ stages' = stages
      BY <2>1, <2>5, <3>5 DEF Mark
    <3>6. ASSUME NEW p \in Procs, NEW e \in Events, Invalid(p, e)
          PROVE  Delivery!Next \/ stages' = stages
      BY <2>1, <2>3, <3>6 DEF Invalid
    <3>7. ASSUME NEW p \in Procs, NEW e \in Events, PublishAcked(p, e)
          PROVE  Delivery!Next \/ stages' = stages
      BY <2>4, <3>7 DEF PublishAcked, Take
    <3>8. ASSUME NEW p \in Procs, NEW e \in Events, PublishFailed(p, e)
          PROVE  Delivery!Next \/ stages' = stages
      BY <2>1, <2>4, <3>8 DEF PublishFailed, Take
    <3> QED
      BY <2>7, <3>1, <3>2, <3>3, <3>4, <3>5, <3>6, <3>7, <3>8 DEF Next, Dispatch
  <2> QED
    BY <2>6, <2>7
<1>3. Spec => []IInv
  BY InitIInv, NextIInv, PTL DEF Spec
<1> QED
  BY <1>1, <1>2, <1>3, PTL DEF Spec, DeliversAtLeastOnce, Delivery!Spec
=============================================================================
