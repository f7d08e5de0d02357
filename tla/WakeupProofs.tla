---------------------------- MODULE WakeupProofs ----------------------------
(***************************************************************************)
(* What the wake-up channel and the heartbeat promise, for any number of    *)
(* processes, tenants and events and any broker.                            *)
(***************************************************************************)
EXTENDS Wakeup, TLAPS

\* A hint, and a change to act on, come after the commit of their event.
Committed ==
  \A e \in Events : stage[e] = "new" =>
    /\ stream[e] = "absent" /\ e \notin work
    /\ \A p \in Procs : e \notin told[p] /\ e \notin saw[p]

\* Of what was there when the running sweep began, only the tenants it has yet
\* to visit have something left.
Covered == \A p \in Procs : \A e \in saw[p] \cap work : TenantOf[e] \in sweep[p]

Inv == TypeOK /\ Committed /\ Covered /\ WakeIsNotLost

-----------------------------------------------------------------------------
\* Nothing is committed, hinted or swept at first.
LEMMA InitInv == Init => Inv
<1> SUFFICES ASSUME Init PROVE Inv
  OBVIOUS
<1>0. stage = [e \in Events |-> "new"]
  BY DEF Init, Delivery!Init
<1>1. TypeOK
  BY <1>0, WakeupAssumption DEF Init, TypeOK, Delivery!Stages
<1>2. Committed /\ Covered /\ WakeIsNotLost
  BY <1>0 DEF Init, Committed, Covered, WakeIsNotLost
<1> QED
  BY <1>1, <1>2 DEF Inv

\* The outbox and the broker move no wake-up and no sweep.
LEMMA BrokerInv ==
  ASSUME Inv, NEW e \in Events,
         Commit(e) \/ Publish(e) \/ Settle(e) \/ Lose(e) \/ AckWaitPasses(e)
  PROVE  Inv'
<1> USE WakeupAssumption DEF Delivery!Owe, Delivery!Send, Delivery!Settle, Delivery!Stages
<1>1. CASE Commit(e)
  <2>1. TypeOK'
    BY <1>1 DEF Commit, Inv, TypeOK
  <2>2. stage[e] = "new" /\ \A p \in Procs : e \notin told[p] /\ e \notin saw[p]
    BY <1>1 DEF Commit, Inv, Committed
  <2>3. Committed'
    BY <1>1 DEF Commit, Inv, TypeOK, Committed
  <2>4. Covered' /\ WakeIsNotLost'
    BY <1>1, <2>2 DEF Commit, Inv, Covered, WakeIsNotLost
  <2> QED
    BY <2>1, <2>3, <2>4 DEF Inv
<1>2. CASE Publish(e)
  <2>1. TypeOK' /\ Committed'
    BY <1>2 DEF Publish, Inv, TypeOK, Committed
  <2>2. Covered' /\ WakeIsNotLost'
    BY <1>2 DEF Publish, Inv, Covered, WakeIsNotLost
  <2> QED
    BY <2>1, <2>2 DEF Inv
<1>3. CASE Settle(e)
  <2>1. TypeOK' /\ Committed'
    BY <1>3 DEF Settle, Inv, TypeOK, Committed
  <2>2. Covered' /\ WakeIsNotLost'
    BY <1>3 DEF Settle, Inv, Covered, WakeIsNotLost
  <2> QED
    BY <2>1, <2>2 DEF Inv
<1>4. CASE Lose(e) \/ AckWaitPasses(e)
  <2>1. TypeOK' /\ Committed'
    BY <1>4 DEF Lose, AckWaitPasses, Inv, TypeOK, Committed
  <2>2. Covered' /\ WakeIsNotLost'
    BY <1>4 DEF Lose, AckWaitPasses, Inv, Covered, WakeIsNotLost
  <2> QED
    BY <2>1, <2>2 DEF Inv
<1> QED
  BY <1>1, <1>2, <1>3, <1>4

\* A process that takes a hint has its wake-up pending.
LEMMA ProcessMessageInv ==
  ASSUME Inv, NEW p \in Procs, NEW e \in Events, ProcessMessage(p, e) PROVE Inv'
<1>0. tries' \in [Events -> 0..MaxDeliver]
  <2>1. tries \in [Events -> 0..MaxDeliver] /\ tries[e] < MaxDeliver
    BY DEF Inv, TypeOK, ProcessMessage
  <2>2. tries[e] + 1 \in 0..MaxDeliver /\ 0 \in 0..MaxDeliver
    BY <2>1, WakeupAssumption
  <2>3. tries' = [tries EXCEPT ![e] = 0] \/ tries' = [tries EXCEPT ![e] = tries[e] + 1]
    BY DEF ProcessMessage
  <2> QED
    BY <2>1, <2>2, <2>3
<1>1. TypeOK'
  BY <1>0 DEF ProcessMessage, Inv, TypeOK
<1>2. Committed'
  BY DEF ProcessMessage, Inv, TypeOK, Committed
<1>3. Covered' /\ WakeIsNotLost'
  BY DEF ProcessMessage, Inv, TypeOK, Covered, WakeIsNotLost
<1> QED
  BY <1>1, <1>2, <1>3 DEF Inv

\* A sweep begins with every tenant, and a visit does all there is to do.
LEMMA ReconcilerInv ==
  ASSUME Inv, NEW p \in Procs, Reconciler(p) PROVE Inv'
<1>1. CASE WakeSweep(p) \/ TickSweep(p)
  <2>1. /\ sweep' = [sweep EXCEPT ![p] = Tenants] /\ saw' = [saw EXCEPT ![p] = work]
        /\ UNCHANGED <<stage, stream, tries, up, work, told, faults>>
        /\ wake' = wake \/ wake' = [wake EXCEPT ![p] = FALSE]
    BY <1>1 DEF WakeSweep, TickSweep, Begin
  <2>2. TypeOK'
    BY <2>1 DEF Inv, TypeOK
  <2>3. Committed'
    BY <2>1 DEF Inv, TypeOK, Committed
  <2>4. Covered' /\ WakeIsNotLost'
    BY <2>1, WakeupAssumption DEF Inv, TypeOK, Covered, WakeIsNotLost
  <2> QED
    BY <2>2, <2>3, <2>4 DEF Inv
<1>2. ASSUME NEW t \in Tenants, VisitTenant(p, t) PROVE Inv'
  <2>0. sweep[p] # Between
    BY <1>2, WakeupAssumption DEF VisitTenant, Between
  <2>1. TypeOK'
    BY <1>2, <2>0 DEF VisitTenant, Inv, TypeOK
  <2>2. Committed'
    BY <1>2 DEF VisitTenant, Inv, TypeOK, Committed
  <2>3. Covered' /\ WakeIsNotLost'
    BY <1>2 DEF VisitTenant, Inv, TypeOK, Covered, WakeIsNotLost
  <2> QED
    BY <2>1, <2>2, <2>3 DEF Inv
<1>3. CASE TenantFails(p)
  <2>1. TypeOK'
    BY <1>3 DEF TenantFails, Inv, TypeOK
  <2>2. Committed' /\ Covered' /\ WakeIsNotLost'
    BY <1>3 DEF TenantFails, Inv, TypeOK, Committed, Covered, WakeIsNotLost
  <2> QED
    BY <2>1, <2>2 DEF Inv
<1>4. CASE StoreHeartbeat(p)
  <2>1. TypeOK'
    BY <1>4 DEF StoreHeartbeat, Inv, TypeOK
  <2>2. Committed' /\ Covered' /\ WakeIsNotLost'
    BY <1>4 DEF StoreHeartbeat, Inv, TypeOK, Committed, Covered, WakeIsNotLost
  <2> QED
    BY <2>1, <2>2 DEF Inv
<1> QED
  BY <1>1, <1>2, <1>3, <1>4 DEF Reconciler

\* A crash forgets the hints together with their wake-up.
LEMMA ProcessInv ==
  ASSUME Inv, NEW p \in Procs, Crash(p) \/ Restart(p) PROVE Inv'
<1>0. faults' \in 0..MaxFaults
  <2>1. faults \in 0..MaxFaults /\ MaxFaults \in Nat
    BY WakeupAssumption DEF Inv, TypeOK
  <2>2. faults' = faults \/ (faults < MaxFaults /\ faults' = faults + 1)
    BY DEF Crash, Restart
  <2> QED
    BY <2>1, <2>2
<1>1. CASE Crash(p)
  <2>1. TypeOK'
    BY <1>0, <1>1 DEF Crash, Inv, TypeOK
  <2>2. Committed' /\ Covered' /\ WakeIsNotLost'
    BY <1>1 DEF Crash, Inv, TypeOK, Committed, Covered, WakeIsNotLost
  <2> QED
    BY <2>1, <2>2 DEF Inv
<1>2. CASE Restart(p)
  <2>1. TypeOK'
    BY <1>0, <1>2 DEF Restart, Inv, TypeOK
  <2>2. Committed' /\ Covered' /\ WakeIsNotLost'
    BY <1>2 DEF Restart, Inv, Committed, Covered, WakeIsNotLost
  <2> QED
    BY <2>1, <2>2 DEF Inv
<1> QED
  BY <1>1, <1>2

\* Every step keeps the invariant.
LEMMA NextInv == Inv /\ [Next]_vars => Inv'
<1>1. CASE Inv /\ Next
  BY <1>1, BrokerInv, ProcessMessageInv, ReconcilerInv, ProcessInv DEF Next, Hints
<1>2. CASE Inv /\ UNCHANGED vars
  BY <1>2 DEF vars, Inv, TypeOK, Committed, Covered, WakeIsNotLost
<1> QED
  BY <1>1, <1>2

\* Reconciler.Wake and Run: while the change behind a hint is to be acted on, a
\* wake-up is pending or the running sweep has its tenant still ahead.
THEOREM WakeIsNeverLost == Spec => []WakeIsNotLost
<1>1. Inv => WakeIsNotLost
  BY DEF Inv
<1> QED
  BY <1>1, InitInv, NextInv, PTL DEF Spec

\* Reconciler.Run: a heartbeat is stored only over work that was done.
THEOREM HeartbeatAlwaysMeansSwept == Spec => HeartbeatMeansSwept
<1>1. Inv /\ [Next]_vars =>
        [\A p \in Procs : sweep[p] = {} /\ sweep'[p] # {} /\ up'[p] => saw[p] \cap work = {}]_vars
  BY DEF Inv, Covered
<1> QED
  BY <1>1, InitInv, NextInv, PTL DEF Spec, HeartbeatMeansSwept
=============================================================================
