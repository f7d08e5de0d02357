--------------------------- MODULE TenancyProofs ---------------------------
(***************************************************************************)
(* What tenant commands promise, for any set of people, keys, bundles and   *)
(* requests, and any number of requests in flight.  The argument is the one *)
(* the code relies on: an idempotency key is claimed by one transaction at  *)
(* a time, and what a mutation has checked stays true while it holds its    *)
(* locks.                                                                   *)
(***************************************************************************)
EXTENDS Tenancy, FiniteSetTheorems, TLAPS

\* A client that is under way, or was answered, has sent a request.
Asked ==
  \A p \in Clients : pc[p] # "idle" \/ answer[p] # "none" \/ repeat[p] => req[p] \in Requests

\* A transaction in progress has its idempotency key for itself.
Claimed ==
  /\ \A p \in Clients : InTx(p) => cmds[Command(req[p])] = None
  /\ \A p, q \in Clients :
       InTx(p) /\ InTx(q) /\ Command(req[p]) = Command(req[q]) => p = q

Compatible(r, s) ==
  /\ Exclusive(r) \cap (Exclusive(s) \cup Shared(s)) = {}
  /\ Shared(r) \cap Exclusive(s) = {}

\* Mutations that hold their locks at the same time do not conflict.
Locked ==
  \A p, q \in Clients :
    At(p, "entered") /\ At(q, "entered") /\ p # q => Compatible(req[p], req[q])

\* What a mutation checked under its locks is still so.
StillTrue ==
  \A p \in Clients : At(p, "entered") /\ verdict[p] =>
    /\ req[p].kind \in MemberKinds => MemberCheck(req[p])
    /\ req[p].kind = "rotate" => key[req[p].on] = "live"
    /\ req[p].kind = "activate" => channel.rev = req[p].to

\* Environments and keys come after their organization.
Founded == (env => org = "live") /\ (org = "none" => \A k \in KeyIds : key[k] = "none")

\* A key that does not exist yet is the origin of none but itself.
Lineage ==
  org # "deleted" => \A j, k \in KeyIds : key[k] = "none" /\ root[j] = k => j = k

\* ... and is recorded as its own.
Origin == org # "deleted" => \A k \in KeyIds : key[k] = "none" => root[k] = k

\* A command that ended a key has ended it.
Ended ==
  \A r \in Requests :
    r.kind \in {"rotate", "revoke"} /\ cmds[Command(r)] = Body(r)
      => key[r.on] = "revoked" \/ org = "deleted"

\* A repeat is of a command that is completed, and gets no further than the
\* lookup of completed commands.
Repeated ==
  \A p \in Clients : repeat[p] =>
    /\ cmds[Command(req[p])] = Body(req[p])
    /\ pc[p] \in {"idle", "authenticate", "look up"}

\* A registration that was accepted is in force as long as the organization.
Registered ==
  \A p \in Clients :
    answer[p] = "done" /\ req[p].kind = "register"
      => bound[req[p].on] = req[p].to \/ org = "deleted"

Inv ==
  /\ TypeOK /\ Asked /\ Claimed /\ Locked /\ StillTrue /\ Founded /\ Lineage /\ Origin
  /\ Ended /\ Repeated /\ Registered
  /\ OwnerRemains /\ OneLiveSuccessor /\ AppliedOnce

-----------------------------------------------------------------------------
\* Every request of a scenario is well formed, and its command is one.
LEMMA RequestsWellFormed ==
  \A r \in Requests :
    /\ WellFormed(r) /\ Body(r) # None
    /\ Command(r) \in Commands /\ Body(r) \in {Body(s) : s \in Requests}
BY ScenarioAssumption DEF Requests, Commands, WellFormed, Body

\* A founder is a member like any other.
LEMMA FounderIsMember ==
  /\ [role |-> "Owner", active |-> TRUE] \in Member
  /\ [role |-> "Owner", active |-> TRUE] # None
<1>1. [role |-> "Owner", active |-> TRUE] \in Member
  BY DEF Member, Roles
<1>2. None \notin Member
  BY ScenarioAssumption
<1> QED
  BY <1>1, <1>2

\* The states a scenario starts from satisfy the invariant.
LEMMA InitInv == Init => Inv
<1> SUFFICES ASSUME Init PROVE Inv
  OBVIOUS
<1> PICK c \in Scenarios :
      LET founded == c.from = "founded"
      IN /\ menu = c.requests
         /\ org = IF founded THEN "live" ELSE "none"
         /\ env = founded
         /\ member = [u \in Users |-> IF founded THEN [role |-> "Owner", active |-> TRUE] ELSE None]
         /\ key = [k \in KeyIds |-> IF founded /\ k = 1 THEN "live" ELSE "none"]
  BY DEF Init
<1>1. /\ root = [k \in KeyIds |-> k] /\ bound = [b \in Bundles |-> None]
      /\ channel = [bundle |-> None, rev |-> 0] /\ fleet = [b \in Bundles |-> 2]
      /\ cmds = [x \in Commands |-> None] /\ effects = [x \in Commands |-> 0]
      /\ pc = [p \in Clients |-> "idle"] /\ req = [p \in Clients |-> None]
      /\ verdict = [p \in Clients |-> FALSE] /\ repeat = [p \in Clients |-> FALSE]
      /\ answer = [p \in Clients |-> "none"]
  BY DEF Init
<1>2. TypeOK
  BY <1>1 DEF TypeOK, Requests, Member, Roles
<1>3. Asked /\ Claimed /\ Locked /\ StillTrue /\ Repeated /\ Registered
  BY <1>1 DEF Asked, Claimed, Locked, StillTrue, Repeated, Registered, InTx, At
<1>4. Founded /\ Lineage /\ Origin /\ OneLiveSuccessor
  BY <1>1 DEF Founded, Lineage, Origin, OneLiveSuccessor, LiveKeys
<1>5. Ended
  BY <1>1, RequestsWellFormed DEF Ended
<1>6. OwnerRemains
  <2> SUFFICES ASSUME org = "live" PROVE ActiveOwners # {}
    BY DEF OwnerRemains
  <2> PICK u \in Users : TRUE
    BY ScenarioAssumption
  <2> u \in ActiveOwners
    BY FounderIsMember DEF ActiveOwners
  <2> QED
    OBVIOUS
<1>7. AppliedOnce
  BY <1>1 DEF AppliedOnce
<1> QED
  BY <1>2, <1>3, <1>4, <1>5, <1>6, <1>7 DEF Inv

-----------------------------------------------------------------------------
\* A step in which client p goes from one stage to another and nothing that
\* the database keeps changes: Authenticate, LookUp, Authorize, Claim, Refuse
\* and Fail.
Moves(p) ==
  Authenticate(p) \/ LookUp(p) \/ Authorize(p) \/ Claim(p) \/ Refuse(p) \/ Fail(p)

\* Such a step changes the stage and the answer of p alone; it enters a
\* transaction only with the key claimed, and no client that repeats gets past
\* the lookup.
LEMMA MovesAlone ==
  ASSUME Inv, NEW p \in Clients, Moves(p)
  PROVE  /\ Quiet
         /\ pc' \in [Clients -> {"idle", "authenticate", "look up", "authorize", "claim",
                                "claimed", "entered"}]
         /\ \A q \in Clients \ {p} : pc'[q] = pc[q] /\ answer'[q] = answer[q]
         /\ pc'[p] # "entered" /\ pc[p] # "idle" /\ req[p] \in Requests
         /\ answer' \in [Clients -> {"none", "done", "replayed", "conflict", "unauthorized",
                                    "forbidden", "refused", "failed"}]
         /\ InTx(p)' => Claim(p) /\ ~Completed(p)
         /\ \/ answer'[p] = answer[p]
            \/ answer'[p] = "replayed" /\ cmds[Command(req[p])] = Body(req[p])
            \/ answer'[p] \in {"conflict", "unauthorized", "forbidden", "refused", "failed"}
<1> USE DEF Inv, TypeOK, Goto, Answer, Replay, At, InTx
<1>0. pc[p] # "idle" => req[p] \in Requests
  BY DEF Asked
<1>1. CASE Authenticate(p)
  <2>1. \/ Goto(p, "look up") \/ Replay(p) \/ Answer(p, "unauthorized")
    BY <1>1 DEF Authenticate
  <2>2. Quiet /\ pc[p] = "authenticate"
    BY <1>1 DEF Authenticate
  <2> QED
    BY <1>0, <2>1, <2>2
<1>2. CASE LookUp(p)
  BY <1>0, <1>2 DEF LookUp
<1>3. CASE Authorize(p)
  BY <1>0, <1>3 DEF Authorize
<1>4. CASE Claim(p)
  BY <1>0, <1>4 DEF Claim
<1>5. CASE Refuse(p)
  BY <1>0, <1>5 DEF Refuse
<1>6. CASE Fail(p)
  BY <1>0, <1>6 DEF Fail
<1> QED
  BY <1>1, <1>2, <1>3, <1>4, <1>5, <1>6 DEF Moves

\* A mutation happens in a transaction that has entered and whose checks
\* passed, and records its outcome.
LEMMA MutationRecords ==
  ASSUME Inv, NEW p \in Clients, Mutation(p)
  PROVE  /\ At(p, "entered") /\ verdict[p] /\ Record(p)
         /\ req[p] \in Requests /\ cmds[Command(req[p])] = None
BY DEF Mutation, Entered, CreateOrganization, UpdateOrganization, DeleteOrganization,
       AddMember, UpdateMemberRole, UpdateMemberStatus, RemoveMember, CreateEnvironment,
       CreateAPIKey, RotateAPIKey, RevokeAPIKey, Register, Activate,
       Inv, Asked, Claimed, InTx, At

\* The steps there are.
LEMMA Steps ==
  ASSUME Next
  PROVE  \/ FleetChanges
         \/ \E p \in Clients : Send(p) \/ Moves(p) \/ Enter(p) \/ Mutation(p)
BY DEF Next, Step, Moves

-----------------------------------------------------------------------------
\* What Record writes is typed, and concerns p and its command alone.
LEMMA RecordTyped ==
  ASSUME Inv, NEW p \in Clients, req[p] \in Requests, Record(p)
  PROVE  /\ cmds' \in [Commands -> {Body(r) : r \in Requests} \cup {None}]
         /\ effects' \in [Commands -> Nat]
         /\ pc' \in [Clients -> {"idle", "authenticate", "look up", "authorize", "claim",
                                "claimed", "entered"}]
         /\ answer' \in [Clients -> {"none", "done", "replayed", "conflict", "unauthorized",
                                    "forbidden", "refused", "failed"}]
         /\ cmds'[Command(req[p])] = Body(req[p])
         /\ effects'[Command(req[p])] = effects[Command(req[p])] + 1
         /\ \A x \in Commands \ {Command(req[p])} : cmds'[x] = cmds[x] /\ effects'[x] = effects[x]
         /\ pc'[p] = "idle" /\ answer'[p] = "done"
         /\ \A q \in Clients \ {p} : pc'[q] = pc[q] /\ answer'[q] = answer[q]
         /\ UNCHANGED <<menu, fleet, req, verdict, repeat>>
<1>1. Command(req[p]) \in Commands /\ Body(req[p]) \in {Body(r) : r \in Requests}
  BY RequestsWellFormed
<1>2. UNCHANGED <<menu, fleet, req, verdict, repeat>>
  BY DEF Record
<1>3. /\ cmds' \in [Commands -> {Body(r) : r \in Requests} \cup {None}]
      /\ cmds'[Command(req[p])] = Body(req[p])
      /\ \A x \in Commands \ {Command(req[p])} : cmds'[x] = cmds[x]
  BY <1>1 DEF Record, Inv, TypeOK
<1>4. /\ effects' \in [Commands -> Nat]
      /\ effects'[Command(req[p])] = effects[Command(req[p])] + 1
      /\ \A x \in Commands \ {Command(req[p])} : effects'[x] = effects[x]
  <2> PICK c \in Commands : c = Command(req[p])
    BY <1>1
  <2>1. effects' = [effects EXCEPT ![c] = effects[c] + 1]
    BY DEF Record
  <2>2. effects \in [Commands -> Nat]
    BY DEF Inv, TypeOK
  <2>3. effects[c] + 1 \in Nat
    BY <2>2
  <2> QED
    BY <2>1, <2>2, <2>3
<1>5. pc' = [pc EXCEPT ![p] = "idle"] /\ answer' = [answer EXCEPT ![p] = "done"]
  BY DEF Record, Answer
<1> QED
  BY <1>2, <1>3, <1>4, <1>5 DEF Inv, TypeOK

\* The rows a mutation writes have their types.
LEMMA MutationTyped ==
  ASSUME Inv, NEW p \in Clients, Mutation(p)
  PROVE  /\ org' \in {"none", "live", "deleted"} /\ env' \in BOOLEAN
         /\ member' \in [Users -> Member \cup {None}]
         /\ key' \in [KeyIds -> {"none", "live", "revoked"}] /\ root' \in [KeyIds -> KeyIds]
         /\ bound' \in [Bundles -> Hashes \cup {None}]
         /\ channel' \in [bundle : Bundles \cup {None}, rev : Nat]
<1> DEFINE r == req[p]
<1>0. WellFormed(r) /\ r \in Requests /\ At(p, "entered") /\ verdict[p]
  BY MutationRecords, RequestsWellFormed
<1> HIDE DEF r
<1>a. channel.rev + 1 \in Nat
  <2>1. channel.rev \in Nat
    BY DEF Inv, TypeOK
  <2> QED
    BY <2>1
<1> USE DEF Inv, TypeOK
<1>1. CASE CreateOrganization(p)
  <2>1. member' = [member EXCEPT ![r.actor] = [role |-> "Owner", active |-> TRUE]]
    BY <1>1 DEF CreateOrganization, r
  <2> QED
    BY <1>1, <2>1, FounderIsMember DEF CreateOrganization
<1>2. CASE UpdateOrganization(p)
  BY <1>2 DEF UpdateOrganization, data
<1>3. CASE DeleteOrganization(p)
  BY <1>3 DEF DeleteOrganization
<1>4. CASE AddMember(p)
  <2>1. r.kind = "add" /\ member' = [member EXCEPT ![r.on] = [role |-> r.to, active |-> TRUE]]
    BY <1>4 DEF AddMember, Entered, r
  <2>2. [role |-> r.to, active |-> TRUE] \in Member
    BY <1>0, <2>1 DEF WellFormed, Member
  <2>3. member' \in [Users -> Member \cup {None}]
    BY <2>1, <2>2
  <2>4. UNCHANGED <<org, env, key, root, bound, channel>>
    BY <1>4 DEF AddMember
  <2> QED
    BY <2>3, <2>4
<1>5. CASE UpdateMemberRole(p)
  <2>1. r.kind = "role" /\ member' = [member EXCEPT ![r.on].role = r.to]
    BY <1>5 DEF UpdateMemberRole, Entered, r
  <2>2. MemberCheck(r) /\ r.on \in Users /\ r.to \in Roles
    BY <1>0, <2>1 DEF StillTrue, MemberKinds, WellFormed, r
  <2>3. member[r.on] \in Member
    BY <2>2 DEF MemberCheck
  <2>4. [member[r.on] EXCEPT !.role = r.to] \in Member
    BY <2>2, <2>3 DEF Member
  <2> QED
    BY <1>5, <2>1, <2>2, <2>4 DEF UpdateMemberRole
<1>6. CASE UpdateMemberStatus(p)
  <2>1. r.kind = "status" /\ member' = [member EXCEPT ![r.on].active = (r.to = "ACTIVE")]
    BY <1>6 DEF UpdateMemberStatus, Entered, r
  <2>2. MemberCheck(r) /\ r.on \in Users
    BY <1>0, <2>1 DEF StillTrue, MemberKinds, WellFormed, r
  <2>3. member[r.on] \in Member
    BY <2>2 DEF MemberCheck
  <2>4. [member[r.on] EXCEPT !.active = (r.to = "ACTIVE")] \in Member
    BY <2>3 DEF Member
  <2>5. member' \in [Users -> Member \cup {None}]
    BY <2>1, <2>2, <2>4
  <2> QED
    BY <1>6, <2>5 DEF UpdateMemberStatus
<1>7. CASE RemoveMember(p)
  BY <1>7 DEF RemoveMember
<1>8. CASE CreateEnvironment(p)
  BY <1>8 DEF CreateEnvironment
<1>9. CASE CreateAPIKey(p)
  BY <1>9 DEF CreateAPIKey, Fresh
<1>10. CASE RotateAPIKey(p)
  <2>1. r.on \in KeyIds
    BY <1>0, <1>10 DEF RotateAPIKey, Entered, WellFormed, r
  <2> PICK k \in Fresh : /\ key' = [key EXCEPT ![r.on] = "revoked", ![k] = "live"]
                         /\ root' = [root EXCEPT ![k] = root[r.on]]
    BY <1>10 DEF RotateAPIKey, r
  <2> QED
    BY <1>10, <2>1 DEF RotateAPIKey, Fresh
<1>11. CASE RevokeAPIKey(p)
  BY <1>11 DEF RevokeAPIKey
<1>12. CASE Register(p)
  <2>1. r.kind = "register" /\ bound' = [bound EXCEPT ![r.on] = r.to]
    BY <1>12 DEF Register, Entered, r
  <2>2. r.to \in Hashes
    BY <1>0, <2>1 DEF Hashes
  <2> QED
    BY <1>12, <2>1, <2>2 DEF Register
<1>13. CASE Activate(p)
  <2>1. r.kind = "activate" /\ channel' = [bundle |-> r.on, rev |-> channel.rev + 1]
    BY <1>13 DEF Activate, Entered, r
  <2>2. r.on \in Bundles
    BY <1>0, <2>1 DEF WellFormed
  <2>4. channel' \in [bundle : Bundles \cup {None}, rev : Nat]
    BY <1>a, <2>1, <2>2
  <2> QED
    BY <1>13, <2>4 DEF Activate
<1> QED
  BY <1>1, <1>2, <1>3, <1>4, <1>5, <1>6, <1>7, <1>8, <1>9, <1>10, <1>11, <1>12, <1>13
  DEF Mutation

-----------------------------------------------------------------------------
\* Types, and requests under way.
LEMMA NextTyped ==
  ASSUME Inv, Next PROVE TypeOK' /\ Asked'
<1>1. CASE FleetChanges
  <2> PICK b \in Bundles : fleet' = [fleet EXCEPT ![b] = IF @ = 2 THEN 1 ELSE 2]
    BY <1>1 DEF FleetChanges
  <2>0. fleet \in [Bundles -> 1..2]
    BY DEF Inv, TypeOK
  <2>1. fleet' \in [Bundles -> 1..2]
    BY <2>0
  <2> QED
    BY <1>1, <2>1 DEF FleetChanges, Inv, TypeOK, Asked, data
<1>2. ASSUME NEW p \in Clients, Send(p) PROVE TypeOK' /\ Asked'
  <2> PICK r \in menu : /\ req' = [req EXCEPT ![p] = r]
                        /\ repeat' = [repeat EXCEPT ![p] = cmds[Command(r)] = Body(r)]
    BY <1>2 DEF Send
  <2>1. r \in Requests
    BY DEF Inv, TypeOK
  <2>2. /\ req' \in [Clients -> Requests \cup {None}] /\ repeat' \in [Clients -> BOOLEAN]
        /\ req'[p] \in Requests
        /\ \A q \in Clients \ {p} : req'[q] = req[q] /\ repeat'[q] = repeat[q]
    BY <2>1 DEF Inv, TypeOK
  <2>3. /\ pc' \in [Clients -> {"idle", "authenticate", "look up", "authorize", "claim",
                               "claimed", "entered"}]
        /\ answer' \in [Clients -> {"none", "done", "replayed", "conflict", "unauthorized",
                                   "forbidden", "refused", "failed"}]
        /\ \A q \in Clients \ {p} : pc'[q] = pc[q] /\ answer'[q] = answer[q]
    BY <1>2 DEF Send, Inv, TypeOK
  <2> QED
    BY <1>2, <2>2, <2>3 DEF Send, Inv, TypeOK, Asked, data
<1>3. ASSUME NEW p \in Clients, Moves(p) PROVE TypeOK' /\ Asked'
  BY <1>3, MovesAlone DEF Quiet, Inv, TypeOK, Asked, data
<1>4. ASSUME NEW p \in Clients, Enter(p) PROVE TypeOK' /\ Asked'
  <2>1. Check(req[p]) \in BOOLEAN
    <3>1. MemberCheck(req[p]) \in BOOLEAN /\ ActivateCheck(req[p]) \in BOOLEAN
      BY DEF MemberCheck, ActivateCheck
    <3>2. env \in BOOLEAN
      BY DEF Inv, TypeOK
    <3> QED
      BY <3>1, <3>2 DEF Check
  <2> QED
    BY <1>4, <2>1 DEF Enter, Goto, At, Inv, TypeOK, Asked, data
<1>5. ASSUME NEW p \in Clients, Mutation(p) PROVE TypeOK' /\ Asked'
  <2>1. req[p] \in Requests /\ Record(p)
    BY <1>5, MutationRecords
  <2>2. TypeOK'
    <3>1. /\ menu \subseteq Requests /\ fleet \in [Bundles -> 1..2]
          /\ req \in [Clients -> Requests \cup {None}]
          /\ verdict \in [Clients -> BOOLEAN] /\ repeat \in [Clients -> BOOLEAN]
      BY DEF Inv, TypeOK
    <3>2. UNCHANGED <<menu, fleet, req, verdict, repeat>>
      BY <2>1, RecordTyped
    <3> QED
      BY <1>5, <2>1, <3>1, <3>2, MutationTyped, RecordTyped DEF TypeOK
  <2>3. Asked'
    <3>1. /\ pc'[p] = "idle" /\ req' = req /\ repeat' = repeat
          /\ \A q \in Clients \ {p} : pc'[q] = pc[q] /\ answer'[q] = answer[q]
      BY <2>1, RecordTyped
    <3> QED
      BY <2>1, <3>1 DEF Inv, Asked
  <2> QED
    BY <2>2, <2>3
<1> QED
  BY <1>1, <1>2, <1>3, <1>4, <1>5, Steps

\* Claimed keys and locks.
LEMMA NextLocked ==
  ASSUME Inv, Next PROVE Claimed' /\ Locked'
<1> USE DEF InTx, At
<1>1. CASE FleetChanges
  BY <1>1 DEF FleetChanges, Inv, Claimed, Locked
<1>2. ASSUME NEW p \in Clients, Send(p) PROVE Claimed' /\ Locked'
  <2>1. \A q \in Clients : IF q = p THEN pc'[q] = "authenticate"
                           ELSE pc'[q] = pc[q] /\ req'[q] = req[q]
    BY <1>2 DEF Send, Inv, TypeOK
  <2>2. cmds' = cmds
    BY <1>2 DEF Send
  <2> QED
    BY <2>1, <2>2 DEF Inv, Claimed, Locked
<1>3. ASSUME NEW p \in Clients, Moves(p) PROVE Claimed' /\ Locked'
  <2>0. /\ req' = req /\ cmds' = cmds /\ pc'[p] # "entered"
        /\ \A q \in Clients \ {p} : pc'[q] = pc[q]
    BY <1>3, MovesAlone DEF Quiet
  <2>1. Locked'
    BY <2>0 DEF Inv, Locked
  <2>2. CASE ~InTx(p)'
    BY <2>0, <2>1, <2>2 DEF Inv, Claimed
  <2>3. CASE InTx(p)'
    <3>1. Claim(p) /\ ~Completed(p)
      BY <1>3, <2>3, MovesAlone
    <3>2. /\ cmds[Command(req[p])] = None
          /\ \A q \in Clients \ {p} : InTx(q) => Command(req[q]) # Command(req[p])
      BY <3>1 DEF Claim, Completed
    <3> QED
      BY <2>0, <2>1, <3>2 DEF Inv, Claimed
  <2> QED
    BY <2>1, <2>2, <2>3
<1>4. ASSUME NEW p \in Clients, Enter(p) PROVE Claimed' /\ Locked'
  <2>1. /\ pc[p] = "claimed" /\ pc'[p] = "entered" /\ req' = req /\ cmds' = cmds
        /\ \A q \in Clients \ {p} : pc'[q] = pc[q]
    BY <1>4 DEF Enter, Goto, Inv, TypeOK
  <2>2. Claimed'
    BY <2>1 DEF Inv, Claimed
  <2>3. \A q \in Clients \ {p} :
          pc[q] = "entered" => Compatible(req[p], req[q]) /\ Compatible(req[q], req[p])
    BY <1>4 DEF Enter, Free, Compatible
  <2> QED
    BY <2>1, <2>2, <2>3 DEF Inv, Locked
<1>5. ASSUME NEW p \in Clients, Mutation(p) PROVE Claimed' /\ Locked'
  <2>1. req[p] \in Requests /\ Record(p) /\ pc[p] = "entered"
    BY <1>5, MutationRecords
  <2>2. /\ pc'[p] = "idle" /\ req' = req
        /\ \A q \in Clients \ {p} : pc'[q] = pc[q]
        /\ \A x \in Commands \ {Command(req[p])} : cmds'[x] = cmds[x]
    BY <2>1, RecordTyped
  <2>3. \A q \in Clients : pc[q] # "idle" => Command(req[q]) \in Commands
    BY RequestsWellFormed DEF Inv, Asked
  <2> QED
    BY <2>1, <2>2, <2>3 DEF Inv, Claimed, Locked
<1> QED
  BY <1>1, <1>2, <1>3, <1>4, <1>5, Steps

-----------------------------------------------------------------------------
\* The locks of a mutation keep what it has checked from the others.
LEMMA Untouched ==
  ASSUME Inv, NEW p \in Clients, NEW q \in Clients, p # q, Mutation(p),
         At(q, "entered"), verdict[q]
  PROVE  /\ req[q].kind \in MemberKinds => org' = org /\ member' = member
         /\ req[q].kind = "rotate" => key'[req[q].on] = "live"
         /\ req[q].kind = "activate" => channel' = channel
<1>1. Compatible(req[p], req[q]) /\ Compatible(req[q], req[p])
  BY MutationRecords DEF Inv, Locked
<1>2. WellFormed(req[p]) /\ WellFormed(req[q])
  BY MutationRecords, RequestsWellFormed DEF Inv, Asked, At
<1>3. ASSUME req[q].kind \in MemberKinds PROVE org' = org /\ member' = member
  <2>1. org = "live"
    BY <1>3 DEF Inv, StillTrue, MemberCheck
  <2>2. Organization \in Exclusive(req[q])
    BY <1>3 DEF Exclusive, MemberKinds
  <2>3. Organization \notin Exclusive(req[p]) /\ Organization \notin Shared(req[p])
    BY <1>1, <2>2 DEF Compatible
  <2>4. req[p].kind \notin MemberKinds \cup {"rename", "delete", "add", "environment"}
    BY <2>3 DEF Exclusive, Shared, MemberKinds
  <2> QED
    BY <2>1, <2>4 DEF Mutation, Entered, CreateOrganization, UpdateOrganization,
       DeleteOrganization, AddMember, UpdateMemberRole, UpdateMemberStatus, RemoveMember,
       CreateEnvironment, CreateAPIKey, RotateAPIKey, RevokeAPIKey, Register, Activate,
       MemberKinds
<1>4. ASSUME req[q].kind = "rotate" PROVE key'[req[q].on] = "live"
  <2> PICK k \in KeyIds : k = req[q].on /\ key[k] = "live"
    BY <1>2, <1>4 DEF WellFormed, Inv, StillTrue
  <2>1. Exclusive(req[q]) = {Key(k)} /\ Shared(req[q]) = {Environment}
    BY <1>4 DEF Exclusive, Shared, MemberKinds
  <2>2. Environment \notin Exclusive(req[p]) /\ Key(k) \notin Exclusive(req[p])
    BY <1>1, <2>1 DEF Compatible
  <2>3. req[p].kind # "delete"
    BY <2>2 DEF Exclusive, MemberKinds
  <2>4. req[p].kind = "rotate" => req[p].on # k
    BY <2>2 DEF Exclusive, MemberKinds
  <2>5. key \in [KeyIds -> {"none", "live", "revoked"}]
    BY DEF Inv, TypeOK
  <2>6. CASE RotateAPIKey(p)
    <3> PICK n \in Fresh : key' = [key EXCEPT ![req[p].on] = "revoked", ![n] = "live"]
      BY <2>6 DEF RotateAPIKey
    <3> QED
      BY <2>4, <2>5, <2>6 DEF RotateAPIKey, Entered, Fresh
  <2>7. CASE RevokeAPIKey(p)
    <3>1. Key(req[p].on) # Key(k)
      BY <2>1, <2>7 DEF RevokeAPIKey
    <3> QED
      BY <2>5, <2>7, <3>1 DEF RevokeAPIKey
  <2>8. CASE CreateAPIKey(p)
    BY <2>5, <2>8 DEF CreateAPIKey, Fresh
  <2>9. CASE key' = key
    BY <2>9
  <2> QED
    BY <2>3, <2>6, <2>7, <2>8, <2>9 DEF Mutation, Entered, CreateOrganization,
       UpdateOrganization, data, DeleteOrganization, AddMember, UpdateMemberRole,
       UpdateMemberStatus, RemoveMember, CreateEnvironment, Register, Activate
<1>5. ASSUME req[q].kind = "activate" PROVE channel' = channel
  <2>1. Environment \in Exclusive(req[q])
    BY <1>5 DEF Exclusive, MemberKinds
  <2>2. Environment \notin Exclusive(req[p])
    BY <1>1, <2>1 DEF Compatible
  <2>3. req[p].kind \notin {"delete", "activate"}
    BY <2>2 DEF Exclusive, MemberKinds
  <2> QED
    BY <2>3 DEF Mutation, Entered, CreateOrganization, UpdateOrganization, data,
       DeleteOrganization, AddMember, UpdateMemberRole, UpdateMemberStatus, RemoveMember,
       CreateEnvironment, CreateAPIKey, RotateAPIKey, RevokeAPIKey, Register, Activate
<1> QED
  BY <1>3, <1>4, <1>5

\* What mutations have checked stays true until they commit.
LEMMA NextStillTrue ==
  ASSUME Inv, Next PROVE StillTrue'
<1> USE DEF At
<1>1. CASE FleetChanges
  BY <1>1 DEF FleetChanges, data, Inv, StillTrue, MemberCheck, LastOwner, ActiveOwners
<1>2. ASSUME NEW p \in Clients, Send(p) PROVE StillTrue'
  <2>1. \A q \in Clients : IF q = p THEN pc'[q] = "authenticate"
                           ELSE pc'[q] = pc[q] /\ req'[q] = req[q]
    BY <1>2 DEF Send, Inv, TypeOK
  <2>2. UNCHANGED <<data, verdict>>
    BY <1>2 DEF Send
  <2> QED
    BY <2>1, <2>2 DEF data, Inv, StillTrue, MemberCheck, LastOwner, ActiveOwners
<1>3. ASSUME NEW p \in Clients, Moves(p) PROVE StillTrue'
  <2>1. /\ UNCHANGED <<data, req, verdict>> /\ pc'[p] # "entered"
        /\ \A q \in Clients \ {p} : pc'[q] = pc[q]
    BY <1>3, MovesAlone DEF Quiet
  <2> QED
    BY <2>1 DEF data, Inv, StillTrue, MemberCheck, LastOwner, ActiveOwners
<1>4. ASSUME NEW p \in Clients, Enter(p) PROVE StillTrue'
  <2>1. /\ UNCHANGED <<data, req>>
        /\ verdict'[p] = Check(req[p])
        /\ \A q \in Clients \ {p} : pc'[q] = pc[q] /\ verdict'[q] = verdict[q]
    BY <1>4 DEF Enter, Goto, Inv, TypeOK
  <2>2. Check(req[p]) => /\ req[p].kind \in MemberKinds => MemberCheck(req[p])
                         /\ req[p].kind = "rotate" => key[req[p].on] = "live"
                         /\ req[p].kind = "activate" => channel.rev = req[p].to
    BY DEF Check, ActivateCheck, MemberKinds
  <2>3. \A r : MemberCheck(r)' <=> MemberCheck(r)
    BY <2>1 DEF data, MemberCheck, LastOwner, ActiveOwners
  <2>4. key' = key /\ channel' = channel /\ req' = req
    BY <2>1 DEF data
  <2> SUFFICES ASSUME NEW q \in Clients, pc'[q] = "entered", verdict'[q]
               PROVE  /\ req[q].kind \in MemberKinds => MemberCheck(req[q])
                      /\ req[q].kind = "rotate" => key[req[q].on] = "live"
                      /\ req[q].kind = "activate" => channel.rev = req[q].to
    BY <2>3, <2>4 DEF StillTrue
  <2>5. CASE q = p
    BY <2>1, <2>2, <2>5
  <2>6. CASE q # p
    BY <2>1, <2>6 DEF Inv, StillTrue
  <2> QED
    BY <2>5, <2>6
<1>5. ASSUME NEW p \in Clients, Mutation(p) PROVE StillTrue'
  <2>1. req[p] \in Requests /\ Record(p)
    BY <1>5, MutationRecords
  <2>2. /\ pc'[p] = "idle" /\ req' = req /\ verdict' = verdict
        /\ \A q \in Clients \ {p} : pc'[q] = pc[q]
    BY <2>1, RecordTyped
  <2> SUFFICES ASSUME NEW q \in Clients, q # p, pc[q] = "entered", verdict[q]
               PROVE  /\ req[q].kind \in MemberKinds => MemberCheck(req[q])'
                      /\ req[q].kind = "rotate" => key'[req[q].on] = "live"
                      /\ req[q].kind = "activate" => channel'.rev = req[q].to
    BY <2>2 DEF StillTrue
  <2>3. /\ req[q].kind \in MemberKinds => org' = org /\ member' = member
        /\ req[q].kind = "rotate" => key'[req[q].on] = "live"
        /\ req[q].kind = "activate" => channel' = channel
    BY <1>5, Untouched
  <2> QED
    BY <2>2, <2>3 DEF Inv, StillTrue, MemberCheck, LastOwner, ActiveOwners
<1> QED
  BY <1>1, <1>2, <1>3, <1>4, <1>5, Steps

-----------------------------------------------------------------------------
\* Only mutations change rows.
LEMMA OthersKeepRows ==
  ASSUME Inv, Next
  PROVE  UNCHANGED <<data, cmds, effects>> \/ \E p \in Clients : Mutation(p)
<1>1. ASSUME NEW p \in Clients, Moves(p) PROVE UNCHANGED <<data, cmds, effects>>
  BY <1>1, MovesAlone DEF Quiet
<1> QED
  BY <1>1, Steps DEF FleetChanges, Send, Enter

\* Somebody else owns the organization when an owner who is not the last is
\* demoted, suspended or removed.
LEMMA AnotherOwner ==
  ASSUME NEW u \in ActiveOwners, ~LastOwner(u)
  PROVE  \E v \in ActiveOwners : v # u
<1> SUFFICES ASSUME ActiveOwners = {u} PROVE FALSE
  OBVIOUS
<1>1. Cardinality(ActiveOwners) = 1
  BY FS_Singleton
<1> QED
  BY <1>1 DEF LastOwner

\* The last owner stays.
LEMMA NextOwners ==
  ASSUME Inv, Next PROVE OwnerRemains'
<1>1. CASE UNCHANGED <<data, cmds, effects>>
  BY <1>1 DEF data, Inv, OwnerRemains, ActiveOwners
<1>2. ASSUME NEW p \in Clients, Mutation(p) PROVE OwnerRemains'
  <2>0. WellFormed(req[p]) /\ At(p, "entered") /\ verdict[p]
    BY <1>2, MutationRecords, RequestsWellFormed
  <2>m. member \in [Users -> Member \cup {None}]
    BY DEF Inv, TypeOK
  <2>1. CASE CreateOrganization(p)
    <3>1. req[p].actor \in Users
      BY <2>0, <2>1 DEF CreateOrganization, Entered, WellFormed
    <3>2. member'[req[p].actor] = [role |-> "Owner", active |-> TRUE]
      BY <2>1, <2>m, <3>1 DEF CreateOrganization
    <3>3. req[p].actor \in ActiveOwners'
      BY <3>1, <3>2, FounderIsMember DEF ActiveOwners
    <3> QED
      BY <3>3 DEF OwnerRemains
  <2>2. CASE DeleteOrganization(p)
    BY <2>2 DEF DeleteOrganization, OwnerRemains
  <2>3. CASE AddMember(p)
    <3>1. \A u \in Users : member[u] # None => member'[u] = member[u]
      BY <2>3, <2>m DEF AddMember
    <3>2. org' = org
      BY <2>3 DEF AddMember
    <3> QED
      BY <3>1, <3>2 DEF Inv, OwnerRemains, ActiveOwners
  <2>4. ASSUME req[p].kind \in MemberKinds, org' = org,
               \A u \in Users : u # req[p].on => member'[u] = member[u],
               req[p].on \in ActiveOwners =>
                 \/ ~LastOwner(req[p].on) \/ req[p].on \in ActiveOwners'
        PROVE  OwnerRemains'
    <3> SUFFICES ASSUME org = "live" PROVE ActiveOwners' # {}
      BY <2>4 DEF OwnerRemains
    <3>1. ActiveOwners # {}
      BY DEF Inv, OwnerRemains
    <3>2. CASE req[p].on \in ActiveOwners /\ ~LastOwner(req[p].on)
      <4> PICK v \in ActiveOwners : v # req[p].on
        BY <3>2, AnotherOwner
      <4>1. v \in ActiveOwners'
        BY <2>4 DEF ActiveOwners
      <4> QED
        BY <4>1
    <3>3. CASE req[p].on \notin ActiveOwners
      <4> PICK v \in ActiveOwners : TRUE
        BY <3>1
      <4>1. v \in ActiveOwners'
        BY <2>4, <3>3 DEF ActiveOwners
      <4> QED
        BY <4>1
    <3> QED
      BY <2>4, <3>2, <3>3
  <2>5. req[p].kind \in MemberKinds => MemberCheck(req[p]) /\ req[p].on \in Users
    BY <2>0 DEF Inv, StillTrue, WellFormed, MemberKinds
  <2>6. CASE UpdateMemberRole(p)
    <3>1. /\ req[p].kind = "role" /\ org' = org
          /\ member' = [member EXCEPT ![req[p].on].role = req[p].to]
      BY <2>6 DEF UpdateMemberRole, Entered
    <3>2. MemberCheck(req[p]) /\ req[p].on \in Users
      BY <2>5, <3>1 DEF MemberKinds
    <3>3. ASSUME req[p].on \in ActiveOwners, LastOwner(req[p].on)
          PROVE  req[p].on \in ActiveOwners'
      <4>1. req[p].to = "Owner"
        BY <3>1, <3>2, <3>3 DEF MemberCheck
      <4>2. member[req[p].on] \in Member /\ member[req[p].on].active
        BY <2>m, <3>2, <3>3 DEF ActiveOwners
      <4>3. member'[req[p].on] = [member[req[p].on] EXCEPT !.role = "Owner"]
        BY <2>m, <3>1, <3>2, <4>1
      <4>4. [member[req[p].on] EXCEPT !.role = "Owner"] \in Member
        BY <4>2 DEF Member, Roles
      <4>5. member'[req[p].on].role = "Owner" /\ member'[req[p].on].active
        BY <4>2, <4>3 DEF Member
      <4>6. member'[req[p].on] # None
        BY <4>3, <4>4, ScenarioAssumption
      <4> QED
        BY <3>2, <4>5, <4>6 DEF ActiveOwners
    <3>4. \A u \in Users : u # req[p].on => member'[u] = member[u]
      BY <2>m, <3>1
    <3> QED
      BY <2>4, <3>1, <3>3, <3>4 DEF MemberKinds
  <2>7. CASE UpdateMemberStatus(p)
    <3>1. /\ req[p].kind = "status" /\ org' = org
          /\ member' = [member EXCEPT ![req[p].on].active = (req[p].to = "ACTIVE")]
      BY <2>7 DEF UpdateMemberStatus, Entered
    <3>2. MemberCheck(req[p]) /\ req[p].on \in Users
      BY <2>5, <3>1 DEF MemberKinds
    <3>3. ASSUME req[p].on \in ActiveOwners, LastOwner(req[p].on)
          PROVE  req[p].on \in ActiveOwners'
      <4>1. (req[p].to = "ACTIVE") = TRUE
        BY <3>1, <3>2, <3>3 DEF MemberCheck
      <4>2. member[req[p].on] \in Member /\ member[req[p].on].role = "Owner"
        BY <2>m, <3>2, <3>3 DEF ActiveOwners
      <4>3. member'[req[p].on] = [member[req[p].on] EXCEPT !.active = TRUE]
        BY <2>m, <3>1, <3>2, <4>1
      <4>4. [member[req[p].on] EXCEPT !.active = TRUE] \in Member
        BY <4>2 DEF Member
      <4>5. member'[req[p].on].role = "Owner" /\ member'[req[p].on].active
        BY <4>2, <4>3 DEF Member
      <4>6. member'[req[p].on] # None
        BY <4>3, <4>4, ScenarioAssumption
      <4> QED
        BY <3>2, <4>5, <4>6 DEF ActiveOwners
    <3>4. \A u \in Users : u # req[p].on => member'[u] = member[u]
      BY <2>m, <3>1
    <3> QED
      BY <2>4, <3>1, <3>3, <3>4 DEF MemberKinds
  <2>8. CASE RemoveMember(p)
    <3>1. /\ req[p].kind = "remove" /\ org' = org
          /\ member' = [member EXCEPT ![req[p].on] = None]
      BY <2>8 DEF RemoveMember, Entered
    <3>2. ~LastOwner(req[p].on)
      BY <2>5, <3>1 DEF MemberKinds, MemberCheck
    <3>3. \A u \in Users : u # req[p].on => member'[u] = member[u]
      BY <2>m, <3>1
    <3> QED
      BY <2>4, <3>1, <3>2, <3>3 DEF MemberKinds
  <2>9. CASE UNCHANGED <<org, member>>
    BY <2>9 DEF Inv, OwnerRemains, ActiveOwners
  <2> QED
    BY <1>2, <2>1, <2>2, <2>3, <2>6, <2>7, <2>8, <2>9
    DEF Mutation, UpdateOrganization, data, CreateEnvironment, CreateAPIKey, RotateAPIKey,
        RevokeAPIKey, Register, Activate
<1> QED
  BY <1>1, <1>2, OthersKeepRows

-----------------------------------------------------------------------------
KeyInv == Founded /\ Lineage /\ Origin /\ OneLiveSuccessor

\* A rotation ends the key it was asked to rotate in the transaction that
\* creates its successor, so a line of keys has one live key.
LEMMA NextKeys ==
  ASSUME Inv, Next PROVE KeyInv'
<1> USE DEF KeyInv
<1>k. /\ key \in [KeyIds -> {"none", "live", "revoked"}] /\ root \in [KeyIds -> KeyIds]
      /\ KeyInv
  BY DEF Inv, TypeOK
<1>1. CASE UNCHANGED <<data, cmds, effects>>
  BY <1>1, <1>k DEF data, Founded, Lineage, Origin, OneLiveSuccessor, LiveKeys
<1>2. ASSUME NEW p \in Clients, Mutation(p) PROVE KeyInv'
  <2>0. WellFormed(req[p]) /\ At(p, "entered") /\ verdict[p]
    BY <1>2, MutationRecords, RequestsWellFormed
  <2>1. CASE CreateOrganization(p)
    BY <1>k, <2>1 DEF CreateOrganization, Founded, Lineage, Origin, OneLiveSuccessor, LiveKeys
  <2>2. CASE DeleteOrganization(p)
    BY <1>k, <2>2 DEF DeleteOrganization, Founded, Lineage, Origin, OneLiveSuccessor, LiveKeys
  <2>3. CASE CreateEnvironment(p)
    BY <1>k, <2>3 DEF CreateEnvironment, Founded, Lineage, Origin, OneLiveSuccessor, LiveKeys
  <2>4. CASE CreateAPIKey(p)
    <3> PICK k \in Fresh : key' = [key EXCEPT ![k] = "live"]
      BY <2>4 DEF CreateAPIKey
    <3>1. /\ k \in KeyIds /\ key[k] = "none" /\ key'[k] = "live"
          /\ \A j \in KeyIds \ {k} : key'[j] = key[j]
      BY <1>k DEF Fresh
    <3>2. env /\ org = "live" /\ UNCHANGED <<org, env, root>>
      BY <1>k, <2>4 DEF CreateAPIKey, Founded
    <3> QED
      BY <1>k, <3>1, <3>2 DEF Founded, Lineage, Origin, OneLiveSuccessor, LiveKeys
  <2>5. CASE RotateAPIKey(p)
    <3> PICK old \in KeyIds : old = req[p].on /\ key[old] = "live"
      BY <2>0, <2>5 DEF RotateAPIKey, Entered, WellFormed, Inv, StillTrue
    <3> PICK k \in Fresh : /\ key' = [key EXCEPT ![old] = "revoked", ![k] = "live"]
                           /\ root' = [root EXCEPT ![k] = root[old]]
      BY <2>5 DEF RotateAPIKey
    <3>1. /\ k \in KeyIds /\ key[k] = "none" /\ k # old
          /\ key'[k] = "live" /\ key'[old] = "revoked"
          /\ \A j \in KeyIds \ {k, old} : key'[j] = key[j]
          /\ root'[k] = root[old] /\ \A j \in KeyIds \ {k} : root'[j] = root[j]
      BY <1>k DEF Fresh
    <3>2. env /\ org = "live" /\ UNCHANGED <<org, env>>
      BY <1>k, <2>5 DEF RotateAPIKey, Founded
    <3>3. Founded' /\ Origin'
      BY <1>k, <3>1, <3>2 DEF Founded, Origin
    <3>4. Lineage'
      BY <1>k, <3>1, <3>2 DEF Lineage
    <3>5. OneLiveSuccessor'
      <4> SUFFICES ASSUME NEW i \in LiveKeys', NEW j \in LiveKeys', root'[i] = root'[j]
                   PROVE  i = j
        BY DEF OneLiveSuccessor
      <4>1. /\ i \in KeyIds /\ i # old /\ (i # k => i \in LiveKeys)
            /\ j \in KeyIds /\ j # old /\ (j # k => j \in LiveKeys)
        BY <3>1 DEF LiveKeys
      <4>2. old \in LiveKeys
        BY DEF LiveKeys
      <4> QED
        BY <1>k, <3>1, <4>1, <4>2 DEF OneLiveSuccessor
    <3> QED
      BY <3>3, <3>4, <3>5
  <2>6. CASE RevokeAPIKey(p)
    <3>1. /\ UNCHANGED <<org, env, root>>
          /\ \A j \in KeyIds : key'[j] = key[j] \/ key'[j] = "revoked"
      BY <1>k, <2>6 DEF RevokeAPIKey
    <3>2. \A j \in KeyIds : key'[j] = "none" => key[j] = "none"
      BY <3>1
    <3>3. key[req[p].on] # "none" /\ req[p].on \in KeyIds
      BY <2>0, <2>6 DEF RevokeAPIKey, Entered, WellFormed
    <3> QED
      BY <1>k, <3>1, <3>2, <3>3 DEF Founded, Lineage, Origin, OneLiveSuccessor, LiveKeys
  <2>7. CASE UNCHANGED <<org, env, key, root>>
    BY <1>k, <2>7 DEF Founded, Lineage, Origin, OneLiveSuccessor, LiveKeys
  <2> QED
    BY <1>2, <2>1, <2>2, <2>3, <2>4, <2>5, <2>6, <2>7
    DEF Mutation, UpdateOrganization, data, AddMember, UpdateMemberRole,
        UpdateMemberStatus, RemoveMember, Register, Activate
<1> QED
  BY <1>1, <1>2, OthersKeepRows

\* No step leaves the deleted organization or founds it twice.
LEMMA OrgAdvances ==
  ASSUME Inv, Next
  PROVE  /\ org = "deleted" => org' = "deleted"
         /\ org # "none" => org' # "none"
<1>1. CASE UNCHANGED <<data, cmds, effects>>
  BY <1>1 DEF data
<1>2. ASSUME NEW p \in Clients, Mutation(p)
      PROVE  (org = "deleted" => org' = "deleted") /\ (org # "none" => org' # "none")
  BY <1>2 DEF Mutation, CreateOrganization, UpdateOrganization, data, DeleteOrganization,
     AddMember, UpdateMemberRole, UpdateMemberStatus, RemoveMember, CreateEnvironment,
     CreateAPIKey, RotateAPIKey, RevokeAPIKey, Register, Activate
<1> QED
  BY <1>1, <1>2, OthersKeepRows

\* A command that is completed stays as it is.
LEMMA CompletedStays ==
  ASSUME Inv, Next, NEW x \in Commands, cmds[x] # None
  PROVE  cmds'[x] = cmds[x]
<1>1. ASSUME NEW p \in Clients, Mutation(p) PROVE cmds'[x] = cmds[x]
  BY <1>1, MutationRecords, RecordTyped
<1> QED
  BY <1>1, OthersKeepRows

\* A revoked key is never live again.
LEMMA RevokedStays ==
  ASSUME Inv, Next, NEW k \in KeyIds, key[k] = "revoked"
  PROVE  key'[k] = "revoked" \/ org' = "deleted"
<1>k. key \in [KeyIds -> {"none", "live", "revoked"}]
  BY DEF Inv, TypeOK
<1>1. CASE UNCHANGED <<data, cmds, effects>>
  BY <1>1 DEF data
<1>2. ASSUME NEW p \in Clients, Mutation(p)
      PROVE  key'[k] = "revoked" \/ org' = "deleted"
  <2>1. CASE CreateAPIKey(p)
    BY <1>k, <2>1 DEF CreateAPIKey, Fresh
  <2>2. CASE RotateAPIKey(p)
    <3> PICK j \in Fresh : key' = [key EXCEPT ![req[p].on] = "revoked", ![j] = "live"]
      BY <2>2 DEF RotateAPIKey
    <3> QED
      BY <1>k DEF Fresh
  <2>3. CASE RevokeAPIKey(p)
    BY <1>k, <2>3 DEF RevokeAPIKey
  <2>4. CASE DeleteOrganization(p)
    BY <2>4 DEF DeleteOrganization
  <2>5. CASE UNCHANGED key
    BY <2>5
  <2> QED
    BY <1>2, <2>1, <2>2, <2>3, <2>4, <2>5
    DEF Mutation, CreateOrganization, UpdateOrganization, data, AddMember, UpdateMemberRole,
        UpdateMemberStatus, RemoveMember, CreateEnvironment, Register, Activate
<1> QED
  BY <1>1, <1>2, OthersKeepRows

\* A rotation or revocation ends its key in the transaction that records it.
LEMMA NextEnded ==
  ASSUME Inv, Next PROVE Ended'
<1> SUFFICES ASSUME NEW r \in Requests, r.kind \in {"rotate", "revoke"},
                    cmds'[Command(r)] = Body(r)
             PROVE  key'[r.on] = "revoked" \/ org' = "deleted"
  BY DEF Ended, Command, Body
<1>k. key \in [KeyIds -> {"none", "live", "revoked"}]
  BY DEF Inv, TypeOK
<1>0. r.on \in KeyIds /\ Command(r) \in Commands /\ Body(r) # None
  BY RequestsWellFormed DEF WellFormed
<1>1. CASE cmds[Command(r)] = Body(r)
  <2>1. key[r.on] = "revoked" \/ org = "deleted"
    BY <1>1 DEF Inv, Ended
  <2> QED
    BY <1>0, <2>1, RevokedStays, OrgAdvances
<1>2. ASSUME NEW p \in Clients, Mutation(p), cmds[Command(r)] # Body(r)
      PROVE  key'[r.on] = "revoked" \/ org' = "deleted"
  <2>0. Record(p) /\ req[p] \in Requests /\ At(p, "entered") /\ verdict[p]
    BY <1>2, MutationRecords
  <2>1. Command(r) = Command(req[p])
    BY <1>0, <1>2, <2>0, RecordTyped
  <2>2. Body(r) = Body(req[p])
    BY <2>0, <2>1, RecordTyped
  <2>3. req[p].kind = r.kind /\ req[p].on = r.on
    BY <2>2 DEF Body
  <2>4. CASE RotateAPIKey(p)
    <3>1. key[r.on] = "live"
      BY <2>0, <2>3, <2>4 DEF RotateAPIKey, Entered, Inv, StillTrue
    <3> PICK j \in Fresh : key' = [key EXCEPT ![r.on] = "revoked", ![j] = "live"]
      BY <2>3, <2>4 DEF RotateAPIKey
    <3> QED
      BY <1>0, <1>k, <3>1 DEF Fresh
  <2>5. CASE RevokeAPIKey(p)
    BY <1>0, <1>k, <2>3, <2>5 DEF RevokeAPIKey
  <2> QED
    BY <1>2, <2>3, <2>4, <2>5
    DEF Mutation, Entered, CreateOrganization, UpdateOrganization, DeleteOrganization,
        AddMember, UpdateMemberRole, UpdateMemberStatus, RemoveMember, CreateEnvironment,
        CreateAPIKey, Register, Activate
<1>3. CASE cmds' = cmds
  BY <1>1, <1>3
<1> QED
  BY <1>1, <1>2, <1>3, OthersKeepRows

-----------------------------------------------------------------------------
\* What a step does to the request and the answer of a client q: nothing, or
\* it is q's own.
LEMMA OwnSteps ==
  ASSUME Inv, Next, NEW q \in Clients
  PROVE  \/ Send(q) \/ Moves(q) \/ Enter(q) \/ Mutation(q)
         \/ req'[q] = req[q] /\ pc'[q] = pc[q] /\ repeat'[q] = repeat[q] /\ answer'[q] = answer[q]
<1>1. CASE FleetChanges
  BY <1>1 DEF FleetChanges
<1>2. ASSUME NEW p \in Clients \ {q}, Send(p)
      PROVE  req'[q] = req[q] /\ pc'[q] = pc[q] /\ repeat'[q] = repeat[q] /\ answer'[q] = answer[q]
  BY <1>2 DEF Send, Inv, TypeOK
<1>3. ASSUME NEW p \in Clients \ {q}, Moves(p)
      PROVE  req'[q] = req[q] /\ pc'[q] = pc[q] /\ repeat'[q] = repeat[q] /\ answer'[q] = answer[q]
  BY <1>3, MovesAlone DEF Quiet
<1>4. ASSUME NEW p \in Clients \ {q}, Enter(p)
      PROVE  req'[q] = req[q] /\ pc'[q] = pc[q] /\ repeat'[q] = repeat[q] /\ answer'[q] = answer[q]
  BY <1>4 DEF Enter, Goto, Inv, TypeOK
<1>5. ASSUME NEW p \in Clients \ {q}, Mutation(p)
      PROVE  req'[q] = req[q] /\ pc'[q] = pc[q] /\ repeat'[q] = repeat[q] /\ answer'[q] = answer[q]
  <2>1. req[p] \in Requests /\ Record(p)
    BY <1>5, MutationRecords
  <2> QED
    BY <2>1, RecordTyped
<1> QED
  BY <1>1, <1>2, <1>3, <1>4, <1>5, Steps

\* A repeat of a completed command gets no further than the lookup.
LEMMA NextRepeated ==
  ASSUME Inv, Next PROVE Repeated'
<1> SUFFICES ASSUME NEW q \in Clients, repeat'[q]
             PROVE  /\ cmds'[Command(req'[q])] = Body(req'[q])
                    /\ pc'[q] \in {"idle", "authenticate", "look up"}
  BY DEF Repeated, Command, Body
<1>t. /\ pc \in [Clients -> {"idle", "authenticate", "look up", "authorize", "claim",
                             "claimed", "entered"}]
      /\ req \in [Clients -> Requests \cup {None}] /\ repeat \in [Clients -> BOOLEAN]
      /\ menu \subseteq Requests
  BY DEF Inv, TypeOK
<1>1. ASSUME repeat[q]
      PROVE  /\ req[q] \in Requests /\ cmds'[Command(req[q])] = Body(req[q])
             /\ cmds[Command(req[q])] = Body(req[q]) /\ Completed(q)
             /\ pc[q] \in {"idle", "authenticate", "look up"}
  <2>1. req[q] \in Requests
    BY <1>1 DEF Inv, Asked
  <2>2. /\ cmds[Command(req[q])] = Body(req[q]) /\ Body(req[q]) # None
        /\ Command(req[q]) \in Commands /\ pc[q] \in {"idle", "authenticate", "look up"}
    BY <1>1, <2>1, RequestsWellFormed DEF Inv, Repeated
  <2> QED
    BY <2>1, <2>2, CompletedStays DEF Completed
<1>2. CASE Send(q)
  <2> PICK r \in menu : /\ req' = [req EXCEPT ![q] = r]
                        /\ repeat' = [repeat EXCEPT ![q] = cmds[Command(r)] = Body(r)]
    BY <1>2 DEF Send
  <2>1. req'[q] = r /\ cmds[Command(r)] = Body(r)
    BY <1>t
  <2>2. cmds' = cmds /\ pc'[q] = "authenticate"
    BY <1>2, <1>t DEF Send
  <2> QED
    BY <2>1, <2>2
<1>3. CASE Moves(q)
  <2>1. req' = req /\ repeat' = repeat
    BY <1>3, MovesAlone DEF Quiet
  <2>2. pc'[q] \in {"idle", "look up"}
    <3>1. Authenticate(q) \/ LookUp(q)
      BY <1>1, <1>3, <2>1 DEF Moves, Authorize, Claim, Refuse, Fail, InTx, At
    <3>2. CASE Authenticate(q)
      <4>1. Goto(q, "look up") \/ Replay(q) \/ Answer(q, "unauthorized")
        BY <3>2 DEF Authenticate
      <4> QED
        BY <1>t, <4>1 DEF Goto, Replay, Answer
    <3>3. CASE LookUp(q)
      BY <1>1, <1>t, <2>1, <3>3 DEF LookUp, Replay, Answer
    <3> QED
      BY <3>1, <3>2, <3>3
  <2> QED
    BY <1>1, <2>1, <2>2
<1>4. CASE Enter(q) \/ Mutation(q)
  <2>1. repeat' = repeat /\ (At(q, "claimed") \/ At(q, "entered"))
    BY <1>4, MutationRecords DEF Enter, Record
  <2> QED
    BY <1>1, <2>1 DEF At
<1>5. CASE /\ req'[q] = req[q] /\ pc'[q] = pc[q] /\ repeat'[q] = repeat[q]
           /\ answer'[q] = answer[q]
  BY <1>1, <1>5
<1> QED
  BY <1>2, <1>3, <1>4, <1>5, OwnSteps

-----------------------------------------------------------------------------
\* What a digest is bound to does not change while the organization exists.
LEMMA BoundStays ==
  ASSUME Inv, Next, NEW b \in Bundles, bound[b] # None
  PROVE  bound'[b] = bound[b] \/ org' = "deleted"
<1>1. CASE UNCHANGED <<data, cmds, effects>>
  BY <1>1 DEF data
<1>2. ASSUME NEW p \in Clients, Mutation(p)
      PROVE  bound'[b] = bound[b] \/ org' = "deleted"
  <2>1. CASE Register(p)
    BY <2>1 DEF Register, Inv, TypeOK
  <2>2. CASE DeleteOrganization(p)
    BY <2>2 DEF DeleteOrganization
  <2>3. CASE UNCHANGED bound
    BY <2>3
  <2> QED
    BY <1>2, <2>1, <2>2, <2>3
    DEF Mutation, CreateOrganization, UpdateOrganization, data, AddMember, UpdateMemberRole,
        UpdateMemberStatus, RemoveMember, CreateEnvironment, CreateAPIKey, RotateAPIKey,
        RevokeAPIKey, Activate
<1> QED
  BY <1>1, <1>2, OthersKeepRows

\* A registration that was accepted stays in force.
LEMMA NextRegistered ==
  ASSUME Inv, Next PROVE Registered'
<1> SUFFICES ASSUME NEW q \in Clients, answer'[q] = "done", req'[q].kind = "register"
             PROVE  bound'[req'[q].on] = req'[q].to \/ org' = "deleted"
  BY DEF Registered
<1>1. ASSUME answer[q] = "done", req'[q] = req[q]
      PROVE  bound'[req'[q].on] = req'[q].to \/ org' = "deleted"
  <2>1. req[q] \in Requests
    BY <1>1 DEF Inv, Asked
  <2>2. req[q].on \in Bundles /\ req[q].to # None
    BY <1>1, <2>1, RequestsWellFormed DEF WellFormed
  <2>3. bound[req[q].on] = req[q].to \/ org = "deleted"
    BY <1>1 DEF Inv, Registered
  <2> QED
    BY <1>1, <2>2, <2>3, BoundStays, OrgAdvances
<1>2. CASE Send(q)
  BY <1>2 DEF Send, Inv, TypeOK
<1>3. CASE Moves(q)
  <2>1. req' = req /\ answer'[q] = answer[q]
    BY <1>3, MovesAlone DEF Quiet
  <2> QED
    BY <1>1, <2>1
<1>4. CASE Enter(q)
  BY <1>1, <1>4 DEF Enter, Goto
<1>5. CASE Mutation(q)
  <2>1. req' = req /\ req[q] \in Requests
    BY <1>5, MutationRecords DEF Record
  <2>2. Register(q)
    BY <1>5, <2>1 DEF Mutation, Entered, CreateOrganization, UpdateOrganization,
       DeleteOrganization, AddMember, UpdateMemberRole, UpdateMemberStatus, RemoveMember,
       CreateEnvironment, CreateAPIKey, RotateAPIKey, RevokeAPIKey, Activate
  <2>3. req[q].on \in Bundles
    BY <2>1, RequestsWellFormed DEF WellFormed
  <2> QED
    BY <2>1, <2>2, <2>3 DEF Register, Inv, TypeOK
<1>6. CASE /\ req'[q] = req[q] /\ pc'[q] = pc[q] /\ repeat'[q] = repeat[q]
           /\ answer'[q] = answer[q]
  BY <1>1, <1>6
<1> QED
  BY <1>2, <1>3, <1>4, <1>5, <1>6, OwnSteps

\* A repeat that is answered by this step gets the recorded outcome.
LEMMA RepeatsAnswered ==
  ASSUME Inv, NEW q \in Clients, Moves(q), repeat[q],
         req[q].actor \in Users \/ (SelfInvalidating(req[q]) /\ org = "live")
  PROVE  answer'[q] \in {answer[q], "replayed"}
<1>t. answer \in [Clients -> {"none", "done", "replayed", "conflict", "unauthorized",
                              "forbidden", "refused", "failed"}]
  BY DEF Inv, TypeOK
<1>1. /\ req[q] \in Requests /\ cmds[Command(req[q])] = Body(req[q])
      /\ pc[q] \in {"idle", "authenticate", "look up"}
  BY DEF Inv, Asked, Repeated
<1>2. Completed(q) /\ (Replay(q) => answer'[q] = "replayed")
  BY <1>t, <1>1, RequestsWellFormed DEF Completed, Replay, Answer
<1>3. Authenticate(q) \/ LookUp(q)
  BY <1>1 DEF Moves, Authorize, Claim, Refuse, Fail, InTx, At
<1>4. CASE LookUp(q)
  BY <1>2, <1>4 DEF LookUp
<1>5. CASE Authenticate(q)
  <2>1. req[q].actor \in KeyIds /\ key[req[q].actor] # "live" => key[req[q].actor] = "revoked" /\ SelfInvalidating(req[q])
    <3> SUFFICES ASSUME req[q].actor \in KeyIds
                 PROVE  key[req[q].actor] = "revoked" /\ SelfInvalidating(req[q])
      OBVIOUS
    <3>1. SelfInvalidating(req[q]) /\ org = "live"
      BY ScenarioAssumption
    <3> QED
      BY <1>1, <3>1 DEF SelfInvalidating, Inv, Ended
  <2>2. Goto(q, "look up") \/ Replay(q)
    BY <1>2, <1>5, <2>1 DEF Authenticate
  <2> QED
    BY <1>2, <2>2 DEF Goto
<1> QED
  BY <1>3, <1>4, <1>5

\* Commands take effect once, and repeats are answered from the record.
LEMMA NextApplied ==
  ASSUME Inv, Next PROVE AppliedOnce'
<1>a. /\ \A x \in Commands : effects[x] = IF cmds[x] = None THEN 0 ELSE 1
      /\ \A p \in Clients :
           /\ answer[p] \in {"done", "replayed"} => cmds[Command(req[p])] = Body(req[p])
           /\ repeat[p] /\ (req[p].actor \in Users \/ (SelfInvalidating(req[p]) /\ org = "live"))
                => answer[p] \in {"none", "replayed"}
  BY DEF Inv, AppliedOnce
<1>1. \A x \in Commands : effects'[x] = IF cmds'[x] = None THEN 0 ELSE 1
  <2>1. ASSUME NEW p \in Clients, Mutation(p), NEW x \in Commands
        PROVE  effects'[x] = IF cmds'[x] = None THEN 0 ELSE 1
    <3>1. Record(p) /\ req[p] \in Requests /\ cmds[Command(req[p])] = None
      BY <2>1, MutationRecords
    <3>2. CASE x = Command(req[p])
      <4>1. effects[x] = 0
        BY <1>a, <3>1, <3>2
      <4>2. effects'[x] = effects[x] + 1 /\ cmds'[x] = Body(req[p])
        BY <3>1, <3>2, RecordTyped
      <4>3. cmds'[x] # None /\ effects'[x] = 1
        <5>1. Body(req[p]) # None
          BY <3>1, RequestsWellFormed
        <5>2. effects'[x] = 0 + 1
          BY <4>1, <4>2
        <5> QED
          BY <4>2, <5>1, <5>2
      <4> QED
        BY <4>3
    <3>3. CASE x # Command(req[p])
      <4>1. effects'[x] = effects[x] /\ cmds'[x] = cmds[x]
        BY <3>1, <3>3, RecordTyped
      <4> QED
        BY <1>a, <4>1
    <3> QED
      BY <3>2, <3>3
  <2>2. CASE UNCHANGED <<data, cmds, effects>>
    BY <1>a, <2>2
  <2> QED
    BY <2>1, <2>2, OthersKeepRows
<1>2. ASSUME NEW q \in Clients, answer'[q] \in {"done", "replayed"}
      PROVE  cmds'[Command(req'[q])] = Body(req'[q])
  <2>1. ASSUME cmds[Command(req[q])] = Body(req[q]), req[q] \in Requests, req'[q] = req[q]
        PROVE  cmds'[Command(req'[q])] = Body(req'[q])
    BY <2>1, CompletedStays, RequestsWellFormed
  <2>2. CASE Send(q)
    BY <1>2, <2>2 DEF Send, Inv, TypeOK
  <2>3. CASE Moves(q)
    <3>1. req' = req /\ req[q] \in Requests /\ cmds[Command(req[q])] = Body(req[q])
      BY <1>2, <1>a, <2>3, MovesAlone DEF Quiet
    <3> QED
      BY <2>1, <3>1
  <2>4. CASE Mutation(q)
    BY <2>4, MutationRecords, RecordTyped
  <2>5. CASE Enter(q) \/ (req'[q] = req[q] /\ answer'[q] = answer[q])
    <3>1. req'[q] = req[q] /\ answer'[q] = answer[q]
      BY <2>5 DEF Enter, Goto
    <3>2. req[q] \in Requests
      BY <1>2, <3>1 DEF Inv, Asked
    <3> QED
      BY <1>2, <1>a, <2>1, <3>1, <3>2
  <2> QED
    BY <2>2, <2>3, <2>4, <2>5, OwnSteps
<1>3. ASSUME NEW q \in Clients, repeat'[q],
             req'[q].actor \in Users \/ (SelfInvalidating(req'[q]) /\ org' = "live")
      PROVE  answer'[q] \in {"none", "replayed"}
  <2>1. CASE Send(q)
    BY <2>1 DEF Send, Inv, TypeOK
  <2>2. ASSUME repeat[q], req'[q] = req[q]
        PROVE  req[q].actor \in Users \/ (SelfInvalidating(req[q]) /\ org = "live")
    <3> SUFFICES ASSUME SelfInvalidating(req[q]), org' = "live"
                 PROVE  org = "live"
      BY <1>3, <2>2
    <3>1. req[q] \in Requests /\ cmds[Command(req[q])] = Body(req[q])
      BY <2>2 DEF Inv, Asked, Repeated
    <3>2. req[q].on \in KeyIds /\ (key[req[q].on] = "revoked" \/ org = "deleted")
      BY <3>1, RequestsWellFormed DEF WellFormed, SelfInvalidating, Inv, Ended
    <3> QED
      BY <3>2, OrgAdvances DEF Inv, TypeOK, Founded
  <2>3. CASE Moves(q)
    <3>1. req' = req /\ repeat' = repeat
      BY <2>3, MovesAlone DEF Quiet
    <3> QED
      BY <1>3, <1>a, <2>2, <2>3, <3>1, RepeatsAnswered
  <2>4. CASE Mutation(q)
    BY <1>3, <2>4, MutationRecords DEF Record, Inv, Repeated, At
  <2>5. CASE \/ Enter(q)
             \/ req'[q] = req[q] /\ repeat'[q] = repeat[q] /\ answer'[q] = answer[q]
    <3>1. req'[q] = req[q] /\ repeat'[q] = repeat[q] /\ answer'[q] = answer[q]
      BY <2>5 DEF Enter, Goto
    <3> QED
      BY <1>3, <1>a, <2>2, <3>1
  <2> QED
    BY <2>1, <2>3, <2>4, <2>5, OwnSteps
<1>4. \A q \in Clients : answer'[q] \in {"done", "replayed"} => cmds'[Command(req'[q])] = Body(req'[q])
  BY <1>2
<1>5. \A q \in Clients :
        repeat'[q] /\ (req'[q].actor \in Users \/ (SelfInvalidating(req'[q]) /\ org' = "live"))
          => answer'[q] \in {"none", "replayed"}
  BY <1>3
<1> QED
  BY <1>1, <1>4, <1>5 DEF AppliedOnce, SelfInvalidating, Command, Body

-----------------------------------------------------------------------------
\* Every step keeps the invariant.
LEMMA NextInv == Inv /\ [Next]_vars => Inv'
<1>1. CASE Inv /\ Next
  BY <1>1, NextTyped, NextLocked, NextStillTrue, NextOwners, NextKeys, NextEnded,
     NextRepeated, NextRegistered, NextApplied DEF Inv, KeyInv
<1>2. CASE Inv /\ UNCHANGED vars
  <2> USE <1>2 DEF vars, data, Inv
  <2>1. TypeOK' /\ Asked' /\ Founded' /\ Lineage' /\ Origin'
    BY DEF TypeOK, Asked, Founded, Lineage, Origin
  <2>2. Claimed' /\ Locked' /\ StillTrue'
    BY DEF Claimed, Locked, StillTrue, InTx, At, MemberCheck, LastOwner, ActiveOwners
  <2>3. Ended' /\ Repeated' /\ Registered'
    BY DEF Ended, Repeated, Registered
  <2>4. OwnerRemains' /\ OneLiveSuccessor' /\ AppliedOnce'
    BY DEF OwnerRemains, OneLiveSuccessor, AppliedOnce, ActiveOwners, LiveKeys
  <2> QED
    BY <2>1, <2>2, <2>3, <2>4
<1> QED
  BY <1>1, <1>2

\* The invariant holds in every state of every execution.
THEOREM TenancyInvariant == Spec => []Inv
<1> QED
  BY InitInv, NextInv, PTL DEF Spec

\* The Last Owner Defense of UpdateMemberRole, UpdateMemberStatus and
\* RemoveMember: whatever requests cross, a live organization has an active
\* owner.
THEOREM OwnerAlwaysRemains == Spec => []OwnerRemains
<1>1. Inv => OwnerRemains
  BY DEF Inv
<1> QED
  BY <1>1, TenancyInvariant, PTL

\* withCommandTx and RequireOrgScope: a command takes effect at most once, and
\* a repeat is answered from the record.
THEOREM CommandsAppliedOnce == Spec => []AppliedOnce
<1>1. Inv => AppliedOnce
  BY DEF Inv
<1> QED
  BY <1>1, TenancyInvariant, PTL

\* RotateAPIKey: of all the successors of a key one is live.
THEOREM SuccessorIsUnique == Spec => []OneLiveSuccessor
<1>1. Inv => OneLiveSuccessor
  BY DEF Inv
<1> QED
  BY <1>1, TenancyInvariant, PTL

\* A step that moves the channel on is an activation that expected it so.
LEMMA ChannelMoves ==
  ASSUME Inv, Next, channel'.rev > channel.rev
  PROVE  /\ channel'.rev = channel.rev + 1
         /\ \E p \in Clients : /\ At(p, "entered") /\ req[p].kind = "activate"
                               /\ req[p].to = channel.rev /\ req[p].on = channel'.bundle
<1>0. channel.rev \in Nat
  BY DEF Inv, TypeOK
<1>1. channel' # channel
  BY <1>0
<1>2. PICK p \in Clients : Mutation(p)
  BY <1>1, OthersKeepRows DEF data
<1>3. CASE Activate(p)
  <2>1. /\ channel'.rev = channel.rev + 1 /\ channel'.bundle = req[p].on
        /\ At(p, "entered") /\ req[p].kind = "activate" /\ verdict[p]
    BY <1>3 DEF Activate, Entered
  <2>2. req[p].to = channel.rev
    BY <2>1 DEF Inv, StillTrue
  <2> QED
    BY <2>1, <2>2
<1>4. CASE DeleteOrganization(p)
  <2>1. channel'.rev = 0
    BY <1>4 DEF DeleteOrganization
  <2> QED
    BY <1>0, <2>1
<1> QED
  BY <1>1, <1>2, <1>3, <1>4
  DEF Mutation, CreateOrganization, UpdateOrganization, data, AddMember, UpdateMemberRole,
      UpdateMemberStatus, RemoveMember, CreateEnvironment, CreateAPIKey, RotateAPIKey,
      RevokeAPIKey, Register

\* Activate and Register: a channel moves on only by a request that expected
\* the revision it had, and an accepted registration stays bound.
THEOREM ActivationsAlwaysChain == Spec => ActivationsChain
<1>1. Inv /\ [Next]_vars => [ChainStep]_vars
  <2> SUFFICES ASSUME Inv, Next PROVE ChainStep
    OBVIOUS
  <2>1. Registered'
    BY NextRegistered
  <2> QED
    BY <2>1, ChannelMoves DEF Registered, ChainStep
<1> QED
  BY <1>1, TenancyInvariant, PTL DEF Spec, ActivationsChain
=============================================================================
