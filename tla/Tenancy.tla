------------------------------- MODULE Tenancy -------------------------------
(***************************************************************************)
(* Tenant commands (internal/tenant, internal/deployment): a request is     *)
(* authenticated, looked up among the completed commands, authorised, and   *)
(* then run in one transaction that claims its idempotency key, mutates and *)
(* records the outcome (withCommandTx).  Each of these reads the database   *)
(* at its own moment, so requests interleave between them; inside the       *)
(* transaction the reads and the writes are two steps, kept together only   *)
(* by the row locks the code takes.  One organization and one environment.  *)
(***************************************************************************)
EXTENDS Naturals, FiniteSets

CONSTANTS
  Clients,     \* requests in flight
  Users,       \* people
  KeyIds,      \* API keys, the first of a founded organization being 1
  Bundles,     \* bundle digests
  Scenarios,   \* [from, requests]: where clients start, and what they may send
  None

Roles == {"Owner", "Admin", "Viewer"}

Member == [role : Roles, active : BOOLEAN]

\* A request has an actor (who sends it), idem (its Idempotency-Key), kind, on
\* and to (its method, path and body); a route acts on things of its own kind.
WellFormed(r) ==
  /\ r.actor \in Users \cup KeyIds /\ r.to # None /\ <<r.kind, r.on, r.to>> # None
  /\ r.kind = "create" => r.actor \in Users
  /\ r.kind \in {"add", "role", "status", "remove"} => r.on \in Users
  /\ r.kind \in {"add", "role"} => r.to \in Roles
  /\ r.kind \in {"rotate", "revoke"} => r.on \in KeyIds
  /\ r.kind \in {"register", "activate"} => r.on \in Bundles

ASSUME ScenarioAssumption ==
  /\ KeyIds \subseteq Nat \ {0} /\ Users # {} /\ Users \cap KeyIds = {}
  /\ None \notin Users \cup KeyIds \cup Bundles \cup Member
  /\ \A c \in Scenarios :
       c.from \in {"nothing", "founded"} /\ \A r \in c.requests : WellFormed(r)

VARIABLES
  menu,     \* the requests of the scenario
  org,      \* the organization and, after "founded", its environment
  env,      \* the environment exists
  member,   \* organization_members
  key,      \* api_keys: none, live, revoked
  root,     \* the key each key was first created as, through rotations
  bound,    \* deployments: the manifest hash of each bundle digest
  channel,  \* workflow_channels: the active bundle and the revision
  fleet,    \* active workers that advertise each bundle
  cmds,     \* completed tenant_commands: the body by scope and key
  effects,  \* how often each command has changed the database
  pc, req,  \* where each request is, and what it asks
  verdict,  \* what its transaction's checks found
  repeat,   \* its command was completed before it was sent
  answer    \* the last answer

data == <<org, env, member, key, root, bound, channel>>
vars == <<menu, data, fleet, cmds, effects, pc, req, verdict, repeat, answer>>

-----------------------------------------------------------------------------
\* command_scope and idempotency_key; RequestFingerprint and Operation.
Command(r) == <<r.actor, r.idem>>
Body(r) == <<r.kind, r.on, r.to>>

Requests == UNION {c.requests : c \in Scenarios}

Commands == {Command(r) : r \in Requests}

Hashes == {r.to : r \in {x \in Requests : x.kind = "register"}}

ActiveOwners == {u \in Users : member[u] # None /\ member[u].role = "Owner" /\ member[u].active}

LiveKeys == {k \in KeyIds : key[k] = "live"}

Init ==
  \E c \in Scenarios :
    LET founded == c.from = "founded"
    IN /\ menu = c.requests
       /\ org = IF founded THEN "live" ELSE "none"
       /\ env = founded
       /\ member = [u \in Users |-> IF founded THEN [role |-> "Owner", active |-> TRUE] ELSE None]
       /\ key = [k \in KeyIds |-> IF founded /\ k = 1 THEN "live" ELSE "none"]
       /\ root = [k \in KeyIds |-> k]
       /\ bound = [b \in Bundles |-> None]
       /\ channel = [bundle |-> None, rev |-> 0]
       /\ fleet = [b \in Bundles |-> 2]
       /\ cmds = [x \in Commands |-> None]
       /\ effects = [x \in Commands |-> 0]
       /\ pc = [p \in Clients |-> "idle"]
       /\ req = [p \in Clients |-> None]
       /\ verdict = [p \in Clients |-> FALSE]
       /\ repeat = [p \in Clients |-> FALSE]
       /\ answer = [p \in Clients |-> "none"]

-----------------------------------------------------------------------------
(* http.go: the way to the transaction. *)

At(p, stage) == pc[p] = stage

Goto(p, stage) == pc' = [pc EXCEPT ![p] = stage] /\ UNCHANGED answer

Answer(p, a) == pc' = [pc EXCEPT ![p] = "idle"] /\ answer' = [answer EXCEPT ![p] = a]

Quiet == UNCHANGED <<menu, data, fleet, cmds, effects, req, verdict, repeat>>

\* A client sends a request, or sends one again whose answer was lost.
Send(p) ==
  /\ At(p, "idle")
  /\ \E r \in menu :
       /\ req' = [req EXCEPT ![p] = r]
       /\ repeat' = [repeat EXCEPT ![p] = cmds[Command(r)] = Body(r)]
  /\ pc' = [pc EXCEPT ![p] = "authenticate"]
  /\ answer' = [answer EXCEPT ![p] = "none"]
  /\ UNCHANGED <<menu, data, fleet, cmds, effects, verdict>>

\* What a completed command answers: its outcome, or a conflict.
Replay(p) ==
  Answer(p, IF cmds[Command(req[p])] = Body(req[p]) THEN "replayed" ELSE "conflict")

Completed(p) == cmds[Command(req[p])] # None

\* isSelfInvalidatingKeyReplay: the command that rotated or revoked this key.
SelfInvalidating(r) == r.kind \in {"rotate", "revoke"} /\ r.on = r.actor

\* RequireAuth, AuthenticateAPIKey: a revoked key may only repeat its own end.
Authenticate(p) ==
  /\ At(p, "authenticate") /\ Quiet
  /\ LET r == req[p]
         known == IF r.actor \in KeyIds THEN key[r.actor] = "live" ELSE TRUE
     IN \/ known /\ Goto(p, "look up")
        \/ /\ ~known
           /\ IF key[r.actor] = "revoked" /\ SelfInvalidating(r) /\ Completed(p)
              THEN Replay(p) ELSE Answer(p, "unauthorized")

\* GetCompletedCommand, before the caller's rights are looked at.
LookUp(p) ==
  /\ At(p, "look up") /\ Quiet
  /\ \/ Completed(p) /\ Replay(p)
     \/ ~Completed(p) /\ Goto(p, IF req[p].kind = "create" THEN "claim" ELSE "authorize")

\* roleCapabilities for the capability each route asks for.
CanRolePerform(role, kind) ==
  CASE role = "Owner" -> TRUE
    [] role = "Admin" -> kind # "delete"
    [] OTHER -> FALSE

\* RequireOrgScope: the key's capabilities came with it; a person's are read now.
Authorize(p) ==
  /\ At(p, "authorize") /\ Quiet
  /\ LET a == req[p].actor
         may == a \in Users => /\ member[a] # None /\ member[a].active
                               /\ CanRolePerform(member[a].role, req[p].kind)
     IN \/ may /\ Goto(p, "claim")
        \/ ~may /\ Answer(p, "forbidden")

-----------------------------------------------------------------------------
(* withCommandTx *)

InTx(p) == pc[p] \in {"claimed", "entered"}

(* A mutant: only completed rows conflict, as without the unique index. *)
Claim_committedOnly(p) ==
  /\ At(p, "claim") /\ Quiet
  /\ \/ ~Completed(p) /\ Goto(p, "claimed")
     \/ Completed(p) /\ Replay(p)

\* INSERT ... ON CONFLICT DO NOTHING waits for an uncommitted row of the same
\* key; then the row is ours, or FOR UPDATE reads the winner's outcome.
Claim(p) ==
  /\ At(p, "claim") /\ Quiet
  /\ \A q \in Clients \ {p} : InTx(q) => Command(req[q]) # Command(req[p])
  /\ \/ ~Completed(p) /\ Goto(p, "claimed")
     \/ Completed(p) /\ Replay(p)

MemberKinds == {"role", "status", "remove"}

Organization == <<"organization", 0>>
Environment == <<"environment", 0>>
Key(k) == <<"key", k>>

(* A mutant: member changes do not lock the organization. *)
Exclusive_membersFree(r) ==
  CASE r.kind = "rename" -> {Organization}
    [] r.kind = "delete" -> {Organization, Environment}
    [] r.kind = "rotate" -> {Key(r.on)}
    [] r.kind = "activate" -> {Environment}
    [] OTHER -> {}

(* A mutant: a rotation reads its key without FOR UPDATE. *)
Exclusive_rotationsFree(r) ==
  CASE r.kind \in MemberKinds \cup {"rename"} -> {Organization}
    [] r.kind = "delete" -> {Organization, Environment}
    [] r.kind = "activate" -> {Environment}
    [] OTHER -> {}

(* A mutant: an activation reads the revision without a lock. *)
Exclusive_activationsFree(r) ==
  CASE r.kind \in MemberKinds \cup {"rename"} -> {Organization}
    [] r.kind = "delete" -> {Organization, Environment}
    [] r.kind = "rotate" -> {Key(r.on)}
    [] OTHER -> {}

\* The rows a mutation locks FOR UPDATE, or by writing them, before it reads.
Exclusive(r) ==
  CASE r.kind \in MemberKinds \cup {"rename"} -> {Organization}
    [] r.kind = "delete" -> {Organization, Environment}
    [] r.kind = "rotate" -> {Key(r.on)}
    [] r.kind = "activate" -> {Environment}
    [] OTHER -> {}

\* The rows it keeps from being deleted: the parents of what it inserts.
Shared(r) ==
  CASE r.kind \in {"add", "environment"} -> {Organization}
    [] r.kind \in {"create key", "rotate", "register"} -> {Environment}
    [] OTHER -> {}

Free(p) ==
  \A q \in Clients \ {p} : At(q, "entered") =>
    /\ Exclusive(req[p]) \cap (Exclusive(req[q]) \cup Shared(req[q])) = {}
    /\ Shared(req[p]) \cap Exclusive(req[q]) = {}

-----------------------------------------------------------------------------
(* tenant/service.go and deployment/service.go: what each mutation checks. *)

LastOwner(u) == u \in ActiveOwners /\ Cardinality(ActiveOwners) <= 1

\* UpdateMemberRole, UpdateMemberStatus, RemoveMember.
MemberCheck(r) ==
  /\ org = "live" /\ member[r.on] # None
  /\ LastOwner(r.on) => \/ r.kind = "role" /\ r.to = "Owner"
                        \/ r.kind = "status" /\ r.to = "ACTIVE"

\* Activate: registered, two compatible workers, the expected revision.
ActivateCheck(r) ==
  env /\ bound[r.on] # None /\ fleet[r.on] >= 2 /\ channel.rev = r.to

Check(r) ==
  CASE r.kind \in MemberKinds -> MemberCheck(r)
    [] r.kind = "rotate" -> key[r.on] = "live"
    [] r.kind = "revoke" -> key[r.on] # "none"
    [] r.kind = "activate" -> ActivateCheck(r)
    [] r.kind = "register" -> env /\ bound[r.on] \in {None, r.to}
    [] r.kind = "create key" -> env
    [] r.kind \in {"delete", "rename"} -> org = "live"
    [] OTHER -> TRUE

\* The mutation takes its locks and reads.
Enter(p) ==
  /\ At(p, "claimed") /\ Free(p)
  /\ verdict' = [verdict EXCEPT ![p] = Check(req[p])]
  /\ Goto(p, "entered")
  /\ UNCHANGED <<menu, data, fleet, cmds, effects, req, repeat>>

-----------------------------------------------------------------------------
(* ... and what it writes, with the outcome, at its commit. *)

Entered(p, kind) == At(p, "entered") /\ req[p].kind = kind /\ verdict[p]

Record(p) ==
  /\ cmds' = [cmds EXCEPT ![Command(req[p])] = Body(req[p])]
  /\ effects' = [effects EXCEPT ![Command(req[p])] = @ + 1]
  /\ Answer(p, "done")
  /\ UNCHANGED <<menu, fleet, req, verdict, repeat>>

CreateOrganization(p) ==
  /\ Entered(p, "create") /\ org = "none" /\ Record(p)
  /\ org' = "live"
  /\ member' = [member EXCEPT ![req[p].actor] = [role |-> "Owner", active |-> TRUE]]
  /\ UNCHANGED <<env, key, root, bound, channel>>

\* The name is not kept.
UpdateOrganization(p) == Entered(p, "rename") /\ Record(p) /\ UNCHANGED data

\* The rows of the organization go with it; the command stays.
DeleteOrganization(p) ==
  /\ Entered(p, "delete") /\ Record(p)
  /\ org' = "deleted" /\ env' = FALSE
  /\ member' = [u \in Users |-> None]
  /\ key' = [k \in KeyIds |-> "none"]
  /\ bound' = [b \in Bundles |-> None]
  /\ channel' = [bundle |-> None, rev |-> 0]
  /\ UNCHANGED root

AddMember(p) ==
  /\ Entered(p, "add") /\ org = "live" /\ member[req[p].on] = None /\ Record(p)
  /\ member' = [member EXCEPT ![req[p].on] = [role |-> req[p].to, active |-> TRUE]]
  /\ UNCHANGED <<org, env, key, root, bound, channel>>

UpdateMemberRole(p) ==
  /\ Entered(p, "role") /\ Record(p)
  /\ member' = [member EXCEPT ![req[p].on].role = req[p].to]
  /\ UNCHANGED <<org, env, key, root, bound, channel>>

UpdateMemberStatus(p) ==
  /\ Entered(p, "status") /\ Record(p)
  /\ member' = [member EXCEPT ![req[p].on].active = (req[p].to = "ACTIVE")]
  /\ UNCHANGED <<org, env, key, root, bound, channel>>

RemoveMember(p) ==
  /\ Entered(p, "remove") /\ Record(p)
  /\ member' = [member EXCEPT ![req[p].on] = None]
  /\ UNCHANGED <<org, env, key, root, bound, channel>>

\* CreateProject and CreateEnvironment, with its admission row.
CreateEnvironment(p) ==
  /\ Entered(p, "environment") /\ org = "live" /\ ~env /\ Record(p)
  /\ env' = TRUE
  /\ UNCHANGED <<org, member, key, root, bound, channel>>

Fresh == {k \in KeyIds : key[k] = "none" /\ \A j \in KeyIds : key[j] = "none" => k <= j}

CreateAPIKey(p) ==
  /\ Entered(p, "create key") /\ env /\ Record(p)
  /\ \E k \in Fresh : key' = [key EXCEPT ![k] = "live"]
  /\ UNCHANGED <<org, env, member, root, bound, channel>>

\* The new key and the end of the old one are one transaction.
RotateAPIKey(p) ==
  /\ Entered(p, "rotate") /\ env /\ Record(p)
  /\ \E k \in Fresh :
       /\ key' = [key EXCEPT ![req[p].on] = "revoked", ![k] = "live"]
       /\ root' = [root EXCEPT ![k] = root[req[p].on]]
  /\ UNCHANGED <<org, env, member, bound, channel>>

\* The update waits for a rotation that holds the key, and may find it revoked.
RevokeAPIKey(p) ==
  /\ Entered(p, "revoke") /\ key[req[p].on] # "none"
  /\ \A q \in Clients \ {p} : At(q, "entered") => Key(req[p].on) \notin Exclusive(req[q])
  /\ Record(p)
  /\ key' = [key EXCEPT ![req[p].on] = "revoked"]
  /\ UNCHANGED <<org, env, member, root, bound, channel>>

\* ON CONFLICT DO NOTHING, and the row that is there is compared again.
Register(p) ==
  /\ Entered(p, "register") /\ env
  /\ bound[req[p].on] \in {None, req[p].to} /\ Record(p)
  /\ bound' = [bound EXCEPT ![req[p].on] = req[p].to]
  /\ UNCHANGED <<org, env, member, key, root, channel>>

Activate(p) ==
  /\ Entered(p, "activate") /\ env /\ Record(p)
  /\ channel' = [bundle |-> req[p].on, rev |-> channel.rev + 1]
  /\ UNCHANGED <<org, env, member, key, root, bound>>

\* The checks refused: the transaction rolls back and leaves no command row.
Refuse(p) == At(p, "entered") /\ ~verdict[p] /\ Quiet /\ Answer(p, "refused")

\* A lost connection, a constraint, a deadlock: everything is rolled back.
Fail(p) == InTx(p) /\ Quiet /\ Answer(p, "failed")

\* A worker with the bundle comes or goes.
FleetChanges ==
  /\ \E r \in menu : r.kind = "activate"
  /\ \E b \in Bundles : fleet' = [fleet EXCEPT ![b] = IF @ = 2 THEN 1 ELSE 2]
  /\ UNCHANGED <<menu, data, cmds, effects, pc, req, verdict, repeat, answer>>

Mutation(p) ==
  \/ CreateOrganization(p) \/ UpdateOrganization(p) \/ DeleteOrganization(p)
  \/ AddMember(p) \/ UpdateMemberRole(p) \/ UpdateMemberStatus(p) \/ RemoveMember(p)
  \/ CreateEnvironment(p) \/ CreateAPIKey(p) \/ RotateAPIKey(p) \/ RevokeAPIKey(p)
  \/ Register(p) \/ Activate(p)

Step(p) ==
  \/ Send(p) \/ Authenticate(p) \/ LookUp(p) \/ Authorize(p)
  \/ Claim(p) \/ Enter(p) \/ Mutation(p) \/ Refuse(p) \/ Fail(p)

Next == FleetChanges \/ \E p \in Clients : Step(p)

Spec == Init /\ [][Next]_vars

-----------------------------------------------------------------------------
\* The type of every variable.
TypeOK ==
  /\ menu \subseteq Requests
  /\ org \in {"none", "live", "deleted"} /\ env \in BOOLEAN
  /\ member \in [Users -> Member \cup {None}]
  /\ key \in [KeyIds -> {"none", "live", "revoked"}] /\ root \in [KeyIds -> KeyIds]
  /\ bound \in [Bundles -> Hashes \cup {None}]
  /\ channel \in [bundle : Bundles \cup {None}, rev : Nat]
  /\ fleet \in [Bundles -> 1..2]
  /\ cmds \in [Commands -> {Body(r) : r \in Requests} \cup {None}]
  /\ effects \in [Commands -> Nat]
  /\ pc \in [Clients -> {"idle", "authenticate", "look up", "authorize", "claim",
                         "claimed", "entered"}]
  /\ req \in [Clients -> Requests \cup {None}]
  /\ verdict \in [Clients -> BOOLEAN] /\ repeat \in [Clients -> BOOLEAN]
  /\ answer \in [Clients -> {"none", "done", "replayed", "conflict", "unauthorized",
                             "forbidden", "refused", "failed"}]

\* An organization always has an active owner, however role changes,
\* suspensions, removals and their repeats cross (Last Owner Defense).
OwnerRemains == org = "live" => ActiveOwners # {}

\* A command takes effect at most once, and an answer that says it did means
\* that this body, and no other under the key, is the one that did.  A repeat
\* of a completed command by a person, or of the end of a key by that key,
\* gets the recorded outcome: also when the command took the sender's own
\* rights, key or organization away (RequireOrgScope, step 1).
AppliedOnce ==
  /\ \A x \in Commands : effects[x] = IF cmds[x] = None THEN 0 ELSE 1
  /\ \A p \in Clients :
       /\ answer[p] \in {"done", "replayed"} => cmds[Command(req[p])] = Body(req[p])
       /\ repeat[p] /\ (req[p].actor \in Users \/ (SelfInvalidating(req[p]) /\ org = "live"))
            => answer[p] \in {"none", "replayed"}

\* However often and from wherever a key is rotated, one successor is live.
OneLiveSuccessor == \A j, k \in LiveKeys : root[j] = root[k] => j = k

ChainStep ==
  /\ channel'.rev > channel.rev =>
       /\ channel'.rev = channel.rev + 1
       /\ \E p \in Clients : /\ At(p, "entered") /\ req[p].kind = "activate"
                             /\ req[p].to = channel.rev /\ req[p].on = channel'.bundle
  /\ \A p \in Clients :
       answer'[p] = "done" /\ req'[p].kind = "register" /\ org' = "live"
         => bound'[req'[p].on] = req'[p].to

\* No activation overwrites one its sender has not seen: a channel moves to
\* the next revision by a request that expected the current one.  And what a
\* registration bound stays bound, also when two manifests race for a digest.
ActivationsChain == [][ChainStep]_vars
=============================================================================
