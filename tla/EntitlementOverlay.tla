--------------------------- MODULE EntitlementOverlay ---------------------------
(***************************************************************************)
(* The entitlement overlay of one organization and one permission: the     *)
(* Owner's ceilings and the tenant's activations, a row of each per role,  *)
(* written by the requests of authorization/entitlements/                  *)
(* entitlementService.js over the Postgres repository of                   *)
(* services/governanceRolesReadModel.js, and read by the decisions of      *)
(* entitlementEvaluator.js.                                                *)
(*                                                                         *)
(* repository.transaction hands its callback a repository bound to the     *)
(* connection; the service's callbacks take no argument and go on with the *)
(* pool's.  So every statement commits by itself, and a step here is one   *)
(* statement.  The write of an activation is two: its trigger reads the    *)
(* ceiling before the row commits, and holds no lock on the ceiling.       *)
(*                                                                         *)
(* Left out: the caches, the event port and the audit of the default       *)
(* service, which live in memory, and the paths the evaluator refuses      *)
(* before it reads a row.  A request whose expectedPolicyVersion is not    *)
(* the current one is refused before it has changed anything.              *)
(*                                                                         *)
(* Definitions under "Mutant" are faulty variants of the definition after  *)
(* them; nothing in the specification uses one.                            *)
(***************************************************************************)
EXTENDS Naturals

CONSTANTS Role,        \* roles whose manifest contains the permission
          Owner,       \* PUTs of entitlement ceilings
          Admin,       \* PUTs of role activations
          Reader,      \* decisions
          None,        \* no role
          MaxRequest,  \* bound: PUTs in a behaviour
          MaxDecision, \* bound: decisions in a behaviour
          MaxFault     \* bound: PUTs cut short by a crash or the database

ASSUME OverlayAssumption ==
  /\ Owner \cap Admin = {} /\ None \notin Role
  /\ MaxRequest \in Nat /\ MaxDecision \in Nat /\ MaxFault \in Nat

Writer == Owner \union Admin

VARIABLES
  ceiling,     \* org_role_entitlement_limits: "missing", "denied" or "allowed"
  locked,      \* org_role_entitlement_limits.locked
  activation,  \* org_role_permission_activations: "missing", "disabled" or "enabled"
  pending,     \* the activation row written and not yet committed, or "none"
  version,     \* authorization_policy_versions.version
  pc, changes, \* PUT: its next statement, the roles of its body
  done, at,    \* PUT: the roles its loop is through, the role in hand
  before,      \* Owner's PUT: before?.allowed === true
  wrote,       \* history: the PUT has committed a statement
  rpc, paths,  \* decision: its next statement, the role paths it has left
  path,        \* decision: the role path in hand
  granted,     \* decision: the role paths found allowed
  effective,   \* history: roles effective at some instant since it began
  requests, decisions, faults

rows == <<ceiling, locked, activation, pending, version>>
writers == <<pc, changes, done, at, before, wrote>>
readers == <<rpc, paths, path, granted>>
bounds == <<requests, decisions, faults>>
vars == <<rows, writers, readers, effective, bounds>>

(* The roles that give the permission: allowed by the ceiling and enabled by *)
(* a row that is there or is past its trigger.                               *)
Effective(c, a, p) ==
  {r \in Role : c[r] = "allowed" /\ (a[r] = "enabled" \/ p[r] = "enabled")}

Init ==
  /\ ceiling = [r \in Role |-> "missing"] /\ locked = [r \in Role |-> FALSE]
  /\ activation = [r \in Role |-> "missing"] /\ pending = [r \in Role |-> "none"]
  /\ version = 1
  /\ pc = [w \in Writer |-> "idle"]
  /\ changes = [w \in Writer |-> {}] /\ done = [w \in Writer |-> {}]
  /\ at = [w \in Writer |-> None] /\ before = [w \in Writer |-> FALSE]
  /\ wrote = [w \in Writer |-> FALSE]
  /\ rpc = [d \in Reader |-> "idle"]
  /\ paths = [d \in Reader |-> {}] /\ path = [d \in Reader |-> None]
  /\ granted = [d \in Reader |-> {}] /\ effective = [d \in Reader |-> {}]
  /\ requests = 0 /\ decisions = 0 /\ faults = 0

Watch == effective' = [d \in Reader |-> effective[d]
                         \union Effective(ceiling', activation', pending')]

Goto(w, label) == pc' = [pc EXCEPT ![w] = label]

(* The loop of a request's changes: on with the next, or the end. *)
Advance(w, r, label) ==
  /\ done' = [done EXCEPT ![w] = @ \union {r}]
  /\ Goto(w, IF changes[w] \subseteq done[w] \union {r} THEN "idle" ELSE label)

(***************************************************************************)
(* The requests.                                                           *)
(***************************************************************************)

Begin(w) ==
  /\ pc[w] \in {"idle", "failed"} /\ requests < MaxRequest
  /\ \E body \in (SUBSET Role) \ {{}} : changes' = [changes EXCEPT ![w] = body]
  /\ Goto(w, IF w \in Owner THEN "version" ELSE "check")
  /\ done' = [done EXCEPT ![w] = {}] /\ wrote' = [wrote EXCEPT ![w] = FALSE]
  /\ requests' = requests + 1
  /\ UNCHANGED <<rows, at, before, readers, effective, decisions, faults>>

(* upsertTenantActivations looks at every ceiling before it writes. *)
Check(w) ==
  /\ pc[w] = "check"
  /\ \E r \in changes[w] \ done[w] :
       \/ /\ ceiling[r] # "allowed" \/ locked[r]
          /\ Goto(w, "failed") /\ UNCHANGED done
       \/ /\ ceiling[r] = "allowed" /\ ~locked[r]
          /\ IF changes[w] \subseteq done[w] \union {r}
             THEN Goto(w, "version") /\ done' = [done EXCEPT ![w] = {}]
             ELSE UNCHANGED pc /\ done' = [done EXCEPT ![w] = @ \union {r}]
  /\ UNCHANGED <<rows, changes, at, before, wrote, readers, effective, bounds>>

Bump(w) ==
  /\ pc[w] = "version"
  /\ version' = version + 1 /\ wrote' = [wrote EXCEPT ![w] = TRUE]
  /\ Goto(w, IF w \in Owner THEN "read" ELSE "write")
  /\ UNCHANGED <<ceiling, locked, activation, pending, changes, done, at, before,
                 readers, effective, bounds>>

OwnerRead(w) ==
  /\ pc[w] = "read"
  /\ \E r \in changes[w] \ done[w] :
       /\ at' = [at EXCEPT ![w] = r]
       /\ before' = [before EXCEPT ![w] = ceiling[r] = "allowed"]
  /\ Goto(w, "upsert")
  /\ UNCHANGED <<rows, changes, done, wrote, readers, effective, bounds>>

OwnerUpsert(w) ==
  /\ pc[w] = "upsert"
  /\ \E allowed, lock \in BOOLEAN :
       /\ ceiling' = [ceiling EXCEPT ![at[w]] = IF allowed THEN "allowed" ELSE "denied"]
       /\ locked' = [locked EXCEPT ![at[w]] = lock]
       /\ IF before[w] /\ ~allowed THEN Goto(w, "disable") /\ UNCHANGED done
                                   ELSE Advance(w, at[w], "read")
  /\ UNCHANGED <<activation, pending, version, changes, at, before, wrote, readers, bounds>>
  /\ Watch

(* disableActivation updates a row it can see: it waits for one that is being *)
(* updated, and passes by one that is being inserted.                         *)
OwnerDisable(w) ==
  /\ pc[w] = "disable"
  /\ activation[at[w]] = "missing" \/ pending[at[w]] = "none"
  /\ activation' = [activation EXCEPT ![at[w]] = IF @ = "missing" THEN @ ELSE "disabled"]
  /\ Advance(w, at[w], "read")
  /\ UNCHANGED <<ceiling, locked, pending, version, changes, at, before, wrote, readers,
                 effective, bounds>>

(* Mutant: the trigger of migration 0007 is not there. *)
NoTrigger(c, enabled) == TRUE

(* enforce_tenant_activation_within_owner_ceiling. *)
TriggerAllows(c, enabled) == enabled => c = "allowed"

AdminWrite(w) ==
  /\ pc[w] = "write"
  /\ \E r \in changes[w] \ done[w], enabled \in BOOLEAN :
       /\ pending[r] = "none"
       /\ \/ /\ TriggerAllows(ceiling[r], enabled)
             /\ at' = [at EXCEPT ![w] = r]
             /\ pending' = [pending EXCEPT ![r] = IF enabled THEN "enabled" ELSE "disabled"]
             /\ Goto(w, "commit")
          \/ /\ ~TriggerAllows(ceiling[r], enabled)
             /\ Goto(w, "failed") /\ UNCHANGED <<at, pending>>
  /\ UNCHANGED <<ceiling, locked, activation, version, changes, done, before, wrote,
                 readers, bounds>>
  /\ Watch

AdminCommit(w) ==
  /\ pc[w] = "commit"
  /\ activation' = [activation EXCEPT ![at[w]] = pending[at[w]]]
  /\ pending' = [pending EXCEPT ![at[w]] = "none"]
  /\ Advance(w, at[w], "write")
  /\ UNCHANGED <<ceiling, locked, version, changes, at, before, wrote, readers, effective,
                 bounds>>

(* Mutant: an activation that has not committed survives its request. *)
FaultKeepsRow(w) ==
  /\ pc[w] \notin {"idle", "failed"} /\ faults < MaxFault
  /\ Goto(w, "failed") /\ faults' = faults + 1
  /\ UNCHANGED <<rows, changes, done, at, before, wrote, readers, effective, requests,
                 decisions>>

(* A statement fails or the process dies: the statements before it stay. *)
Fault(w) ==
  /\ pc[w] \notin {"idle", "failed"} /\ faults < MaxFault
  /\ Goto(w, "failed") /\ faults' = faults + 1
  /\ pending' = IF pc[w] = "commit" THEN [pending EXCEPT ![at[w]] = "none"] ELSE pending
  /\ UNCHANGED <<ceiling, locked, activation, version, changes, done, at, before, wrote,
                 readers, effective, requests, decisions>>

(***************************************************************************)
(* The decisions: evaluateOrganizationEntitlement.                         *)
(***************************************************************************)

(* The caller's policyVersion, if it gives one, is not behind. *)
ReadBegin(d) ==
  /\ rpc[d] = "idle" /\ decisions < MaxDecision
  /\ rpc' = [rpc EXCEPT ![d] = "ceiling"]
  /\ \E ps \in (SUBSET Role) \ {{}} : paths' = [paths EXCEPT ![d] = ps]
  /\ granted' = [granted EXCEPT ![d] = {}]
  /\ effective' = [effective EXCEPT ![d] = Effective(ceiling, activation, pending)]
  /\ decisions' = decisions + 1
  /\ UNCHANGED <<rows, writers, path, requests, faults>>

(* It is behind: authorization_snapshot_stale for every path. *)
ReadStale(d) ==
  /\ rpc[d] = "idle" /\ decisions < MaxDecision
  /\ \E policyVersion \in 1 .. version : policyVersion < version
  /\ granted' = [granted EXCEPT ![d] = {}] /\ decisions' = decisions + 1
  /\ UNCHANGED <<rows, writers, rpc, paths, path, effective, requests, faults>>

(* On with the next path, after r. *)
Leave(d, r) ==
  /\ paths' = [paths EXCEPT ![d] = @ \ {r}]
  /\ rpc' = [rpc EXCEPT ![d] = IF paths[d] \subseteq {r} THEN "idle" ELSE "ceiling"]

ReadCeiling(d) ==
  /\ rpc[d] = "ceiling"
  /\ \E r \in paths[d] :
       \/ /\ ceiling[r] = "allowed"
          /\ rpc' = [rpc EXCEPT ![d] = "activation"] /\ path' = [path EXCEPT ![d] = r]
          /\ UNCHANGED paths
       \/ /\ ceiling[r] # "allowed"
          /\ Leave(d, r) /\ UNCHANGED path
  /\ UNCHANGED <<rows, writers, granted, effective, bounds>>

ReadActivation(d) ==
  /\ rpc[d] = "activation"
  /\ granted' = [granted EXCEPT ![d] =
                   IF activation[path[d]] = "enabled" THEN @ \union {path[d]} ELSE @]
  /\ Leave(d, path[d])
  /\ UNCHANGED <<rows, writers, path, effective, bounds>>

Next ==
  \/ \E w \in Writer : Begin(w) \/ Bump(w) \/ Fault(w)
  \/ \E w \in Owner : OwnerRead(w) \/ OwnerUpsert(w) \/ OwnerDisable(w)
  \/ \E w \in Admin : Check(w) \/ AdminWrite(w) \/ AdminCommit(w)
  \/ \E d \in Reader : ReadBegin(d) \/ ReadStale(d) \/ ReadCeiling(d) \/ ReadActivation(d)

Spec == Init /\ [][Next]_vars

(***************************************************************************)
(* Properties.                                                             *)
(***************************************************************************)

(* Types: every table and every program counter holds values the code knows; *)
(* an uncommitted row has exactly the one request that is to commit it.      *)
TypeOK ==
  /\ ceiling \in [Role -> {"missing", "denied", "allowed"}]
  /\ locked \in [Role -> BOOLEAN]
  /\ activation \in [Role -> {"missing", "disabled", "enabled"}]
  /\ pending \in [Role -> {"none", "disabled", "enabled"}]
  /\ version \in Nat \ {0}
  /\ pc \in [Writer -> {"idle", "failed", "check", "version", "read", "upsert",
                        "disable", "write", "commit"}]
  /\ \A r \in Role : pending[r] # "none" =>
       \E w \in Admin : /\ pc[w] = "commit" /\ at[w] = r
                        /\ \A v \in Admin \ {w} : ~(pc[v] = "commit" /\ at[v] = r)
  /\ rpc \in [Reader -> {"idle", "ceiling", "activation"}]
  /\ granted \in [Reader -> SUBSET Role] /\ effective \in [Reader -> SUBSET Role]

(* Every role a decision grants the permission for was effective at one and *)
(* the same instant since the decision began, although the decision reads   *)
(* ceiling and activation in two statements while Owner and tenant write    *)
(* them: a ceiling of before a denial is never paired with an activation of *)
(* after it.  So a decision that begins once a role is denied never grants  *)
(* it.                                                                      *)
HeldAtOnce == \A d \in Reader : granted[d] \subseteq effective[d]

(* "Mutations that affect authorization call the runtime outbox service so  *)
(* the state change, version increment, audit summary, and                  *)
(* authorization_outbox_events row are written in one transaction."         *)
(* (docs/authorization-runtime-consistency.md): a request that fails has    *)
(* written nothing.  The code does not keep this: see the README.           *)
FailedWroteNothing == \A w \in Writer : pc[w] = "failed" => ~wrote[w]

(* "The migration adds a composite FK and a constraint trigger so           *)
(* enabled=true cannot coexist effectively with allowed=false."             *)
(* (docs/authorization/tenant-isolation-and-entitlements.md): once no       *)
(* request is in progress, no denied role has an enabled activation.  The   *)
(* code does not keep this: see the README.                                 *)
DeniedAtRest ==
  (\A w \in Writer : pc[w] \in {"idle", "failed"})
    => \A r \in Role : ~(ceiling[r] = "denied" /\ activation[r] = "enabled")
=============================================================================
