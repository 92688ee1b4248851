-------------------------- MODULE ModuleAvailability --------------------------
(***************************************************************************)
(* The availability resolver, backend/services/moduleAvailabilityResolver.js:*)
(* whether an operation of a module may be executed now for the            *)
(* organization.  It reads the installation, its bindings, their           *)
(* compatibility, a health snapshot and a circuit state one after the      *)
(* other, while the control plane, collectors and operators write them.    *)
(*                                                                         *)
(* The lifecycle of the installation moves as ModuleLifecycle says, which  *)
(* ModuleControlPlane implements; bindings and compatibility records of    *)
(* one runtime come and go.  Operations are those of the deployed          *)
(* registry, which need a binding, compatibility and health; an operation  *)
(* the registry or the catalog does not know is denied before anything is  *)
(* read.                                                                   *)
(***************************************************************************)
EXTENDS ModuleLifecycle

CONSTANTS
    Resolver,        \* calls of resolve
    Binding,         \* binding rows of the module's runtime
    ModuleVersion,   \* versions of the module
    CatalogVersion,  \* its version in the catalog file of this process
    None,            \* no binding
    SnapshotTTL,     \* how long a health snapshot is valid
    MaxTime          \* bound: ticks of the clock

ASSUME AvailabilityAssumption ==
    /\ CatalogVersion \in ModuleVersion /\ None \notin Binding
    /\ SnapshotTTL \in Nat \ {0} /\ MaxVersion \in Nat /\ MaxTime \in Nat

VARIABLES
    published,      \* module_versions
    compatibility,  \* status of the latest record of each version for the runtime
    status,         \* "bound" for an executable binding
    now,            \* the clock
    health,         \* observed_state of the latest module_health_snapshots row
    observedAt,     \* its observed_at
    circuit,        \* module_circuit_states.state
    policy,         \* the degraded policy of the capability
    rpc,            \* what a call of resolve reads next
    op,             \* its operation
    evaluatedAt,    \* the time it was called
    lifecycleOf,    \* lifecycle of the installation it read
    bindingOf,      \* the binding it read
    healthOf,       \* the health it read
    decision,       \* what it returned
    compatibleOf,   \* history: there was evidence when it asked for compatibility
    openSince,      \* history: bindings whose circuit stayed open during the call
    startedAs       \* history: the lifecycle when it was called

control == <<lifecycleVars, published, compatibility, status>>
evidence == <<now, health, observedAt, circuit, policy>>
reads == <<op, evaluatedAt, lifecycleOf, bindingOf, healthOf>>
resolverVars == <<rpc, reads, decision, compatibleOf, openSince, startedAs>>
vars == <<control, evidence, resolverVars>>

CompatibilityStatus == {"missing", "compatible", "incompatible"}
\* "unavailable" stands for unknown, and for no snapshot, as well: they deny alike.
HealthState == {"healthy", "degraded", "unavailable"}
\* "closed" stands for no row as well.
CircuitState == {"closed", "open", "half_open"}
\* "unavailable" stands for no policy as well, "other" for any other mode: the
\* registry takes every mode.
PolicyMode == {"unavailable", "read_only", "other"}
\* EXECUTION_KINDS, "write" for all that are not read, and the flag isProbe.
Operation == [kind : {"read", "write"}, probe : BOOLEAN]
NoOperation == [kind |-> "none", probe |-> FALSE]

ExecutableBinding == {b \in Binding : status[b] = "bound"}

AvailabilityInit ==
    /\ Init
    /\ published = {}
    /\ compatibility = [v \in ModuleVersion |-> "missing"]
    /\ status = [b \in Binding |-> "missing"]
    /\ now = 0
    /\ health = [b \in Binding |-> "unavailable"]
    /\ observedAt = [b \in Binding |-> 0]
    /\ circuit = [b \in Binding |-> "closed"]
    /\ policy \in PolicyMode
    /\ rpc = [q \in Resolver |-> "idle"]
    /\ op = [q \in Resolver |-> NoOperation]
    /\ evaluatedAt = [q \in Resolver |-> 0]
    /\ lifecycleOf = [q \in Resolver |-> "missing"]
    /\ bindingOf = [q \in Resolver |-> None]
    /\ healthOf = [q \in Resolver |-> "unavailable"]
    /\ decision = [q \in Resolver |-> "none"]
    /\ compatibleOf = [q \in Resolver |-> FALSE]
    /\ openSince = [q \in Resolver |-> {}]
    /\ startedAs = [q \in Resolver |-> "missing"]

(***************************************************************************)
(* The control plane, as far as a resolver can see it.                     *)
(***************************************************************************)

\* The first version is published before the module is installed.  MaxVersion
\* is never left, so nobody need foretell it.
LifecycleStep ==
    /\ version < MaxVersion
    /\ published # {}
    /\ Install \/ Move \/ Overtake \/ \E e \in (version + 1)..(MaxVersion - 1) : Foretell(e)
    /\ UNCHANGED <<published, compatibility, status, evidence, resolverVars>>

Publish(v) ==
    /\ v \notin published
    /\ published' = published \cup {v}
    /\ UNCHANGED <<lifecycleVars, compatibility, status, evidence, resolverVars>>

RecordCompatibility(v, s) ==
    /\ v \in published
    /\ s \notin {"missing", compatibility[v]}
    /\ compatibility' = [compatibility EXCEPT ![v] = s]
    /\ UNCHANGED <<lifecycleVars, published, status, evidence, resolverVars>>

\* bindOrganizationModuleRuntime found some version compatible; the unique
\* index admits one executable binding.
Bind(b) ==
    /\ lifecycle # "missing"
    /\ \E v \in ModuleVersion : compatibility[v] # "missing"
    /\ status[b] = "missing" /\ ExecutableBinding = {}
    /\ status' = [status EXCEPT ![b] = "bound"]
    /\ UNCHANGED <<lifecycleVars, published, compatibility, evidence, resolverVars>>

\* suspendOrRemoveRuntimeBinding.
Suspend(b) ==
    /\ status[b] = "bound"
    /\ status' = [status EXCEPT ![b] = "suspended"]
    /\ UNCHANGED <<lifecycleVars, published, compatibility, evidence, resolverVars>>

(***************************************************************************)
(* Time, collectors and operators.                                         *)
(***************************************************************************)

Tick ==
    /\ now < MaxTime
    /\ now' = now + 1
    /\ UNCHANGED <<control, health, observedAt, circuit, policy, resolverVars>>

\* Mutant: the expiry of the snapshot is taken for its observation.
RecordExpiry(b, s, at) ==
    /\ status[b] # "missing"
    /\ at >= observedAt[b]
    /\ health' = [health EXCEPT ![b] = s]
    /\ observedAt' = [observedAt EXCEPT ![b] = at + SnapshotTTL]
    /\ UNCHANGED <<control, now, circuit, policy, resolverVars>>

\* recordHealthSnapshot.  The latest row by observed_at is the one read; a
\* row that arrives late, with an older observation, changes nothing; of two
\* of the same time either may be read, their versions being equal.
RecordHealth(b, s, at) ==
    /\ status[b] # "missing"
    /\ at >= observedAt[b]
    /\ health' = [health EXCEPT ![b] = s]
    /\ observedAt' = [observedAt EXCEPT ![b] = at]
    /\ UNCHANGED <<control, now, circuit, policy, resolverVars>>

\* writeCircuitState.
WriteCircuit(b, s) ==
    /\ status[b] # "missing"
    /\ circuit[b] # s
    /\ circuit' = [circuit EXCEPT ![b] = s]
    /\ openSince' = IF s = "open" THEN openSince ELSE [q \in Resolver |-> openSince[q] \ {b}]
    /\ UNCHANGED <<control, now, health, observedAt, policy, rpc, reads, decision, compatibleOf, startedAs>>

(***************************************************************************)
(* resolve.                                                                *)
(***************************************************************************)

Read(q, label) ==
    /\ rpc' = [rpc EXCEPT ![q] = label]
    /\ UNCHANGED <<decision, openSince, startedAs>>

Decide(q, d) ==
    /\ rpc' = [rpc EXCEPT ![q] = "decided"]
    /\ decision' = [decision EXCEPT ![q] = d]
    /\ UNCHANGED <<openSince, startedAs>>

ResolveStart(q, o) ==
    /\ rpc[q] = "idle"
    /\ rpc' = [rpc EXCEPT ![q] = "installation"]
    /\ op' = [op EXCEPT ![q] = o]
    /\ evaluatedAt' = [evaluatedAt EXCEPT ![q] = now]
    /\ openSince' = [openSince EXCEPT ![q] = {b \in Binding : circuit[b] = "open"}]
    /\ startedAs' = [startedAs EXCEPT ![q] = lifecycle]
    /\ UNCHANGED <<control, evidence, lifecycleOf, bindingOf, healthOf, decision, compatibleOf>>

\* Mutant: decommissioning is left out of the lifecycles that deny.
LiveOrLeaving == {"active", "degraded", "decommissioning"}

Live == {"active", "degraded"}

ReadInstallation(q) ==
    /\ rpc[q] = "installation"
    /\ lifecycleOf' = [lifecycleOf EXCEPT ![q] = lifecycle]
    /\ IF lifecycle \in Live THEN Read(q, "bindings") ELSE Decide(q, "denied")
    /\ UNCHANGED <<control, evidence, op, evaluatedAt, bindingOf, healthOf, compatibleOf>>

ReadBindings(q) ==
    /\ rpc[q] = "bindings"
    /\ IF ExecutableBinding = {}
       THEN Decide(q, "denied") /\ UNCHANGED bindingOf
       ELSE /\ \E b \in ExecutableBinding : bindingOf' = [bindingOf EXCEPT ![q] = b]
            /\ Read(q, "compatibility")
    /\ UNCHANGED <<control, evidence, op, evaluatedAt, lifecycleOf, healthOf, compatibleOf>>

\* resolveModuleVersion looks for the catalog's version of the module, not
\* the installed one; when it is not published, compatibility is not asked.
\* Versions are never unpublished, so the two reads count as one.
ReadCompatibility(q) ==
    /\ rpc[q] = "compatibility"
    /\ IF /\ CatalogVersion \in published
          /\ compatibility[CatalogVersion] # "compatible"
       THEN Decide(q, "denied")
       ELSE Read(q, "health")
    /\ compatibleOf' = [compatibleOf EXCEPT ![q] = compatibility[CatalogVersion] = "compatible"]
    /\ UNCHANGED <<control, evidence, reads>>

\* What the degraded policy of the capability denies; a mode it does not know
\* denies nothing.
PolicyDenies(o) == policy = "unavailable" \/ (policy = "read_only" /\ o.kind # "read")

\* An expired snapshot is judged against the time of the call.  A read that
\* the read-only policy lets through on degraded health is decided here.
ReadHealth(q) ==
    LET b == bindingOf[q]
        fresh == observedAt[b] + SnapshotTTL > evaluatedAt[q]
    IN  /\ rpc[q] = "health"
        /\ healthOf' = [healthOf EXCEPT ![q] = health[b]]
        /\ CASE fresh /\ health[b] = "healthy" -> Read(q, "circuit")
             [] fresh /\ health[b] = "degraded" /\ ~PolicyDenies(op[q]) ->
                  IF policy = "read_only" THEN Decide(q, "read only") ELSE Read(q, "circuit")
             [] OTHER -> Decide(q, "denied")
        /\ UNCHANGED <<control, evidence, op, evaluatedAt, lifecycleOf, bindingOf, compatibleOf>>

\* The circuit, then the policy again if the installation was degraded.
ReadCircuit(q) ==
    LET state == circuit[bindingOf[q]]
    IN  /\ rpc[q] = "circuit"
        /\ CASE \/ state = "open"
                \/ state = "half_open" /\ ~op[q].probe
                \/ lifecycleOf[q] = "degraded" /\ PolicyDenies(op[q]) -> Decide(q, "denied")
             [] OTHER -> Decide(q, IF lifecycleOf[q] = "degraded" THEN "read only" ELSE "executable")
        /\ UNCHANGED <<control, evidence, reads, compatibleOf>>

ResolveStep(q) ==
    \/ \E o \in Operation : ResolveStart(q, o)
    \/ ReadInstallation(q) \/ ReadBindings(q) \/ ReadCompatibility(q)
    \/ ReadHealth(q) \/ ReadCircuit(q)

ControlStep ==
    \/ LifecycleStep
    \/ \E v \in ModuleVersion : Publish(v)
    \/ \E v \in ModuleVersion, s \in CompatibilityStatus : RecordCompatibility(v, s)
    \/ \E b \in Binding : Bind(b) \/ Suspend(b)

EvidenceStep ==
    \/ Tick
    \/ \E b \in Binding, s \in HealthState, at \in 0..now : RecordHealth(b, s, at)
    \/ \E b \in Binding, s \in CircuitState : WriteCircuit(b, s)

AvailabilityNext ==
    \/ ControlStep
    \/ EvidenceStep
    \/ \E q \in Resolver : ResolveStep(q)

AvailabilitySpec == AvailabilityInit /\ [][AvailabilityNext]_vars

(***************************************************************************)
(* Properties.                                                             *)
(***************************************************************************)

\* Type invariant: rows, observations and what a call has read so far are values
\* their columns allow.
TypeOK ==
    /\ lifecycle \in LIFECYCLES \cup {"missing"}
    /\ version \in 0..MaxVersion
    /\ audit \in Seq(LIFECYCLES)
    /\ foretold \subseteq 1..MaxVersion
    /\ published \subseteq ModuleVersion
    /\ compatibility \in [ModuleVersion -> CompatibilityStatus]
    /\ status \in [Binding -> {"missing", "bound", "suspended"}]
    /\ now \in 0..MaxTime
    /\ health \in [Binding -> HealthState]
    /\ observedAt \in [Binding -> 0..MaxTime]
    /\ circuit \in [Binding -> CircuitState]
    /\ policy \in PolicyMode
    /\ rpc \in [Resolver -> {"idle", "installation", "bindings", "compatibility", "health",
                             "circuit", "decided"}]
    /\ op \in [Resolver -> Operation \cup {NoOperation}]
    /\ evaluatedAt \in [Resolver -> 0..MaxTime]
    /\ lifecycleOf \in [Resolver -> LIFECYCLES \cup {"missing"}]
    /\ bindingOf \in [Resolver -> Binding \cup {None}]
    /\ healthOf \in [Resolver -> HealthState]
    /\ decision \in [Resolver -> {"none", "denied", "read only", "executable"}]
    /\ compatibleOf \in [Resolver -> BOOLEAN]
    /\ openSince \in [Resolver -> SUBSET Binding]
    /\ startedAs \in [Resolver -> LIFECYCLES \cup {"missing"}]

Executable(q) == decision[q] \in {"executable", "read only"}

\* "Confirm suspended/decommissioning modules are unavailable" (P3-005
\* runbook): whatever is bound, suspended or observed meanwhile, a call made
\* once the module is decommissioning denies, for no transition leads out of
\* it.  Only a transition that named a version ahead of the row may.
DecommissionedDenied ==
    \A q \in Resolver : Executable(q) /\ startedAs[q] = "decommissioning" => foretold # {}

\* Degraded execution requires a policy that does not deny the operation,
\* wherever the degradation was found: a read-only policy lets no write through.
DegradedNeedsPolicy ==
    \A q \in Resolver :
      Executable(q) /\ "degraded" \in {lifecycleOf[q], healthOf[q]} => ~PolicyDenies(op[q])

\* "Circuit open denies" (P3-006 runbook): no operation is executable on a
\* binding whose circuit was open all through the call.
OpenCircuitDenies == \A q \in Resolver : Executable(q) => bindingOf[q] \notin openSince[q]

\* An incompatible version blocks access: an operation is executable only on
\* a runtime with evidence that it is compatible with the catalog's version
\* of the module.
CompatibleOnly == \A q \in Resolver : Executable(q) => compatibleOf[q]

=============================================================================
