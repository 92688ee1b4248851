-------------------------- MODULE ModuleControlPlane --------------------------
(***************************************************************************)
(* The module control plane, backend/services/moduleControlPlane.js, over  *)
(* its PostgreSQL repository: one organization's installation of one       *)
(* module, the runtimes that can serve it, the compatibility evidence and  *)
(* the runtime bindings.  A service call is a sequence of statements, each *)
(* an action here, and calls of several Callers interleave between them.   *)
(* A repository method that opens a transaction is one action, with the    *)
(* audit row it writes.                                                    *)
(*                                                                         *)
(* The version of a binding only makes a late updateBindingStatus change   *)
(* nothing, which is the absence of a step, so it is left out.             *)
(***************************************************************************)
EXTENDS Naturals, Sequences

CONSTANTS
    Caller,         \* concurrent calls of the service
    Runtime,        \* runtime ids
    Foreign,        \* those that belong to another module
    Binding,        \* ids of the binding rows
    ModuleVersion,  \* versions of the module in the authored catalog
    Contract,       \* contract versions a compatibility record can name
    None,           \* no runtime, no module version
    MaxVersion      \* bound: versions of the installation row

ASSUME ConstantsAssumption ==
    /\ Foreign \subseteq Runtime
    /\ None \notin Runtime \cup ModuleVersion
    /\ MaxVersion \in Nat

VARIABLES
    lifecycle,      \* organization_modules.lifecycle, "missing" before the row
    version,        \* organization_modules.version
    audit,          \* the lifecycles entered in audit_logs for the row
    foretold,       \* history: versions named by a call before they existed
    installed,      \* organization_modules.module_version_id
    published,      \* module_versions
    runtimeStatus,  \* module_runtime_catalog.runtime_status
    compatibility,  \* status of the latest record of a version and a runtime
    recorded,       \* identities of the compatibility records
    status,         \* organization_module_runtime_bindings.status
    isExecutable,   \* .is_executable
    boundTo,        \* .runtime_id
    pc,             \* the statement a call executes next
    to,             \* input.toLifecycle of its transition, "missing" without one
    expected,       \* input.expectedVersion of its transition
    chosen          \* the runtime its binding is for

row == <<lifecycle, version, audit, installed>>
installation == <<row, foretold>>
catalog == <<published, runtimeStatus, compatibility, recorded>>
bindings == <<status, isExecutable, boundTo>>
locals == <<to, expected, chosen>>
vars == <<installation, catalog, bindings, pc, locals>>

Lifecycle == INSTANCE ModuleLifecycle
LIFECYCLES == Lifecycle!LIFECYCLES

\* "suspended" stands for every status that is not available.
RuntimeStatus == {"missing", "available", "suspended"}
\* "compatible" stands for the members of COMPATIBLE, "incompatible" for the
\* other statuses.
CompatibilityStatus == {"missing", "compatible", "incompatible"}
\* "suspended" stands for every status that is not bound.
BindingStatus == {"bound", "suspended"}

ExecutableBinding == {b \in Binding : isExecutable[b] /\ status[b] = "bound"}

Init ==
    /\ lifecycle = "missing" /\ version = 0 /\ audit = <<>> /\ installed = None
    /\ foretold = {}
    /\ published = {}
    /\ runtimeStatus = [r \in Runtime |-> "missing"]
    /\ compatibility = [vr \in ModuleVersion \X Runtime |-> "missing"]
    /\ recorded = {}
    /\ status = [b \in Binding |-> "missing"]
    /\ isExecutable = [b \in Binding |-> FALSE]
    /\ boundTo = [b \in Binding |-> None]
    /\ pc = [c \in Caller |-> "idle"]
    /\ to = [c \in Caller |-> "missing"]
    /\ expected = [c \in Caller |-> 0]
    /\ chosen = [c \in Caller |-> None]

Goto(c, label) == pc' = [pc EXCEPT ![c] = label]

\* The call ends, with a result or an error, and its locals with it.
Return(c) ==
    /\ Goto(c, "idle")
    /\ to' = [to EXCEPT ![c] = "missing"]
    /\ expected' = [expected EXCEPT ![c] = 0]
    /\ chosen' = [chosen EXCEPT ![c] = None]

(***************************************************************************)
(* The catalog: single statements or transactions.                         *)
(***************************************************************************)

\* seedCatalogFromP3_002: publishModuleVersion.
Publish(v) ==
    /\ v \notin published
    /\ published' = published \cup {v}
    /\ UNCHANGED <<installation, runtimeStatus, compatibility, recorded, bindings, pc, locals>>

\* registerModuleRuntime and updateModuleRuntime: upsertRuntime, which writes
\* the status it is given over whatever the row had.
RegisterRuntime(r, s) ==
    /\ s # "missing"
    /\ runtimeStatus[r] # s
    /\ runtimeStatus' = [runtimeStatus EXCEPT ![r] = s]
    /\ UNCHANGED <<installation, published, compatibility, recorded, bindings, pc, locals>>

\* recordModuleRuntimeCompatibility: inserts a record, once for each identity;
\* getCompatibility returns the latest of a version and a runtime.
RecordCompatibility(v, r, k, s) ==
    /\ v \in published /\ runtimeStatus[r] # "missing"
    /\ <<v, r, k>> \notin recorded
    /\ s # "missing"
    /\ recorded' = recorded \cup {<<v, r, k>>}
    /\ compatibility' = [compatibility EXCEPT ![<<v, r>>] = s]
    /\ UNCHANGED <<installation, published, runtimeStatus, bindings, pc, locals>>

(***************************************************************************)
(* provisionOrganizationModule.                                            *)
(***************************************************************************)

\* getOrganizationModule finds nothing; an existing row would be returned.
ProvisionRead(c) ==
    /\ pc[c] = "idle"
    /\ lifecycle = "missing"
    /\ Goto(c, "insert")
    /\ UNCHANGED <<installation, catalog, bindings, locals>>

\* Mutant: the row takes over the status of the catalog entry.
InsertPlanned(c, v, l) ==
    /\ pc[c] = "insert"
    /\ lifecycle' = "planned"
    /\ version' = 1
    /\ audit' = Append(audit, l)
    /\ installed' = v
    /\ UNCHANGED foretold
    /\ Return(c)
    /\ UNCHANGED <<catalog, bindings>>

\* insertOrganizationModule: an insert that does nothing on a conflict, and
\* writes its audit row only when it inserted.  The lifecycle is the input's;
\* "disabled" is only what it is without one.
ProvisionInsert(c, v, l) ==
    /\ pc[c] = "insert"
    /\ v \in published
    /\ IF lifecycle = "missing"
       THEN /\ lifecycle' = l
            /\ version' = 1
            /\ audit' = Append(audit, l)
            /\ installed' = v
       ELSE UNCHANGED row
    /\ Return(c)
    /\ UNCHANGED <<foretold, catalog, bindings>>

(***************************************************************************)
(* transitionOrganizationModuleLifecycle.                                  *)
(***************************************************************************)

LifecycleAllowed(a, b) == a \in LIFECYCLES /\ b \in Lifecycle!TRANSITIONS[a]

\* The caller sends a version, and nothing relates it to the row the service
\* reads: it may be an older one or one the row has not reached.  The service
\* checks the move against what it reads.
TransitionRead(c, target, e) ==
    /\ pc[c] = "idle"
    /\ LifecycleAllowed(lifecycle, target)
    /\ to' = [to EXCEPT ![c] = target]
    /\ expected' = [expected EXCEPT ![c] = e]
    /\ foretold' = IF e > version THEN foretold \cup {e} ELSE foretold
    /\ Goto(c, IF target = "active" THEN "listBindings" ELSE "update")
    /\ UNCHANGED <<row, catalog, bindings, chosen>>

\* MISSING_BINDING unless some binding is executable and bound.
TransitionBindings(c) ==
    /\ pc[c] = "listBindings"
    /\ IF ExecutableBinding # {} THEN Goto(c, "update") /\ UNCHANGED locals ELSE Return(c)
    /\ UNCHANGED <<installation, catalog, bindings>>

\* Mutant: the same without the condition on the version.
UpdateAnyVersion(c) ==
    /\ pc[c] = "update"
    /\ version < MaxVersion
    /\ lifecycle' = to[c]
    /\ version' = version + 1
    /\ audit' = Append(audit, to[c])
    /\ Return(c)
    /\ UNCHANGED <<installed, foretold, catalog, bindings>>

\* Mutant: the same without the new version.
UpdateSameVersion(c) ==
    /\ pc[c] = "update"
    /\ IF version = expected[c]
       THEN /\ lifecycle' = to[c]
            /\ audit' = Append(audit, to[c])
            /\ UNCHANGED <<version, installed>>
       ELSE UNCHANGED row
    /\ Return(c)
    /\ UNCHANGED <<foretold, catalog, bindings>>

\* updateOrganizationModuleLifecycle: one transaction, compare and set on the
\* version; CONFLICT when the row is not at it.  MaxVersion bounds the versions.
TransitionUpdate(c) ==
    /\ pc[c] = "update"
    /\ IF version = expected[c]
       THEN /\ version < MaxVersion
            /\ lifecycle' = to[c]
            /\ version' = version + 1
            /\ audit' = Append(audit, to[c])
            /\ UNCHANGED installed
       ELSE UNCHANGED row
    /\ Return(c)
    /\ UNCHANGED <<foretold, catalog, bindings>>

(***************************************************************************)
(* bindOrganizationModuleRuntime and suspendOrRemoveRuntimeBinding.        *)
(***************************************************************************)

\* The installation must exist and the runtime must be of this module and
\* available.  The row's id and version never change, so the two reads count
\* as one.
BindRead(c, r) ==
    /\ pc[c] = "idle"
    /\ lifecycle # "missing"
    /\ r \notin Foreign
    /\ runtimeStatus[r] = "available"
    /\ chosen' = [chosen EXCEPT ![c] = r]
    /\ Goto(c, "compatibility")
    /\ UNCHANGED <<installation, catalog, bindings, to, expected>>

\* evaluateModuleRuntimeCompatibility.
BindCompatibility(c) ==
    /\ pc[c] = "compatibility"
    /\ IF compatibility[<<installed, chosen[c]>>] = "compatible"
       THEN Goto(c, "bind") /\ UNCHANGED locals
       ELSE Return(c)
    /\ UNCHANGED <<installation, catalog, bindings>>

\* Mutant: the same without the unique index.
InsertAnyway(c, b, s, x) ==
    /\ pc[c] = "bind"
    /\ status[b] = "missing"
    /\ status' = [status EXCEPT ![b] = s]
    /\ isExecutable' = [isExecutable EXCEPT ![b] = x]
    /\ boundTo' = [boundTo EXCEPT ![b] = chosen[c]]
    /\ Return(c)
    /\ UNCHANGED <<installation, catalog>>

\* insertBinding: a new row, "bound" and executable unless the input says
\* otherwise; the unique index refuses a second executable bound row.
BindInsert(c, b, s, x) ==
    /\ pc[c] = "bind"
    /\ status[b] = "missing"
    /\ IF s = "bound" /\ x /\ ExecutableBinding # {}
       THEN UNCHANGED bindings
       ELSE /\ status' = [status EXCEPT ![b] = s]
            /\ isExecutable' = [isExecutable EXCEPT ![b] = x]
            /\ boundTo' = [boundTo EXCEPT ![b] = chosen[c]]
    /\ Return(c)
    /\ UNCHANGED <<installation, catalog>>

\* updateBindingStatus: whatever status it is given, the row is no longer
\* executable.
UpdateBindingStatus(b, s) ==
    /\ status[b] \notin {"missing", s}
    /\ status' = [status EXCEPT ![b] = s]
    /\ isExecutable' = [isExecutable EXCEPT ![b] = FALSE]
    /\ UNCHANGED <<installation, catalog, boundTo, pc, locals>>

CatalogStep ==
    \/ \E v \in ModuleVersion : Publish(v)
    \/ \E r \in Runtime, s \in RuntimeStatus : RegisterRuntime(r, s)
    \/ \E v \in ModuleVersion, r \in Runtime, k \in Contract, s \in CompatibilityStatus :
         RecordCompatibility(v, r, k, s)

CallStep(c) ==
    \/ ProvisionRead(c)
    \/ \E v \in ModuleVersion, l \in LIFECYCLES : ProvisionInsert(c, v, l)
    \/ \E target \in LIFECYCLES, e \in 1..MaxVersion : TransitionRead(c, target, e)
    \/ TransitionBindings(c)
    \/ TransitionUpdate(c)
    \/ \E r \in Runtime : BindRead(c, r)
    \/ BindCompatibility(c)
    \/ \E b \in Binding, s \in BindingStatus, x \in BOOLEAN : BindInsert(c, b, s, x)

BindingStep == \E b \in Binding, s \in BindingStatus : UpdateBindingStatus(b, s)

Next == CatalogStep \/ BindingStep \/ \E c \in Caller : CallStep(c)

Spec == Init /\ [][Next]_vars

(***************************************************************************)
(* Properties.                                                             *)
(***************************************************************************)

\* Type invariant: the rows hold values their columns allow, and the audit trail
\* holds lifecycles only.
TypeOK ==
    /\ lifecycle \in LIFECYCLES \cup {"missing"}
    /\ version \in Nat
    /\ audit \in Seq(LIFECYCLES)
    /\ foretold \subseteq 1..MaxVersion
    /\ installed \in ModuleVersion \cup {None}
    /\ published \subseteq ModuleVersion
    /\ runtimeStatus \in [Runtime -> RuntimeStatus]
    /\ compatibility \in [ModuleVersion \X Runtime -> CompatibilityStatus]
    /\ recorded \subseteq ModuleVersion \X Runtime \X Contract
    /\ status \in [Binding -> BindingStatus \cup {"missing"}]
    /\ isExecutable \in [Binding -> BOOLEAN]
    /\ boundTo \in [Binding -> Runtime \cup {None}]
    /\ pc \in [Caller -> {"idle", "insert", "listBindings", "update", "compatibility", "bind"}]
    /\ to \in [Caller -> LIFECYCLES \cup {"missing"}]
    /\ expected \in [Caller -> Nat]
    /\ chosen \in [Caller -> Runtime \cup {None}]

\* A move is checked against one read of the row and written by a later
\* statement, yet whatever the callers interleave, the row moves one version
\* at a time, the audit trail is its history, and a move off TRANSITIONS
\* leaves a version that some call named before it existed: the control plane
\* implements ModuleLifecycle.
LifecycleImplemented == Lifecycle!Spec

\* The check of transitionOrganizationModuleLifecycle is made after the
\* transition was asked for and rows of bindings are never deleted: whatever
\* the callers interleave, and whichever versions they name, a transition
\* makes a module active only when the module has been bound.
ActivationWasBound ==
    [][lifecycle \notin {"missing", "active"} /\ lifecycle' = "active" =>
         \E b \in Binding : status[b] # "missing"]_vars

\* The unique index leaves at most one binding for the resolver to find, and
\* it is for a runtime of this module with compatibility evidence.
ExecutableIsEligible ==
    \A a, b \in ExecutableBinding :
      /\ a = b
      /\ boundTo[b] \in Runtime \ Foreign
      /\ \E k \in Contract : <<installed, boundTo[b], k>> \in recorded

\* A transition that is under way was legal in some version of the row; it is
\* legal in the one it names, while that is the current one, unless a call
\* named that version before it existed.
PendingMoveLegal ==
    \A c \in Caller : pc[c] \in {"listBindings", "update"} =>
      /\ to[c] \in LIFECYCLES
      /\ \E i \in 1..Len(audit) : LifecycleAllowed(audit[i], to[c])
      /\ expected[c] = version /\ version \notin foretold => LifecycleAllowed(lifecycle, to[c])

\* "invalid module lifecycle transition", the error of
\* transitionOrganizationModuleLifecycle: an installed module moves only where
\* TRANSITIONS leads from the lifecycle it is in.
MovesLegal ==
    [][lifecycle # "missing" /\ version' # version => LifecycleAllowed(lifecycle, lifecycle')]_vars

\* "active lifecycle requires executable runtime binding", the error of
\* transitionOrganizationModuleLifecycle: a module becomes active only while
\* a binding is executable.
ActivationHasBinding ==
    [][lifecycle \notin {"missing", "active"} /\ lifecycle' = "active" => ExecutableBinding # {}]_vars

=============================================================================
