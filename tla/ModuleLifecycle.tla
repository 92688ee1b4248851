--------------------------- MODULE ModuleLifecycle ---------------------------
(***************************************************************************)
(* What the module control plane promises about one organization's         *)
(* installation of a module (backend/services/moduleControlPlane.js).  It  *)
(* is installed once, in a lifecycle of the caller's choice; it then moves *)
(* one version at a time, and the audit trail is its whole history, each   *)
(* move entered once and in order.  A move follows TRANSITIONS, unless the *)
(* version it leaves was named by a call before that version existed: such *)
(* a call had its move checked against an earlier version of the row.      *)
(* ModuleControlPlane implements this with callers whose reads and writes  *)
(* interleave.                                                             *)
(***************************************************************************)
EXTENDS Naturals, Sequences

CONSTANT MaxVersion  \* bound: versions of the installation row

VARIABLES
    lifecycle,  \* organization_modules.lifecycle, "missing" before the row
    version,    \* organization_modules.version
    audit,      \* the lifecycles entered in audit_logs, oldest first
    foretold    \* history: versions named by a call before they existed

lifecycleVars == <<lifecycle, version, audit, foretold>>

LIFECYCLES == {"disabled", "provisioning", "active", "degraded", "suspended", "decommissioning"}

\* The constant of the same name: where each lifecycle may go.
TRANSITIONS ==
    [disabled        |-> {"provisioning"},
     provisioning    |-> {"disabled", "active", "suspended"},
     active          |-> {"degraded", "suspended", "decommissioning"},
     degraded        |-> {"suspended", "active", "decommissioning"},
     suspended       |-> {"provisioning", "decommissioning"},
     decommissioning |-> {}]

Init == lifecycle = "missing" /\ version = 0 /\ audit = <<>> /\ foretold = {}

Enter(to) ==
    /\ lifecycle' = to
    /\ version' = version + 1
    /\ audit' = Append(audit, to)
    /\ UNCHANGED foretold

Install == lifecycle = "missing" /\ \E to \in LIFECYCLES : Enter(to)

Move == lifecycle \in LIFECYCLES /\ \E to \in TRANSITIONS[lifecycle] : Enter(to)

\* A call names a version the row has not reached.
Foretell(e) ==
    /\ lifecycle \in LIFECYCLES
    /\ foretold' = foretold \cup {e}
    /\ UNCHANGED <<lifecycle, version, audit>>

\* Its move, legal in an earlier version, is written over the one it named.
Overtake ==
    /\ version \in foretold
    /\ \E i \in 1..Len(audit) : \E to \in TRANSITIONS[audit[i]] : Enter(to)

Next ==
    \/ Install
    \/ Move
    \/ Overtake
    \/ \E e \in (version + 1)..MaxVersion : Foretell(e)

Spec == Init /\ [][Next]_lifecycleVars

=============================================================================
