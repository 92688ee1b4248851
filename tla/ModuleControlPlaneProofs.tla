---------------------- MODULE ModuleControlPlaneProofs ----------------------
(***************************************************************************)
(* Proofs about ModuleControlPlane, for every set of callers, runtimes and *)
(* bindings: its types, the legality of the moves under way, and that it   *)
(* implements ModuleLifecycle.                                             *)
(***************************************************************************)
EXTENDS ModuleControlPlane, TLAPS

\* The types of a call's own variables.
CallTypes ==
    /\ pc \in [Caller -> {"idle", "insert", "listBindings", "update", "compatibility", "bind"}]
    /\ to \in [Caller -> LIFECYCLES \cup {"missing"}]
    /\ expected \in [Caller -> Nat]
    /\ chosen \in [Caller -> Runtime \cup {None}]

\* A call that returns leaves well-typed variables behind.
LEMMA ReturnTypes == ASSUME NEW c \in Caller, CallTypes, Return(c) PROVE CallTypes'
  BY DEF CallTypes, Return, Goto

-----------------------------------------------------------------------------
(***************************************************************************)
(* The inductive invariant: the types, the audit trail as the history of   *)
(* the row, and what a transition that is under way knows: its move is     *)
(* legal somewhere in that history, and the version it names has been      *)
(* reached or is counted as foretold.                                      *)
(***************************************************************************)

\* Every version of the row is in the audit trail, the current one last.
Audited ==
    /\ Len(audit) = version
    /\ lifecycle = "missing" => version = 0
    /\ lifecycle # "missing" => version > 0 /\ audit[version] = lifecycle

\* A version that a transition names was there when it was named, or is foretold.
NamedVersions ==
    \A c \in Caller : pc[c] \in {"listBindings", "update"} => expected[c] \in (0..version) \cup foretold

IInv == TypeOK /\ Audited /\ NamedVersions /\ PendingMoveLegal

\* A step from a state of the inductive invariant keeps every type.
LEMMA TypeStep == ASSUME TypeOK, PendingMoveLegal, [Next]_vars PROVE TypeOK'
<1>1. CASE CatalogStep
  <2>1. ASSUME NEW v \in ModuleVersion, Publish(v) PROVE TypeOK'
    BY <2>1 DEF TypeOK, Publish, installation, row, bindings, locals
  <2>2. ASSUME NEW r \in Runtime, NEW s \in RuntimeStatus, RegisterRuntime(r, s) PROVE TypeOK'
    BY <2>2 DEF TypeOK, RegisterRuntime, installation, row, bindings, locals
  <2>3. ASSUME NEW v \in ModuleVersion, NEW r \in Runtime, NEW k \in Contract,
               NEW s \in CompatibilityStatus, RecordCompatibility(v, r, k, s)
        PROVE  TypeOK'
    BY <2>3 DEF TypeOK, RecordCompatibility, installation, row, bindings, locals
  <2> QED
    BY <1>1, <2>1, <2>2, <2>3 DEF CatalogStep
<1>2. CASE BindingStep
  BY <1>2 DEF TypeOK, BindingStep, UpdateBindingStatus, installation, row, catalog, locals
<1>3. ASSUME NEW c \in Caller, CallStep(c) PROVE TypeOK'
  <2>1. CASE ProvisionRead(c)
    BY <2>1 DEF TypeOK, ProvisionRead, Goto, installation, row, catalog, bindings, locals
  <2>2. ASSUME NEW v \in ModuleVersion, NEW l \in LIFECYCLES, ProvisionInsert(c, v, l) PROVE TypeOK'
    <3>2. CASE lifecycle = "missing"
      <4>1. CallTypes'
        BY <2>2, ReturnTypes DEF TypeOK, CallTypes, ProvisionInsert
      <4>2. audit' \in Seq(LIFECYCLES)
        <5>1. audit' = Append(audit, l)
          BY <2>2, <3>2 DEF ProvisionInsert
        <5>2. audit \in Seq(LIFECYCLES)
          BY DEF TypeOK
        <5> QED
          BY <5>1, <5>2
      <4>3. lifecycle' \in LIFECYCLES /\ version' \in Nat /\ installed' \in ModuleVersion
        BY <2>2, <3>2 DEF ProvisionInsert
      <4> QED
        BY <2>2, <4>1, <4>2, <4>3 DEF TypeOK, CallTypes, ProvisionInsert, catalog, bindings
    <3>3. CASE lifecycle # "missing"
      BY <2>2, <3>3, ReturnTypes
         DEF TypeOK, CallTypes, ProvisionInsert, row, catalog, bindings
    <3> QED
      BY <3>2, <3>3
  <2>3. ASSUME NEW target \in LIFECYCLES, NEW e \in 1..MaxVersion, TransitionRead(c, target, e)
        PROVE  TypeOK'
    BY <2>3, ConstantsAssumption DEF TypeOK, TransitionRead, Goto, installation, row, catalog, bindings
  <2>4. CASE TransitionBindings(c)
    <3>1. CASE ExecutableBinding # {}
      BY <2>4, <3>1 DEF TypeOK, TransitionBindings, Goto, installation, row, catalog, bindings, locals
    <3>2. CASE ExecutableBinding = {}
      BY <2>4, <3>2, ReturnTypes
         DEF TypeOK, CallTypes, TransitionBindings, installation, row, catalog, bindings
    <3> QED
      BY <3>1, <3>2
  <2>5. CASE TransitionUpdate(c)
    <3>1. CASE version = expected[c]
      <4>1. to[c] \in LIFECYCLES
        BY <2>5 DEF PendingMoveLegal, TransitionUpdate
      <4>2. CallTypes'
        BY <2>5, ReturnTypes DEF TypeOK, CallTypes, TransitionUpdate
      <4>3. audit' \in Seq(LIFECYCLES)
        <5>1. audit' = Append(audit, to[c])
          BY <2>5, <3>1 DEF TransitionUpdate
        <5>2. audit \in Seq(LIFECYCLES)
          BY DEF TypeOK
        <5> QED
          BY <4>1, <5>1, <5>2
      <4>4. lifecycle' \in LIFECYCLES /\ version' \in Nat /\ installed' = installed
        BY <2>5, <3>1, <4>1 DEF TypeOK, TransitionUpdate
      <4> QED
        BY <2>5, <4>2, <4>3, <4>4 DEF TypeOK, CallTypes, TransitionUpdate, catalog, bindings
    <3>2. CASE version # expected[c]
      BY <2>5, <3>2, ReturnTypes
         DEF TypeOK, CallTypes, TransitionUpdate, installation, row, catalog, bindings
    <3> QED
      BY <3>1, <3>2
  <2>6. ASSUME NEW r \in Runtime, BindRead(c, r) PROVE TypeOK'
    BY <2>6 DEF TypeOK, BindRead, Goto, installation, row, catalog, bindings
  <2>7. CASE BindCompatibility(c)
    <3>1. CASE compatibility[<<installed, chosen[c]>>] = "compatible"
      BY <2>7, <3>1 DEF TypeOK, BindCompatibility, Goto, installation, row, catalog, bindings, locals
    <3>2. CASE compatibility[<<installed, chosen[c]>>] # "compatible"
      BY <2>7, <3>2, ReturnTypes
         DEF TypeOK, CallTypes, BindCompatibility, installation, row, catalog, bindings
    <3> QED
      BY <3>1, <3>2
  <2>8. ASSUME NEW b \in Binding, NEW s \in BindingStatus, NEW x \in BOOLEAN, BindInsert(c, b, s, x)
        PROVE  TypeOK'
    BY <2>8, ReturnTypes
       DEF TypeOK, CallTypes, BindInsert, installation, row, catalog, bindings
  <2> QED
    BY <1>3, <2>1, <2>2, <2>3, <2>4, <2>5, <2>6, <2>7, <2>8 DEF CallStep
<1>4. CASE UNCHANGED vars
  BY <1>4 DEF TypeOK, vars, installation, row, catalog, bindings, locals
<1> QED
  BY <1>1, <1>2, <1>3, <1>4 DEF Next

\* A call names a version ahead of the row.
Foretelling ==
    /\ lifecycle \in LIFECYCLES
    /\ \E e \in (version + 1)..MaxVersion : foretold' = foretold \cup {e}

\* What every step does to the row: nothing, the first insert, or one
\* transition whose compare and set succeeded.
LEMMA RowStep ==
  ASSUME IInv, [Next]_vars
  PROVE  \/ UNCHANGED <<lifecycle, version, audit>> /\ (UNCHANGED foretold \/ Foretelling)
         \/ /\ lifecycle = "missing" /\ version = 0 /\ version' = 1
            /\ \E l \in LIFECYCLES : lifecycle' = l /\ audit' = Append(audit, l)
            /\ UNCHANGED foretold
         \/ \E c \in Caller :
              /\ pc[c] = "update"
              /\ version = expected[c] /\ version' = version + 1
              /\ lifecycle' = to[c]
              /\ audit' = Append(audit, to[c])
              /\ UNCHANGED foretold
<1>1. CASE CatalogStep
  BY <1>1 DEF CatalogStep, Publish, RegisterRuntime, RecordCompatibility, installation, row
<1>2. CASE BindingStep
  BY <1>2 DEF BindingStep, UpdateBindingStatus, installation, row
<1>3. ASSUME NEW c \in Caller, CallStep(c)
      PROVE  \/ UNCHANGED <<lifecycle, version, audit>> /\ (UNCHANGED foretold \/ Foretelling)
             \/ \E v \in ModuleVersion, l \in LIFECYCLES : ProvisionInsert(c, v, l)
             \/ TransitionUpdate(c)
  <2>1. ASSUME NEW target \in LIFECYCLES, NEW e \in 1..MaxVersion, TransitionRead(c, target, e)
        PROVE  UNCHANGED <<lifecycle, version, audit>> /\ (UNCHANGED foretold \/ Foretelling)
    <3>1. UNCHANGED <<lifecycle, version, audit>> /\ lifecycle \in LIFECYCLES
      BY <2>1 DEF TransitionRead, row, LifecycleAllowed
    <3>2. e > version => e \in (version + 1)..MaxVersion
      BY ConstantsAssumption DEF IInv, TypeOK, ConstantsAssumption
    <3>3. foretold' = IF e > version THEN foretold \cup {e} ELSE foretold
      BY <2>1 DEF TransitionRead
    <3> QED
      BY <3>1, <3>2, <3>3 DEF Foretelling
  <2> QED
    BY <1>3, <2>1 DEF CallStep, ProvisionRead, TransitionBindings, BindRead,
                      BindCompatibility, BindInsert, installation, row
<1>4. CASE UNCHANGED vars
  BY <1>4 DEF vars, installation, row
<1>5. ASSUME NEW c \in Caller, NEW v \in ModuleVersion, NEW l \in LIFECYCLES, ProvisionInsert(c, v, l)
      PROVE  \/ UNCHANGED <<lifecycle, version, audit, foretold>>
             \/ /\ lifecycle = "missing" /\ version = 0 /\ version' = 1
                /\ lifecycle' = l /\ audit' = Append(audit, l)
                /\ UNCHANGED foretold
  BY <1>5 DEF IInv, Audited, ProvisionInsert, row
<1>6. ASSUME NEW c \in Caller, TransitionUpdate(c)
      PROVE  \/ UNCHANGED <<lifecycle, version, audit, foretold>>
             \/ /\ pc[c] = "update"
                /\ version = expected[c] /\ version' = version + 1
                /\ lifecycle' = to[c] /\ audit' = Append(audit, to[c])
                /\ UNCHANGED foretold
  BY <1>6 DEF TransitionUpdate, row
<1>7. CASE \E c \in Caller : CallStep(c)
  <2>1. PICK c \in Caller : CallStep(c)
    BY <1>7
  <2>2. CASE \E v \in ModuleVersion, l \in LIFECYCLES : ProvisionInsert(c, v, l)
    BY <1>5, <2>2
  <2>3. CASE TransitionUpdate(c)
    BY <1>6, <2>3
  <2> QED
    BY <1>3, <2>1, <2>2, <2>3
<1> QED
  BY <1>1, <1>2, <1>4, <1>7 DEF Next

\* An entry of the audit trail stays where it is, and the row's version grows.
LEMMA HistoryKept ==
  ASSUME IInv, [Next]_vars
  PROVE  /\ version' \in {version, version + 1}
         /\ Len(audit) <= Len(audit') /\ \A i \in 1..Len(audit) : audit'[i] = audit[i]
         /\ version' = version => lifecycle' = lifecycle
<1>0. TypeOK /\ audit \in Seq(LIFECYCLES) /\ version \in Nat
  BY DEF IInv, TypeOK
<1>1. CASE UNCHANGED <<lifecycle, version, audit>>
  BY <1>0, <1>1
<1>2. ASSUME NEW l \in LIFECYCLES, audit' = Append(audit, l), version' = version + 1
      PROVE  Len(audit) <= Len(audit') /\ \A i \in 1..Len(audit) : audit'[i] = audit[i]
  BY <1>0, <1>2
<1>3. \A c \in Caller : pc[c] = "update" => to[c] \in LIFECYCLES
  BY DEF IInv, PendingMoveLegal
<1> QED
  BY <1>0, <1>1, <1>2, <1>3, RowStep

\* The audit trail stays the history of the row.
LEMMA AuditedStep == ASSUME IInv, [Next]_vars PROVE Audited'
<1>0. Audited /\ audit \in Seq(LIFECYCLES) /\ version \in Nat /\ "missing" \notin LIFECYCLES
  BY DEF IInv, TypeOK, LIFECYCLES, Lifecycle!LIFECYCLES
<1>1. CASE UNCHANGED <<lifecycle, version, audit>>
  BY <1>0, <1>1 DEF Audited
<1>2. ASSUME NEW l \in LIFECYCLES, audit' = Append(audit, l), lifecycle' = l, version' = version + 1
      PROVE  Audited'
  <2>1. Len(audit') = version' /\ audit'[version'] = l
    BY <1>0, <1>2 DEF Audited
  <2> QED
    BY <1>0, <1>2, <2>1 DEF Audited
<1>3. \A c \in Caller : pc[c] = "update" => to[c] \in LIFECYCLES
  BY DEF IInv, PendingMoveLegal
<1>4. \/ UNCHANGED <<lifecycle, version, audit>>
      \/ \E l \in LIFECYCLES : audit' = Append(audit, l) /\ lifecycle' = l /\ version' = version + 1
  BY <1>0, <1>3, RowStep DEF Audited
<1> QED
  BY <1>1, <1>2, <1>4

\* A transition under way was under way before the step, or has just been read.
LEMMA PendingFrom ==
  ASSUME TypeOK, [Next]_vars, NEW d \in Caller, pc'[d] \in {"listBindings", "update"}
  PROVE  \/ pc[d] \in {"listBindings", "update"} /\ to'[d] = to[d] /\ expected'[d] = expected[d]
         \/ \E target \in LIFECYCLES, e \in 1..MaxVersion : TransitionRead(d, target, e)
<1>1. CASE CatalogStep
  BY <1>1 DEF CatalogStep, Publish, RegisterRuntime, RecordCompatibility, locals
<1>2. CASE BindingStep
  BY <1>2 DEF BindingStep, UpdateBindingStatus, locals
<1>3. ASSUME NEW c \in Caller, CallStep(c), c # d
      PROVE  pc'[d] = pc[d] /\ to'[d] = to[d] /\ expected'[d] = expected[d]
  BY <1>3
     DEF CallStep, ProvisionRead, ProvisionInsert, TransitionRead, TransitionBindings,
         TransitionUpdate, BindRead, BindCompatibility, BindInsert, Return, Goto, locals, TypeOK
<1>4. CASE CallStep(d)
  BY <1>4
     DEF CallStep, ProvisionRead, ProvisionInsert, TransitionBindings, TransitionUpdate,
         BindRead, BindCompatibility, BindInsert, Return, Goto, locals, TypeOK
<1>5. CASE UNCHANGED vars
  BY <1>5 DEF vars, locals
<1> QED
  BY <1>1, <1>2, <1>3, <1>4, <1>5 DEF Next

\* A step keeps what is known of the moves under way: another call's
\* transition makes a version that was named before is foretold, and no step
\* changes the row without a version.
LEMMA PendingStep == ASSUME IInv, [Next]_vars PROVE NamedVersions' /\ PendingMoveLegal'
<1> SUFFICES ASSUME NEW d \in Caller, pc'[d] \in {"listBindings", "update"}
             PROVE  /\ expected'[d] \in (0..version') \cup foretold'
                    /\ to'[d] \in LIFECYCLES
                    /\ \E i \in 1..Len(audit') : LifecycleAllowed(audit'[i], to'[d])
                    /\ expected'[d] = version' /\ version' \notin foretold' =>
                         LifecycleAllowed(lifecycle', to'[d])
  BY DEF NamedVersions, PendingMoveLegal, LifecycleAllowed
<1>0. TypeOK /\ TypeOK' /\ Audited /\ version \in Nat /\ Len(audit) \in Nat
  BY TypeStep DEF IInv, TypeOK
<1>1. CASE pc[d] \in {"listBindings", "update"} /\ to'[d] = to[d] /\ expected'[d] = expected[d]
  <2>1. /\ to[d] \in LIFECYCLES
        /\ expected[d] \in (0..version) \cup foretold
        /\ expected[d] = version /\ version \notin foretold => LifecycleAllowed(lifecycle, to[d])
    BY <1>1 DEF IInv, NamedVersions, PendingMoveLegal
  <2>2. PICK i \in 1..Len(audit) : LifecycleAllowed(audit[i], to[d])
    BY <1>1 DEF IInv, PendingMoveLegal
  <2>3. foretold \subseteq foretold'
    BY RowStep DEF Foretelling
  <2>4. i \in 1..Len(audit') /\ LifecycleAllowed(audit'[i], to'[d])
    <3>1. i \in 1..Len(audit')
      BY <1>0, <2>2, HistoryKept DEF TypeOK
    <3> QED
      BY <1>1, <2>2, <3>1, HistoryKept
  <2>5. expected'[d] \in (0..version') \cup foretold'
    BY <1>0, <1>1, <2>1, <2>3, HistoryKept
  <2>6. ASSUME expected'[d] = version', version' \notin foretold' PROVE LifecycleAllowed(lifecycle', to'[d])
    <3>1. expected[d] \in 0..version
      BY <1>1, <2>1, <2>3, <2>6
    <3>2. version' = version
      BY <1>0, <1>1, <2>6, <3>1, HistoryKept
    <3> QED
      BY <1>1, <2>1, <2>3, <2>6, <3>2, HistoryKept
  <2> QED
    BY <1>1, <2>1, <2>4, <2>5, <2>6
<1>2. ASSUME NEW target \in LIFECYCLES, NEW e \in 1..MaxVersion, TransitionRead(d, target, e)
      PROVE  /\ expected'[d] \in (0..version') \cup foretold'
             /\ to'[d] \in LIFECYCLES
             /\ \E i \in 1..Len(audit') : LifecycleAllowed(audit'[i], to'[d])
             /\ LifecycleAllowed(lifecycle', to'[d])
  <2>1. /\ to'[d] = target /\ expected'[d] = e
        /\ foretold' = IF e > version THEN foretold \cup {e} ELSE foretold
        /\ UNCHANGED <<lifecycle, version, audit>> /\ LifecycleAllowed(lifecycle, target)
    BY <1>0, <1>2 DEF TransitionRead, TypeOK, row
  <2>2. lifecycle \in LIFECYCLES /\ "missing" \notin LIFECYCLES
    BY <2>1 DEF LifecycleAllowed, LIFECYCLES, Lifecycle!LIFECYCLES
  <2>3. version \in 1..Len(audit) /\ audit[version] = lifecycle
    BY <1>0, <2>2 DEF Audited
  <2>4. e \in (0..version) \cup foretold'
    BY <1>0, <2>1, ConstantsAssumption DEF ConstantsAssumption
  <2> QED
    BY <2>1, <2>3, <2>4 DEF LifecycleAllowed
<1> QED
  BY <1>0, <1>1, <1>2, PendingFrom

\* The inductive invariant holds from the first state on.
LEMMA Inductive == Spec => []IInv
<1>1. Init => IInv
  BY DEF Init, IInv, Audited, NamedVersions, PendingMoveLegal, TypeOK, RuntimeStatus, CompatibilityStatus, BindingStatus
<1>2. IInv /\ [Next]_vars => IInv'
  <2> SUFFICES ASSUME IInv, [Next]_vars PROVE IInv'
    OBVIOUS
  <2>1. TypeOK'
    BY TypeStep DEF IInv
  <2>2. Audited'
    BY AuditedStep
  <2>3. NamedVersions' /\ PendingMoveLegal'
    BY PendingStep
  <2> QED
    BY <2>1, <2>2, <2>3 DEF IInv
<1> QED
  BY <1>1, <1>2, PTL DEF Spec

\* Every variable keeps its type, whatever calls interleave.
THEOREM TypeCorrect == Spec => []TypeOK
<1>1. IInv => TypeOK
  BY DEF IInv
<1> QED
  BY <1>1, Inductive, PTL

\* A transition under way is legal somewhere in the history of the row, and in
\* the version it names while that is the current one and was not foretold.
THEOREM PendingLegal == Spec => []PendingMoveLegal
<1>1. IInv => PendingMoveLegal
  BY DEF IInv
<1> QED
  BY <1>1, Inductive, PTL

\* The control plane implements ModuleLifecycle: however calls interleave and
\* whichever versions they name, the row moves one version at a time, each
\* entered once in the audit trail, and off TRANSITIONS only from a version
\* that was named before it existed.
THEOREM Implementation == Spec => LifecycleImplemented
<1>1. Init => Lifecycle!Init
  BY DEF Init, Lifecycle!Init
<1>2. IInv /\ [Next]_vars => [Lifecycle!Next]_(Lifecycle!lifecycleVars)
  <2> SUFFICES ASSUME IInv, [Next]_vars PROVE [Lifecycle!Next]_(Lifecycle!lifecycleVars)
    OBVIOUS
  <2>1. CASE UNCHANGED <<lifecycle, version, audit>> /\ (UNCHANGED foretold \/ Foretelling)
    BY <2>1 DEF Foretelling, LIFECYCLES, Lifecycle!lifecycleVars, Lifecycle!Next, Lifecycle!Foretell
  <2>2. ASSUME NEW l \in LIFECYCLES, lifecycle = "missing", lifecycle' = l,
               version = 0, version' = 1, audit' = Append(audit, l), UNCHANGED foretold
        PROVE  Lifecycle!Install
    BY <2>2 DEF LIFECYCLES, Lifecycle!Install, Lifecycle!Enter
  <2>3. ASSUME NEW c \in Caller, pc[c] = "update",
               version = expected[c], version' = version + 1,
               lifecycle' = to[c], audit' = Append(audit, to[c]), UNCHANGED foretold
        PROVE  Lifecycle!Move \/ Lifecycle!Overtake
    <3>1. Lifecycle!Enter(to[c])
      BY <2>3 DEF Lifecycle!Enter
    <3>2. CASE version \notin foretold
      <4>1. LifecycleAllowed(lifecycle, to[c])
        BY <2>3, <3>2 DEF IInv, PendingMoveLegal
      <4> QED
        BY <3>1, <4>1 DEF LifecycleAllowed, LIFECYCLES, Lifecycle!Move
    <3>3. CASE version \in foretold
      <4>1. \E i \in 1..Len(audit) : LifecycleAllowed(audit[i], to[c])
        BY <2>3 DEF IInv, PendingMoveLegal
      <4> QED
        BY <3>1, <3>3, <4>1 DEF LifecycleAllowed, Lifecycle!Overtake
    <3> QED
      BY <3>2, <3>3
  <2> QED
    BY <2>1, <2>2, <2>3, RowStep DEF Lifecycle!Next
<1> QED
  BY <1>1, <1>2, Inductive, PTL DEF Spec, LifecycleImplemented, Lifecycle!Spec

-----------------------------------------------------------------------------
(***************************************************************************)
(* Activation: a transition to active is written only after some binding   *)
(* was seen.                                                               *)
(***************************************************************************)

EverBound == \E b \in Binding : status[b] # "missing"

\* An activation that is about to be written has seen a binding.
Activating == (\E c \in Caller : pc[c] = "update" /\ to[c] = "active") => EverBound

\* Rows of bindings stay.
LEMMA BoundStays == ASSUME TypeOK, [Next]_vars, EverBound PROVE EverBound'
<1>1. CASE CatalogStep
  BY <1>1 DEF CatalogStep, Publish, RegisterRuntime, RecordCompatibility, bindings, EverBound
<1>2. CASE BindingStep
  BY <1>2 DEF BindingStep, UpdateBindingStatus, EverBound, TypeOK, BindingStatus
<1>3. ASSUME NEW c \in Caller, CallStep(c),
             ~ \E b \in Binding, s \in BindingStatus, x \in BOOLEAN : BindInsert(c, b, s, x)
      PROVE  UNCHANGED status
  BY <1>3 DEF CallStep, ProvisionRead, ProvisionInsert, TransitionRead, TransitionBindings,
              TransitionUpdate, BindRead, BindCompatibility, bindings
<1>4. ASSUME NEW c \in Caller, NEW b \in Binding, NEW s \in BindingStatus, NEW x \in BOOLEAN,
             BindInsert(c, b, s, x)
      PROVE  EverBound'
  BY <1>4 DEF BindInsert, bindings, EverBound, TypeOK, BindingStatus
<1>5. CASE UNCHANGED vars
  BY <1>5 DEF vars, bindings, EverBound
<1> QED
  BY <1>1, <1>2, <1>3, <1>4, <1>5 DEF Next, EverBound

LEMMA ActivatingStep == ASSUME IInv, Activating, [Next]_vars PROVE Activating'
<1> SUFFICES ASSUME NEW c \in Caller, pc'[c] = "update", to'[c] = "active" PROVE EverBound'
  BY DEF Activating
<1>0. TypeOK
  BY DEF IInv
<1>1. CASE pc[c] = "update" /\ to[c] = "active"
  BY <1>0, <1>1, BoundStays DEF Activating
<1>2. CASE TransitionBindings(c)
  BY <1>0, <1>2, BoundStays DEF TransitionBindings, Return, Goto, ExecutableBinding, EverBound, TypeOK
<1>3. (pc[c] = "update" /\ to[c] = "active") \/ TransitionBindings(c)
  <2>1. CASE CatalogStep
    BY <2>1 DEF CatalogStep, Publish, RegisterRuntime, RecordCompatibility, locals
  <2>2. CASE BindingStep
    BY <2>2 DEF BindingStep, UpdateBindingStatus, locals
  <2>3. ASSUME NEW d \in Caller, CallStep(d), d # c
        PROVE  pc'[c] = pc[c] /\ to'[c] = to[c]
    BY <1>0, <2>3
       DEF CallStep, ProvisionRead, ProvisionInsert, TransitionRead, TransitionBindings,
           TransitionUpdate, BindRead, BindCompatibility, BindInsert, Return, Goto, locals, TypeOK
  <2>4. CASE CallStep(c)
    BY <1>0, <2>4
       DEF CallStep, ProvisionRead, ProvisionInsert, TransitionRead, TransitionUpdate,
           BindRead, BindCompatibility, BindInsert, Return, Goto, locals, TypeOK
  <2>5. CASE UNCHANGED vars
    BY <2>5 DEF vars, locals
  <2> QED
    BY <2>1, <2>2, <2>3, <2>4, <2>5 DEF Next
<1> QED
  BY <1>1, <1>2, <1>3

\* A transition makes a module active only when it has been bound, however
\* the calls interleave and whichever versions they name.
THEOREM Bound == Spec => ActivationWasBound
<1>1. Init => Activating
  BY DEF Init, Activating
<1>2. IInv /\ Activating /\ [Next]_vars =>
        (lifecycle \notin {"missing", "active"} /\ lifecycle' = "active" => EverBound)
  BY RowStep DEF Activating
<1>3. IInv /\ Activating /\ [Next]_vars => Activating'
  BY ActivatingStep
<1> QED
  BY <1>1, <1>2, <1>3, Inductive, PTL DEF Spec, ActivationWasBound, EverBound

-----------------------------------------------------------------------------
(***************************************************************************)
(* Bindings: what a call that binds has read stays true until its insert,  *)
(* since the row's version and the evidence, once there, do not change.    *)
(***************************************************************************)

Evidence(v, r) == \E k \in Contract : <<v, r, k>> \in recorded

\* A row has the version it was inserted with, and a status comes from a record.
Installed ==
    /\ lifecycle # "missing" => installed \in ModuleVersion
    /\ \A v \in ModuleVersion, r \in Runtime :
         compatibility[<<v, r>>] # "missing" => Evidence(v, r)

\* A call that binds has a row and a runtime of this module, and before its
\* insert it has seen evidence for them.
BinderReady ==
    \A c \in Caller :
      /\ pc[c] \in {"compatibility", "bind"} => lifecycle # "missing" /\ chosen[c] \in Runtime \ Foreign
      /\ pc[c] = "bind" => Evidence(installed, chosen[c])

Eligible ==
    \A b \in Binding : isExecutable[b] /\ status[b] = "bound" =>
      /\ lifecycle # "missing"
      /\ boundTo[b] \in Runtime \ Foreign
      /\ Evidence(installed, boundTo[b])

OneExecutable ==
    \A a, b \in Binding :
      isExecutable[a] /\ status[a] = "bound" /\ isExecutable[b] /\ status[b] = "bound" => a = b

EInv == Installed /\ BinderReady /\ Eligible /\ OneExecutable

\* A row stays, with its version; records stay.
LEMMA RowKept ==
  ASSUME IInv, [Next]_vars
  PROVE  /\ lifecycle # "missing" => lifecycle' # "missing" /\ installed' = installed
         /\ recorded \subseteq recorded'
         /\ \A v, r : Evidence(v, r) => Evidence(v, r)'
<1>1. lifecycle # "missing" => lifecycle' # "missing"
  <2>1. "missing" \notin LIFECYCLES
    BY DEF LIFECYCLES, Lifecycle!LIFECYCLES
  <2>2. \A c \in Caller : pc[c] = "update" => to[c] \in LIFECYCLES
    BY DEF IInv, PendingMoveLegal
  <2> QED
    BY <2>1, <2>2, RowStep
<1>2. lifecycle # "missing" => installed' = installed
  BY DEF Next, CatalogStep, BindingStep, CallStep, vars, installation, row, Publish, RegisterRuntime,
         RecordCompatibility, UpdateBindingStatus, ProvisionRead, ProvisionInsert, TransitionRead,
         TransitionBindings, TransitionUpdate, BindRead, BindCompatibility, BindInsert
<1>3. recorded \subseteq recorded'
  BY DEF Next, CatalogStep, BindingStep, CallStep, vars, catalog, Publish, RegisterRuntime,
         RecordCompatibility, UpdateBindingStatus, ProvisionRead, ProvisionInsert, TransitionRead,
         TransitionBindings, TransitionUpdate, BindRead, BindCompatibility, BindInsert
<1> QED
  BY <1>1, <1>2, <1>3 DEF Evidence

LEMMA InstalledStep == ASSUME IInv, EInv, [Next]_vars PROVE Installed'
<1>1. TypeOK /\ Installed
  BY DEF IInv, EInv
<1>2. lifecycle' # "missing" => installed' \in ModuleVersion
  <2>1. CASE lifecycle # "missing"
    BY <1>1, <2>1, RowKept DEF Installed
  <2>2. CASE lifecycle = "missing" /\ \E c \in Caller, v \in ModuleVersion, l \in LIFECYCLES :
                                        ProvisionInsert(c, v, l)
    BY <2>2 DEF ProvisionInsert
  <2>3. CASE lifecycle = "missing" /\ ~ \E c \in Caller, v \in ModuleVersion, l \in LIFECYCLES :
                                          ProvisionInsert(c, v, l)
    <3>1. ASSUME NEW c \in Caller, TransitionUpdate(c) PROVE FALSE
      <4>1. Len(audit) = 0
        BY <2>3 DEF IInv, Audited
      <4>2. PICK i \in 1..Len(audit) : TRUE
        BY <3>1 DEF IInv, PendingMoveLegal, TransitionUpdate
      <4> QED
        BY <4>1, <4>2
    <3>2. lifecycle' = lifecycle
      BY <2>3, <3>1
         DEF Next, CatalogStep, BindingStep, CallStep, vars, installation, row, Publish, RegisterRuntime,
             RecordCompatibility, UpdateBindingStatus, ProvisionRead, TransitionRead,
             TransitionBindings, BindRead, BindCompatibility, BindInsert
    <3> QED
      BY <2>3, <3>2
  <2> QED
    BY <2>1, <2>2, <2>3
<1>3. ASSUME NEW v \in ModuleVersion, NEW r \in Runtime, compatibility'[<<v, r>>] # "missing"
      PROVE  Evidence(v, r)'
  <2>1. CASE compatibility[<<v, r>>] # "missing"
    BY <1>1, <2>1, RowKept DEF Installed
  <2>2. ASSUME NEW w \in ModuleVersion, NEW q \in Runtime, NEW k \in Contract,
               NEW s \in CompatibilityStatus, RecordCompatibility(w, q, k, s),
               compatibility[<<v, r>>] = "missing"
        PROVE  Evidence(v, r)'
    <3>1. w = v /\ q = r
      BY <1>1, <1>3, <2>2 DEF RecordCompatibility, TypeOK
    <3> QED
      BY <2>2, <3>1 DEF RecordCompatibility, Evidence
  <2>3. CASE UNCHANGED compatibility
    BY <1>3, <2>1, <2>3
  <2> QED
    BY <2>1, <2>2, <2>3
       DEF Next, CatalogStep, BindingStep, CallStep, vars, catalog, Publish, RegisterRuntime,
           UpdateBindingStatus, ProvisionRead, ProvisionInsert, TransitionRead,
           TransitionBindings, TransitionUpdate, BindRead, BindCompatibility, BindInsert
<1> QED
  BY <1>2, <1>3 DEF Installed

LEMMA BinderStep == ASSUME IInv, EInv, [Next]_vars PROVE BinderReady'
<1> SUFFICES ASSUME NEW d \in Caller, pc'[d] \in {"compatibility", "bind"}
             PROVE  /\ lifecycle' # "missing" /\ chosen'[d] \in Runtime \ Foreign
                    /\ pc'[d] = "bind" => Evidence(installed, chosen[d])'
  BY DEF BinderReady
<1>0. TypeOK /\ Installed /\ BinderReady
  BY DEF IInv, EInv
<1>1. CASE pc'[d] = pc[d] /\ chosen'[d] = chosen[d]
  <2>1. /\ lifecycle # "missing" /\ chosen[d] \in Runtime \ Foreign
        /\ pc[d] = "bind" => Evidence(installed, chosen[d])
    BY <1>0, <1>1 DEF BinderReady
  <2>2. lifecycle' # "missing" /\ installed' = installed
    BY <2>1, RowKept
  <2>3. pc[d] = "bind" => Evidence(installed, chosen[d])'
    BY <1>1, <2>1, <2>2, RowKept DEF Evidence
  <2> QED
    BY <1>1, <2>1, <2>2, <2>3
<1>2. CASE \E r \in Runtime : BindRead(d, r)
  BY <1>0, <1>2 DEF BindRead, Goto, TypeOK, installation, row
<1>3. CASE BindCompatibility(d)
  <2>1. /\ lifecycle # "missing" /\ chosen[d] \in Runtime \ Foreign /\ installed \in ModuleVersion
    BY <1>0, <1>3 DEF BindCompatibility, BinderReady, Installed
  <2>2. compatibility[<<installed, chosen[d]>>] = "compatible" /\ chosen' = chosen
    BY <1>0, <1>3 DEF BindCompatibility, Return, Goto, TypeOK, locals
  <2>3. Evidence(installed, chosen[d])
    BY <1>0, <2>1, <2>2 DEF Installed
  <2> QED
    BY <1>3, <2>1, <2>2, <2>3 DEF BindCompatibility, installation, row, catalog, Evidence
<1>4. \/ pc'[d] = pc[d] /\ chosen'[d] = chosen[d]
      \/ \E r \in Runtime : BindRead(d, r)
      \/ BindCompatibility(d)
  <2>1. CASE CatalogStep
    BY <2>1 DEF CatalogStep, Publish, RegisterRuntime, RecordCompatibility, locals
  <2>2. CASE BindingStep
    BY <2>2 DEF BindingStep, UpdateBindingStatus, locals
  <2>3. ASSUME NEW c \in Caller, CallStep(c), c # d PROVE pc'[d] = pc[d] /\ chosen'[d] = chosen[d]
    BY <1>0, <2>3
       DEF CallStep, ProvisionRead, ProvisionInsert, TransitionRead, TransitionBindings,
           TransitionUpdate, BindRead, BindCompatibility, BindInsert, Return, Goto, locals, TypeOK
  <2>4. CASE CallStep(d)
    BY <1>0, <2>4
       DEF CallStep, ProvisionRead, ProvisionInsert, TransitionRead, TransitionBindings,
           TransitionUpdate, BindInsert, Return, Goto, locals, TypeOK
  <2>5. CASE UNCHANGED vars
    BY <2>5 DEF vars, locals
  <2> QED
    BY <2>1, <2>2, <2>3, <2>4, <2>5 DEF Next
<1> QED
  BY <1>1, <1>2, <1>3, <1>4

LEMMA ExecutableStep == ASSUME IInv, EInv, [Next]_vars PROVE Eligible' /\ OneExecutable'
<1> DEFINE Exec(b) == isExecutable[b] /\ status[b] = "bound"
<1>0. TypeOK /\ BinderReady /\ Eligible /\ OneExecutable
  BY DEF IInv, EInv
<1>1. ASSUME NEW b \in Binding, Exec(b), boundTo'[b] = boundTo[b]
      PROVE  /\ lifecycle' # "missing" /\ boundTo'[b] \in Runtime \ Foreign
             /\ Evidence(installed, boundTo[b])'
  <2>1. lifecycle # "missing" /\ boundTo[b] \in Runtime \ Foreign /\ Evidence(installed, boundTo[b])
    BY <1>0, <1>1 DEF Eligible
  <2>2. lifecycle' # "missing" /\ installed' = installed
    BY <2>1, RowKept
  <2> QED
    BY <1>1, <2>1, <2>2, RowKept DEF Evidence
<1>2. CASE \A b \in Binding : Exec(b)' => Exec(b) /\ boundTo'[b] = boundTo[b]
  BY <1>0, <1>1, <1>2 DEF Eligible, OneExecutable
<1>3. ASSUME NEW c \in Caller, NEW b \in Binding, BindInsert(c, b, "bound", TRUE), ExecutableBinding = {}
      PROVE  Eligible' /\ OneExecutable'
  <2>1. \A a \in Binding : Exec(a)' => a = b
    BY <1>0, <1>3 DEF BindInsert, ExecutableBinding, TypeOK
  <2>2. /\ lifecycle # "missing" /\ chosen[c] \in Runtime \ Foreign
        /\ Evidence(installed, chosen[c])
    BY <1>0, <1>3 DEF BindInsert, BinderReady
  <2>3. boundTo'[b] = chosen[c]
    BY <1>0, <1>3 DEF BindInsert, TypeOK
  <2>4. lifecycle' # "missing" /\ Evidence(installed, boundTo[b])'
    BY <1>3, <2>2, <2>3 DEF BindInsert, installation, row, catalog, Evidence
  <2> QED
    BY <2>1, <2>2, <2>3, <2>4 DEF Eligible, OneExecutable
<1>4. ASSUME NEW c \in Caller, NEW b \in Binding, NEW s \in BindingStatus, NEW x \in BOOLEAN,
             BindInsert(c, b, s, x), ~(s = "bound" /\ x /\ ExecutableBinding = {})
      PROVE  \A a \in Binding : Exec(a)' => Exec(a) /\ boundTo'[a] = boundTo[a]
  <2>1. CASE UNCHANGED bindings
    BY <2>1 DEF bindings
  <2>2. CASE /\ ~(s = "bound" /\ x)
             /\ status[b] = "missing"
             /\ status' = [status EXCEPT ![b] = s]
             /\ isExecutable' = [isExecutable EXCEPT ![b] = x]
             /\ boundTo' = [boundTo EXCEPT ![b] = chosen[c]]
    BY <1>0, <2>2 DEF TypeOK
  <2> QED
    BY <1>4, <2>1, <2>2 DEF BindInsert
<1>5. CASE BindingStep
  <2>1. \A b \in Binding : Exec(b)' => Exec(b) /\ boundTo'[b] = boundTo[b]
    BY <1>0, <1>5 DEF BindingStep, UpdateBindingStatus, TypeOK
  <2> QED
    BY <1>2, <2>1
<1>6. CASE UNCHANGED bindings
  BY <1>2, <1>6 DEF bindings
<1>7. CASE \E c \in Caller, b \in Binding, s \in BindingStatus, x \in BOOLEAN : BindInsert(c, b, s, x)
  BY <1>2, <1>3, <1>4, <1>7
<1> QED
  BY <1>5, <1>6, <1>7
     DEF Next, CatalogStep, CallStep, vars, Publish, RegisterRuntime, RecordCompatibility, ProvisionRead,
         ProvisionInsert, TransitionRead, TransitionBindings, TransitionUpdate, BindRead,
         BindCompatibility

\* At most one binding is executable, its runtime is of this module, and there is a
\* record of it with the installed version, however calls and catalog interleave.
THEOREM ExecutableEligible == Spec => []ExecutableIsEligible
<1>1. Init => EInv
  BY DEF Init, EInv, Installed, BinderReady, Eligible, OneExecutable
<1>2. IInv /\ EInv /\ [Next]_vars => EInv'
  BY InstalledStep, BinderStep, ExecutableStep DEF EInv
<1>3. EInv => ExecutableIsEligible
  BY DEF EInv, Eligible, OneExecutable, ExecutableIsEligible, ExecutableBinding, Evidence
<1> QED
  BY <1>1, <1>2, <1>3, Inductive, PTL DEF Spec

=============================================================================
