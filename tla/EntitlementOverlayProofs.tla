------------------------ MODULE EntitlementOverlayProofs ------------------------
(***************************************************************************)
(* Theorems about EntitlementOverlay, for any number of roles, requests,   *)
(* decisions and faults.  The argument for HeldAtOnce: what is effective   *)
(* now has been seen by every decision (Watched), and a decision between   *)
(* its two reads has seen its role effective if the role's row, there or   *)
(* on its way, is enabled (Between): a row becomes enabled only under an   *)
(* allowed ceiling, which is the trigger.                                  *)
(***************************************************************************)
EXTENDS EntitlementOverlay, TLAPS

\* The types, without the link from an uncommitted row to its request.
Types ==
  /\ ceiling \in [Role -> {"missing", "denied", "allowed"}]
  /\ locked \in [Role -> BOOLEAN]
  /\ activation \in [Role -> {"missing", "disabled", "enabled"}]
  /\ pending \in [Role -> {"none", "disabled", "enabled"}]
  /\ version \in Nat \ {0}
  /\ pc \in [Writer -> {"idle", "failed", "check", "version", "read", "upsert",
                        "disable", "write", "commit"}]
  /\ changes \in [Writer -> SUBSET Role]
  /\ at \in [Writer -> Role \union {None}]
  /\ rpc \in [Reader -> {"idle", "ceiling", "activation"}]
  /\ paths \in [Reader -> SUBSET Role]
  /\ path \in [Reader -> Role \union {None}]
  /\ granted \in [Reader -> SUBSET Role]
  /\ effective \in [Reader -> SUBSET Role]
  /\ \A d \in Reader : rpc[d] = "activation" => path[d] \in Role

\* A request that holds a row is to commit it; nobody else is.
Holding ==
  /\ \A w \in Writer : pc[w] \in {"upsert", "disable"} => at[w] \in Role
  /\ \A w \in Writer : pc[w] = "commit" =>
       /\ w \in Admin /\ at[w] \in Role /\ pending[at[w]] # "none"
       /\ \A v \in Writer : pc[v] = "commit" /\ at[v] = at[w] => v = w

\* An uncommitted row has a request that is to commit it.
Held == \A r \in Role : pending[r] # "none" =>
          \E w \in Writer : pc[w] = "commit" /\ at[w] = r

Watched == \A d \in Reader : Effective(ceiling, activation, pending) \subseteq effective[d]

Between ==
  \A d \in Reader :
    rpc[d] = "activation"
      => ((activation[path[d]] = "enabled" \/ pending[path[d]] = "enabled")
            => path[d] \in effective[d])

TInv == Types /\ Holding /\ Held
IInv == TInv /\ Watched /\ Between /\ HeldAtOnce

-----------------------------------------------------------------------------
LEMMA InitInv == Init => IInv
<1> SUFFICES ASSUME Init PROVE IInv
  OBVIOUS
<1>1. Types
  BY DEF Init, Types
<1>2. Holding /\ Held
  BY DEF Init, Holding, Held
<1>3. Watched
  BY DEF Init, Watched, Effective
<1>4. Between /\ HeldAtOnce
  BY DEF Init, Between, HeldAtOnce
<1> QED
  BY <1>1, <1>2, <1>3, <1>4 DEF IInv, TInv

-----------------------------------------------------------------------------
(* Steps that leave the rows alone, and no request at its commit before or  *)
(* after.                                                                   *)
LEMMA QuietWriter ==
  ASSUME TInv, NEW w \in Writer, pc[w] # "commit",
         NEW label \in {"idle", "failed", "check", "version", "read", "upsert", "write"},
         Goto(w, label), UNCHANGED <<ceiling, locked, activation, pending, readers, effective>>,
         version' \in Nat \ {0}, changes' \in [Writer -> SUBSET Role],
         at' \in [Writer -> Role \union {None}],
         \A v \in Writer \ {w} : at'[v] = at[v],
         label = "upsert" => at'[w] \in Role
  PROVE  TInv'
<1> USE DEF TInv
<1>1. pc' = [pc EXCEPT ![w] = label]
  BY DEF Goto
<1>2. Types'
  BY <1>1 DEF Types, readers
<1>3. \A v \in Writer \ {w} : pc'[v] = pc[v]
  BY <1>1 DEF Types
<1>4. pc'[w] = label
  BY <1>1 DEF Types
<1>5. Holding'
  BY <1>3, <1>4 DEF Holding
<1>6. Held'
  BY <1>3, <1>4 DEF Held
<1> QED
  BY <1>2, <1>5, <1>6

LEMMA BeginInv ==
  ASSUME TInv, NEW w \in Writer, Begin(w)
  PROVE  TInv'
<1>1. PICK body \in SUBSET Role : changes' = [changes EXCEPT ![w] = body]
  BY DEF Begin
<1>2. Goto(w, "version") \/ Goto(w, "check")
  BY DEF Begin
<1>3. /\ changes' \in [Writer -> SUBSET Role]
      /\ at' \in [Writer -> Role \union {None}] /\ version' \in Nat \ {0}
  BY <1>1 DEF Begin, rows, TInv, Types
<1> QED
  BY <1>2, <1>3, QuietWriter DEF Begin, rows

LEMMA CheckInv ==
  ASSUME TInv, NEW w \in Writer, Check(w)
  PROVE  TInv'
<1>1. Goto(w, "failed") \/ Goto(w, "version") \/ Goto(w, "check")
  <2>1. pc = [pc EXCEPT ![w] = "check"]
    BY DEF TInv, Types, Check
  <2> QED
    BY <2>1 DEF Check, Goto
<1>2. UNCHANGED <<ceiling, locked, activation, pending, version, changes, at, readers, effective>>
  BY DEF Check, rows
<1>3. pc[w] # "commit"
  BY DEF Check
<1> QED
  BY <1>1, <1>2, <1>3, QuietWriter DEF TInv, Types

LEMMA BumpInv ==
  ASSUME TInv, NEW w \in Writer, Bump(w)
  PROVE  TInv'
<1>1. Goto(w, "read") \/ Goto(w, "write")
  BY DEF Bump
<1>2. version' \in Nat \ {0}
  BY DEF Bump, TInv, Types
<1>3. pc[w] # "commit" /\ UNCHANGED <<ceiling, locked, activation, pending, changes, at,
                                      readers, effective>>
  BY DEF Bump
<1> QED
  BY <1>1, <1>2, <1>3, QuietWriter DEF TInv, Types

LEMMA OwnerReadInv ==
  ASSUME TInv, NEW w \in Writer, OwnerRead(w)
  PROVE  TInv'
<1>1. PICK r \in changes[w] \ done[w] : at' = [at EXCEPT ![w] = r]
  BY DEF OwnerRead
<1>2. r \in Role
  BY DEF TInv, Types
<1>3. Goto(w, "upsert") /\ pc[w] # "commit"
      /\ UNCHANGED <<ceiling, locked, activation, pending, version, changes, readers, effective>>
  BY DEF OwnerRead, rows
<1>4. /\ at' \in [Writer -> Role \union {None}] /\ at'[w] \in Role
      /\ \A v \in Writer \ {w} : at'[v] = at[v]
  BY <1>1, <1>2 DEF TInv, Types
<1> QED
  BY <1>3, <1>4, QuietWriter DEF TInv, Types

\* A decision only ever adds to what has been seen effective.
LEMMA WatchTyped ==
  ASSUME TInv, Watch
  PROVE  /\ effective' \in [Reader -> SUBSET Role]
         /\ \A d \in Reader : effective[d] \subseteq effective'[d]
         /\ \A d \in Reader : Effective(ceiling', activation', pending') \subseteq effective'[d]
BY DEF TInv, Types, Watch, Effective

LEMMA OwnerUpsertInv ==
  ASSUME TInv, NEW w \in Writer, OwnerUpsert(w)
  PROVE  TInv'
<1> USE DEF TInv
<1>1. PICK allowed, lock \in BOOLEAN :
        /\ ceiling' = [ceiling EXCEPT ![at[w]] = IF allowed THEN "allowed" ELSE "denied"]
        /\ locked' = [locked EXCEPT ![at[w]] = lock]
  BY DEF OwnerUpsert
<1>2. PICK label \in {"disable", "idle", "read"} : pc' = [pc EXCEPT ![w] = label]
  BY DEF OwnerUpsert, Advance, Goto
<1>3. pc[w] = "upsert"
      /\ UNCHANGED <<activation, pending, version, changes, at, readers>>
  BY DEF OwnerUpsert
<1>4. effective' \in [Reader -> SUBSET Role]
  BY WatchTyped DEF OwnerUpsert
<1>5. Types'
  BY <1>1, <1>2, <1>3, <1>4 DEF Types, readers
<1>6. \A v \in Writer \ {w} : pc'[v] = pc[v]
  BY <1>2 DEF Types
<1>7. pc'[w] = label
  BY <1>2 DEF Types
<1>8. Holding'
  BY <1>3, <1>6, <1>7 DEF Holding
<1>9. Held'
  BY <1>3, <1>6, <1>7 DEF Held
<1> QED
  BY <1>5, <1>8, <1>9

LEMMA OwnerDisableInv ==
  ASSUME TInv, NEW w \in Writer, OwnerDisable(w)
  PROVE  TInv'
<1> USE DEF TInv
<1>1. /\ pc[w] = "disable"
      /\ activation' = [activation EXCEPT ![at[w]] = IF @ = "missing" THEN @ ELSE "disabled"]
      /\ UNCHANGED <<ceiling, locked, pending, version, changes, at, readers, effective>>
  BY DEF OwnerDisable
<1>2. PICK label \in {"idle", "read"} : pc' = [pc EXCEPT ![w] = label]
  BY DEF OwnerDisable, Advance, Goto
<1>3. Types'
  BY <1>1, <1>2 DEF Types, readers
<1>4. \A v \in Writer \ {w} : pc'[v] = pc[v]
  BY <1>2 DEF Types
<1>5. pc'[w] = label
  BY <1>2 DEF Types
<1>6. Holding'
  BY <1>1, <1>4, <1>5 DEF Holding
<1>7. Held'
  BY <1>1, <1>4, <1>5 DEF Held
<1> QED
  BY <1>3, <1>6, <1>7

(* The two outcomes of the write of an activation: the trigger refuses it, *)
(* or the row is held for the commit.                                      *)
LEMMA AdminWriteCases ==
  ASSUME TInv, NEW w \in Writer, AdminWrite(w)
  PROVE  \/ Goto(w, "failed") /\ UNCHANGED <<at, pending>>
         \/ \E r \in Role, e \in {"enabled", "disabled"} :
              /\ pending[r] = "none"
              /\ e = "enabled" => ceiling[r] = "allowed"
              /\ at' = [at EXCEPT ![w] = r] /\ pending' = [pending EXCEPT ![r] = e]
              /\ Goto(w, "commit")
<1>1. PICK r \in changes[w] \ done[w], enabled \in BOOLEAN :
       /\ pending[r] = "none"
       /\ \/ /\ TriggerAllows(ceiling[r], enabled)
             /\ at' = [at EXCEPT ![w] = r]
             /\ pending' = [pending EXCEPT ![r] = IF enabled THEN "enabled" ELSE "disabled"]
             /\ Goto(w, "commit")
          \/ Goto(w, "failed") /\ UNCHANGED <<at, pending>>
  BY DEF AdminWrite
<1>2. r \in Role
  BY DEF TInv, Types
<1>3. CASE enabled
  BY <1>1, <1>2, <1>3 DEF TriggerAllows
<1>4. CASE ~enabled
  BY <1>1, <1>2, <1>4
<1> QED
  BY <1>3, <1>4

LEMMA AdminWriteInv ==
  ASSUME TInv, NEW w \in Admin, AdminWrite(w)
  PROVE  TInv'
<1> USE DEF TInv
<1>0. w \in Writer
  BY DEF Writer
<1>1. /\ pc[w] = "write"
      /\ UNCHANGED <<ceiling, locked, activation, version, changes, readers>>
  BY DEF AdminWrite
<1>2. effective' \in [Reader -> SUBSET Role]
  BY WatchTyped DEF AdminWrite
<1>3. CASE Goto(w, "failed") /\ UNCHANGED <<at, pending>>
  <2>1. pc' = [pc EXCEPT ![w] = "failed"]
    BY <1>3 DEF Goto
  <2>2. Types'
    BY <1>1, <1>2, <1>3, <2>1 DEF Types, readers
  <2>3. pc'[w] = "failed" /\ \A v \in Writer \ {w} : pc'[v] = pc[v]
    BY <1>0, <2>1 DEF Types
  <2>4. Holding'
    BY <1>1, <1>3, <2>3 DEF Holding
  <2>5. Held'
    BY <1>1, <1>3, <2>3 DEF Held
  <2> QED
    BY <2>2, <2>4, <2>5
<1>4. ASSUME NEW r \in Role, NEW e \in {"enabled", "disabled"}, pending[r] = "none",
             at' = [at EXCEPT ![w] = r], pending' = [pending EXCEPT ![r] = e],
             Goto(w, "commit")
      PROVE  TInv'
  <2>1. pc' = [pc EXCEPT ![w] = "commit"]
    BY <1>4 DEF Goto
  <2>2. Types'
    BY <1>0, <1>1, <1>2, <1>4, <2>1 DEF Types, readers
  <2>3. /\ pc'[w] = "commit" /\ at'[w] = r
        /\ \A v \in Writer \ {w} : pc'[v] = pc[v] /\ at'[v] = at[v]
    BY <1>0, <1>4, <2>1 DEF Types
  <2>4. pending'[r] = e /\ \A s \in Role \ {r} : pending'[s] = pending[s]
    BY <1>4 DEF Types
  <2>5. \A v \in Writer : pc[v] = "commit" => at[v] # r
    BY <1>4 DEF Holding
  <2>6. Holding'
    BY <2>3, <2>4, <2>5 DEF Holding
  <2>7. Held'
    BY <1>0, <1>1, <2>3, <2>4 DEF Held
  <2> QED
    BY <2>2, <2>6, <2>7
<1> QED
  BY <1>0, <1>3, <1>4, AdminWriteCases

(* A request that leaves its commit gives up the row it held. *)
LEMMA LeaveCommit ==
  ASSUME TInv, NEW w \in Writer, pc[w] = "commit",
         pending' = [pending EXCEPT ![at[w]] = "none"],
         NEW label \in {"idle", "write", "failed"}, pc' = [pc EXCEPT ![w] = label],
         UNCHANGED at, Types'
  PROVE  TInv'
<1> USE DEF TInv
<1>1. pc'[w] = label /\ \A v \in Writer \ {w} : pc'[v] = pc[v]
  BY DEF Types
<1>2. at[w] \in Role
  BY DEF Holding
<1>3. pending'[at[w]] = "none" /\ \A s \in Role \ {at[w]} : pending'[s] = pending[s]
  BY <1>2 DEF Types
<1>4. \A v \in Writer \ {w} : pc[v] = "commit" => at[v] # at[w]
  BY DEF Holding
<1>5. Holding'
  BY <1>1, <1>3, <1>4 DEF Holding
<1>6. Held'
  <2> SUFFICES ASSUME NEW r \in Role, pending'[r] # "none"
               PROVE  \E v \in Writer : pc'[v] = "commit" /\ at'[v] = r
    BY DEF Held
  <2>1. r # at[w] /\ pending[r] # "none"
    BY <1>3
  <2>2. PICK v \in Writer : pc[v] = "commit" /\ at[v] = r
    BY <2>1 DEF Held
  <2> QED
    BY <1>1, <2>1, <2>2
<1> QED
  BY <1>5, <1>6

LEMMA AdminCommitInv ==
  ASSUME TInv, NEW w \in Writer, AdminCommit(w)
  PROVE  TInv'
<1>1. /\ pc[w] = "commit"
      /\ activation' = [activation EXCEPT ![at[w]] = pending[at[w]]]
      /\ pending' = [pending EXCEPT ![at[w]] = "none"]
      /\ UNCHANGED <<ceiling, locked, version, changes, at, readers, effective>>
  BY DEF AdminCommit
<1>2. PICK label \in {"idle", "write"} : pc' = [pc EXCEPT ![w] = label]
  BY DEF AdminCommit, Advance, Goto
<1>3. at[w] \in Role /\ pending[at[w]] \in {"disabled", "enabled"}
  BY <1>1 DEF TInv, Holding, Types
<1>4. Types'
  BY <1>1, <1>2, <1>3 DEF TInv, Types, readers
<1> QED
  BY <1>1, <1>2, <1>4, LeaveCommit

LEMMA FaultInv ==
  ASSUME TInv, NEW w \in Writer, Fault(w)
  PROVE  TInv'
<1>1. /\ Goto(w, "failed")
      /\ UNCHANGED <<ceiling, locked, activation, version, changes, at, readers, effective>>
  BY DEF Fault
<1>2. CASE pc[w] = "commit"
  <2>1. pending' = [pending EXCEPT ![at[w]] = "none"]
    BY <1>2 DEF Fault
  <2>2. pc' = [pc EXCEPT ![w] = "failed"]
    BY <1>1 DEF Goto
  <2>3. Types'
    BY <1>1, <2>1, <2>2 DEF TInv, Types, readers
  <2> QED
    BY <1>1, <1>2, <2>1, <2>2, <2>3, LeaveCommit
<1>3. CASE pc[w] # "commit"
  <2>1. UNCHANGED pending
    BY <1>3 DEF Fault
  <2> QED
    BY <1>1, <1>3, <2>1, QuietWriter DEF TInv, Types
<1> QED
  BY <1>2, <1>3

LEMMA ReaderInv ==
  ASSUME TInv, NEW d \in Reader,
         ReadBegin(d) \/ ReadStale(d) \/ ReadCeiling(d) \/ ReadActivation(d)
  PROVE  TInv'
<1> USE DEF TInv
<1>1. UNCHANGED <<rows, writers>>
  BY DEF ReadBegin, ReadStale, ReadCeiling, ReadActivation
<1>2. /\ rpc' \in [Reader -> {"idle", "ceiling", "activation"}]
      /\ paths' \in [Reader -> SUBSET Role]
      /\ path' \in [Reader -> Role \union {None}]
      /\ granted' \in [Reader -> SUBSET Role]
      /\ effective' \in [Reader -> SUBSET Role]
      /\ \A c \in Reader : rpc'[c] = "activation" => path'[c] \in Role
  <2>1. CASE ReadBegin(d)
    BY <2>1 DEF ReadBegin, Types, Effective
  <2>2. CASE ReadStale(d)
    BY <2>2 DEF ReadStale, Types
  <2>3. CASE ReadCeiling(d)
    <3>1. PICK r \in paths[d] :
            \/ /\ rpc' = [rpc EXCEPT ![d] = "activation"] /\ path' = [path EXCEPT ![d] = r]
               /\ UNCHANGED paths
            \/ Leave(d, r) /\ UNCHANGED path
      BY <2>3 DEF ReadCeiling
    <3>2. r \in Role
      BY DEF Types
    <3>3. UNCHANGED <<granted, effective>>
      BY <2>3 DEF ReadCeiling
    <3> QED
      BY <3>1, <3>2, <3>3 DEF Types, Leave
  <2>4. CASE ReadActivation(d)
    <3>1. /\ granted' = [granted EXCEPT ![d] =
                   IF activation[path[d]] = "enabled" THEN @ \union {path[d]} ELSE @]
          /\ Leave(d, path[d]) /\ UNCHANGED <<path, effective>> /\ rpc[d] = "activation"
      BY <2>4 DEF ReadActivation
    <3>2. path[d] \in Role
      BY <3>1 DEF Types
    <3> QED
      BY <3>1, <3>2 DEF Types, Leave
  <2> QED
    BY <2>1, <2>2, <2>3, <2>4
<1>3. Types'
  BY <1>1, <1>2 DEF Types, rows, writers
<1>4. Holding' /\ Held'
  BY <1>1 DEF Holding, Held, rows, writers
<1> QED
  BY <1>3, <1>4

LEMMA TypesInv == TInv /\ [Next]_vars => TInv'
<1> SUFFICES ASSUME TInv, [Next]_vars PROVE TInv'
  OBVIOUS
<1>1. CASE UNCHANGED vars
  BY <1>1 DEF vars, rows, writers, readers, TInv, Types, Holding, Held
<1>2. ASSUME NEW w \in Writer, Begin(w) \/ Bump(w) \/ Fault(w) PROVE TInv'
  BY <1>2, BeginInv, BumpInv, FaultInv
<1>3. ASSUME NEW w \in Owner, OwnerRead(w) \/ OwnerUpsert(w) \/ OwnerDisable(w) PROVE TInv'
  BY <1>3, OwnerReadInv, OwnerUpsertInv, OwnerDisableInv DEF Writer
<1>4. ASSUME NEW w \in Admin, Check(w) \/ AdminWrite(w) \/ AdminCommit(w) PROVE TInv'
  BY <1>4, CheckInv, AdminWriteInv, AdminCommitInv DEF Writer
<1>5. ASSUME NEW d \in Reader,
             ReadBegin(d) \/ ReadStale(d) \/ ReadCeiling(d) \/ ReadActivation(d)
      PROVE  TInv'
  BY <1>5, ReaderInv
<1> QED
  BY <1>1, <1>2, <1>3, <1>4, <1>5 DEF Next

-----------------------------------------------------------------------------
(* A writer's step under which nothing becomes enabled unseen.              *)
LEMMA SeenByWriters ==
  ASSUME IInv, TInv', UNCHANGED readers,
         \A d \in Reader : effective[d] \subseteq effective'[d],
         \A d \in Reader : Effective(ceiling', activation', pending') \subseteq effective'[d],
         \A r \in Role : activation'[r] = "enabled" \/ pending'[r] = "enabled" =>
           \/ activation[r] = "enabled" \/ pending[r] = "enabled"
           \/ r \in Effective(ceiling', activation', pending')
  PROVE  IInv'
<1>1. Watched'
  BY DEF Watched
<1>2. Between'
  <2> SUFFICES ASSUME NEW d \in Reader, rpc[d] = "activation",
                      activation'[path[d]] = "enabled" \/ pending'[path[d]] = "enabled"
               PROVE  path[d] \in effective'[d]
    BY DEF Between, readers
  <2>1. path[d] \in Role
    BY DEF IInv, TInv, Types
  <2>2. CASE path[d] \in Effective(ceiling', activation', pending')
    BY <2>2
  <2>3. CASE activation[path[d]] = "enabled" \/ pending[path[d]] = "enabled"
    BY <2>3 DEF IInv, Between
  <2> QED
    BY <2>1, <2>2, <2>3
<1>3. HeldAtOnce'
  BY DEF IInv, HeldAtOnce, readers
<1> QED
  BY <1>1, <1>2, <1>3 DEF IInv

LEMMA WriterSeen ==
  ASSUME IInv, TInv', NEW w \in Writer,
         \/ Begin(w) \/ Bump(w) \/ Fault(w) \/ Check(w)
         \/ OwnerRead(w) \/ OwnerUpsert(w) \/ OwnerDisable(w)
         \/ AdminWrite(w) \/ AdminCommit(w)
  PROVE  IInv'
<1>0. TInv /\ Watched
  BY DEF IInv
<1>1. CASE Begin(w) \/ Bump(w) \/ Check(w) \/ OwnerRead(w)
  <2>1. UNCHANGED <<ceiling, activation, pending, readers, effective>>
    BY <1>1 DEF Begin, Bump, Check, OwnerRead, rows
  <2> QED
    BY <1>0, <2>1, SeenByWriters DEF Watched
<1>2. CASE Fault(w)
  <2>1. UNCHANGED <<ceiling, activation, readers, effective>>
    BY <1>2 DEF Fault
  <2>2. \A r \in Role : pending'[r] = "enabled" => pending[r] = "enabled"
    BY <1>0, <1>2 DEF Fault, TInv, Types, Holding
  <2>3. Effective(ceiling', activation', pending') \subseteq Effective(ceiling, activation, pending)
    BY <2>1, <2>2 DEF Effective
  <2> QED
    BY <1>0, <2>1, <2>2, <2>3, SeenByWriters DEF Watched
<1>3. CASE OwnerUpsert(w)
  <2>1. UNCHANGED <<activation, pending, readers>> /\ Watch
    BY <1>3 DEF OwnerUpsert
  <2> QED
    BY <1>0, <2>1, WatchTyped, SeenByWriters
<1>4. CASE OwnerDisable(w)
  <2>1. UNCHANGED <<ceiling, pending, readers, effective>>
    BY <1>4 DEF OwnerDisable
  <2>2. \A r \in Role : activation'[r] = "enabled" => activation[r] = "enabled"
    BY <1>0, <1>4 DEF OwnerDisable, TInv, Types, Holding
  <2>3. Effective(ceiling', activation', pending') \subseteq Effective(ceiling, activation, pending)
    BY <2>1, <2>2 DEF Effective
  <2> QED
    BY <1>0, <2>1, <2>2, <2>3, SeenByWriters DEF Watched
<1>5. CASE AdminWrite(w)
  <2>1. UNCHANGED <<ceiling, activation, readers>> /\ Watch
    BY <1>5 DEF AdminWrite
  <2>2. \A s \in Role : pending'[s] = "enabled" =>
          pending[s] = "enabled" \/ s \in Effective(ceiling', activation', pending')
    <3>1. CASE UNCHANGED pending
      BY <3>1
    <3>2. ASSUME NEW r \in Role, NEW e \in {"enabled", "disabled"},
                 e = "enabled" => ceiling[r] = "allowed",
                 pending' = [pending EXCEPT ![r] = e]
          PROVE  \A s \in Role : pending'[s] = "enabled" =>
                   pending[s] = "enabled" \/ s \in Effective(ceiling', activation', pending')
      BY <1>0, <2>1, <3>2 DEF Effective, TInv, Types
    <3> QED
      BY <1>0, <1>5, <3>1, <3>2, AdminWriteCases
  <2> QED
    BY <1>0, <2>1, <2>2, WatchTyped, SeenByWriters
<1>6. CASE AdminCommit(w)
  <2>1. UNCHANGED <<ceiling, readers, effective>>
    BY <1>6 DEF AdminCommit
  <2>2. \A r \in Role : activation'[r] = "enabled" \/ pending'[r] = "enabled" =>
          activation[r] = "enabled" \/ pending[r] = "enabled"
    BY <1>0, <1>6 DEF AdminCommit, TInv, Types, Holding
  <2>3. Effective(ceiling', activation', pending') \subseteq Effective(ceiling, activation, pending)
    BY <2>1, <2>2 DEF Effective
  <2> QED
    BY <1>0, <2>1, <2>2, <2>3, SeenByWriters DEF Watched
<1> QED
  BY <1>1, <1>2, <1>3, <1>4, <1>5, <1>6

LEMMA ReaderSeen ==
  ASSUME IInv, TInv', NEW d \in Reader,
         ReadBegin(d) \/ ReadStale(d) \/ ReadCeiling(d) \/ ReadActivation(d)
  PROVE  IInv'
<1> USE DEF IInv, TInv, Types
<1>1. UNCHANGED rows
  BY DEF ReadBegin, ReadStale, ReadCeiling, ReadActivation
<1>2. CASE ReadBegin(d)
  <2>1. /\ rpc' = [rpc EXCEPT ![d] = "ceiling"] /\ granted' = [granted EXCEPT ![d] = {}]
        /\ effective' = [effective EXCEPT ![d] = Effective(ceiling, activation, pending)]
        /\ UNCHANGED path
    BY <1>2 DEF ReadBegin
  <2> QED
    BY <1>1, <2>1 DEF Watched, Between, HeldAtOnce, rows
<1>3. CASE ReadStale(d)
  <2>1. granted' = [granted EXCEPT ![d] = {}] /\ UNCHANGED <<rpc, path, effective>>
    BY <1>3 DEF ReadStale
  <2> QED
    BY <1>1, <2>1 DEF Watched, Between, HeldAtOnce, rows
<1>4. CASE ReadCeiling(d)
  <2>1. UNCHANGED <<granted, effective>>
    BY <1>4 DEF ReadCeiling
  <2>2. Watched' /\ HeldAtOnce'
    BY <1>1, <2>1 DEF Watched, HeldAtOnce, rows
  <2>3. PICK r \in paths[d] :
          \/ /\ ceiling[r] = "allowed"
             /\ rpc' = [rpc EXCEPT ![d] = "activation"] /\ path' = [path EXCEPT ![d] = r]
          \/ Leave(d, r) /\ UNCHANGED path
    BY <1>4 DEF ReadCeiling
  <2>4. CASE /\ ceiling[r] = "allowed"
             /\ rpc' = [rpc EXCEPT ![d] = "activation"] /\ path' = [path EXCEPT ![d] = r]
    <3>1. r \in Role
      OBVIOUS
    <3>2. activation[r] = "enabled" \/ pending[r] = "enabled" => r \in effective[d]
      BY <2>4, <3>1 DEF Watched, Effective
    <3> QED
      BY <1>1, <2>1, <2>2, <2>4, <3>2 DEF Between, rows
  <2>5. CASE Leave(d, r) /\ UNCHANGED path
    BY <1>1, <2>1, <2>2, <2>5 DEF Between, Leave, rows
  <2> QED
    BY <2>3, <2>4, <2>5
<1>5. CASE ReadActivation(d)
  <2>1. /\ rpc[d] = "activation" /\ Leave(d, path[d]) /\ UNCHANGED <<path, effective>>
        /\ granted' = [granted EXCEPT ![d] =
                   IF activation[path[d]] = "enabled" THEN @ \union {path[d]} ELSE @]
    BY <1>5 DEF ReadActivation
  <2>2. Watched' /\ Between'
    BY <1>1, <2>1 DEF Watched, Between, Leave, rows
  <2>3. activation[path[d]] = "enabled" => path[d] \in effective[d]
    BY <2>1 DEF Between
  <2>4. HeldAtOnce'
    BY <2>1, <2>3 DEF HeldAtOnce
  <2> QED
    BY <2>2, <2>4
<1> QED
  BY <1>2, <1>3, <1>4, <1>5

-----------------------------------------------------------------------------
(* Everything the argument needs holds in every state of every behaviour of *)
(* the overlay.                                                             *)
THEOREM Inductive == Spec => []IInv
<1>1. IInv /\ [Next]_vars => IInv'
  <2> SUFFICES ASSUME IInv, [Next]_vars PROVE IInv'
    OBVIOUS
  <2>1. TInv'
    BY TypesInv DEF IInv
  <2>2. CASE UNCHANGED vars
    BY <2>1, <2>2 DEF vars, rows, readers, IInv, Watched, Between, HeldAtOnce
  <2>3. CASE Next
    BY <2>1, <2>3, WriterSeen, ReaderSeen DEF Next, Writer
  <2> QED
    BY <2>2, <2>3
<1> QED
  BY InitInv, <1>1, PTL DEF Spec

(* The tables and the requests stay within their types, and an uncommitted *)
(* activation always has exactly one request that is to commit it.         *)
THEOREM TypeCorrect == Spec => []TypeOK
<1>1. IInv => TypeOK
  <2> SUFFICES ASSUME IInv PROVE TypeOK
    OBVIOUS
  <2>1. \A r \in Role : pending[r] # "none" =>
          \E w \in Admin : /\ pc[w] = "commit" /\ at[w] = r
                           /\ \A v \in Admin \ {w} : ~(pc[v] = "commit" /\ at[v] = r)
    BY DEF IInv, TInv, Held, Holding, Writer
  <2> QED
    BY <2>1 DEF IInv, TInv, Types, TypeOK
<1> QED
  BY Inductive, <1>1, PTL

(* No decision, however its two reads interleave with the requests, grants  *)
(* a role that was not allowed and enabled at one instant since it began.   *)
THEOREM NeverTorn == Spec => []HeldAtOnce
<1>1. IInv => HeldAtOnce
  BY DEF IInv
<1> QED
  BY Inductive, <1>1, PTL
=============================================================================
