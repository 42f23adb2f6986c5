------------------------- MODULE AgentUpdatesProofs -------------------------
(***************************************************************************)
(* Proofs about AgentUpdates, for every set of versions, every attempt and *)
(* age budget, and with crashes, power losses and failing writes between   *)
(* any two writes of an install.                                           *)
(***************************************************************************)
EXTENDS AgentUpdates, TLAPS

(* Installs are not concurrent. The code does not enforce this: with two   *)
(* overlapping installs neither theorem about the links holds.             *)
SingleInstaller == \A i, j \in Installers : i = j

(* No install survives the process that ran it.                            *)
QuietWhenNotServing ==
    proc.phase # "serving" => \A i \in Installers : inst[i].pc = "idle"

(* A staged release is still on the disk when "current" is repointed.      *)
StagedIsPresent ==
    \A i \in Installers :
        inst[i].pc \in {"promote", "activate"} => inst[i].version \in releases

(* The version check made at the top of StageAndActivate still holds when  *)
(* "current" is repointed.                                                 *)
StagedIsNewer ==
    \A i \in Installers :
        inst[i].pc \in {"stage", "promote", "activate"} =>
            /\ inst[i].version \in Versions
            /\ current # NoSlot => inst[i].version > current

(* The inductive invariant of the store with one installer at a time.      *)
StoreInv ==
    /\ TypeOK
    /\ LinksResolve
    /\ QuietWhenNotServing
    /\ StagedIsPresent
    /\ StagedIsNewer

-----------------------------------------------------------------------------
LEMMA IdleType == Idle \in InstType
  BY DEF InstType

LEMMA NoPendingType ==
  NoPending \in [version : Versions \cup {NoSlot},
                 attempts : 0..MaxAttempts, age : 0..MaxAge + 1]
  BY ConstantsAssumption DEF ConstantsAssumption, NoPending

LEMMA NoConfirmerType ==
  NoConfirmer \in [state : {"off", "poll", "clear"}, age : 0..Window]
  BY ConstantsAssumption DEF ConstantsAssumption, NoConfirmer

LEMMA InitTypeOK == Init => TypeOK
<1> SUFFICES ASSUME Init PROVE TypeOK
  OBVIOUS
<1>1. inst \in [Installers -> InstType]
  BY IdleType DEF Init
<1>2. proc \in [phase : Phases, version : Versions \cup {RecoveryVersion}]
  BY DEF Init, Phases
<1>3. restart \in BOOLEAN
  BY DEF Init
<1>4. QED
  BY <1>1, <1>2, <1>3, NoPendingType, NoConfirmerType DEF Init, TypeOK

(* A request that is past its checks carries a version, and moving its     *)
(* program counter keeps it well typed.                                    *)
LEMMA BusyRequest ==
  ASSUME TypeOK, NEW i \in Installers, inst[i].pc # "idle"
  PROVE  /\ inst[i].version \in Versions
         /\ \A p \in InstPCs :
               [inst EXCEPT ![i].pc = p] \in [Installers -> InstType]
<1>1. inst[i] \in [pc : InstPCs, version : Versions]
  BY DEF TypeOK, InstType, Idle
<1>2. ASSUME NEW p \in InstPCs
      PROVE  [inst EXCEPT ![i].pc = p] \in [Installers -> InstType]
  <2>1. [inst[i] EXCEPT !.pc = p] \in InstType
    BY <1>1 DEF InstType
  <2>2. QED
    BY <2>1 DEF TypeOK
<1>3. QED
  BY <1>1, <1>2

LEMMA InstallTypeOK ==
  ASSUME TypeOK, NEW i \in Installers, Install(i)
  PROVE  TypeOK'
<1> USE DEF disk
<1>1. ASSUME NEW v \in Versions, BeginStage(i, v) PROVE TypeOK'
  <2>1. [pc |-> "stage", version |-> v] \in InstType
    BY DEF InstType, InstPCs
  <2>2. inst' \in [Installers -> InstType]
    BY <1>1, <2>1 DEF BeginStage, TypeOK
  <2>3. QED
    BY <1>1, <2>2 DEF BeginStage, TypeOK
<1>2. CASE StageBinary(i)
  <2>1. inst' \in [Installers -> InstType] /\ inst[i].version \in Versions
    BY <1>2, BusyRequest DEF StageBinary, InstPCs
  <2>2. QED
    BY <1>2, <2>1 DEF StageBinary, TypeOK
<1>3. CASE PromotePrevious(i)
  <2>1. inst' \in [Installers -> InstType]
    BY <1>3, BusyRequest DEF PromotePrevious, InstPCs
  <2>2. QED
    BY <1>3, <2>1 DEF PromotePrevious, TypeOK
<1>4. CASE ActivateCurrent(i)
  <2>1. inst' \in [Installers -> InstType] /\ inst[i].version \in Versions
    BY <1>4, BusyRequest DEF ActivateCurrent, InstPCs
  <2>2. QED
    BY <1>4, <2>1 DEF ActivateCurrent, TypeOK
<1>5. CASE WritePending(i)
  <2>1. inst' \in [Installers -> InstType] /\ inst[i].version \in Versions
    BY <1>5, BusyRequest DEF WritePending, InstPCs
  <2>2. pending' \in [version : Versions \cup {NoSlot},
                     attempts : 0..MaxAttempts, age : 0..MaxAge + 1]
    BY <1>5, <2>1, ConstantsAssumption DEF WritePending, ConstantsAssumption
  <2>3. QED
    BY <1>5, <2>1, <2>2 DEF WritePending, TypeOK
<1>6. CASE PruneReleases(i)
  <2>1. inst' \in [Installers -> InstType]
    BY <1>6, IdleType DEF PruneReleases, TypeOK
  <2>2. restart' \in BOOLEAN
    BY <1>6 DEF PruneReleases
  <2>3. QED
    BY <1>6, <2>1, <2>2 DEF PruneReleases, TypeOK
<1>7. CASE StageFails(i)
  <2>1. inst' \in [Installers -> InstType]
    BY <1>7, IdleType DEF StageFails, TypeOK
  <2>2. QED
    BY <1>7, <2>1 DEF StageFails, TypeOK
<1>8. QED
  BY <1>1, <1>2, <1>3, <1>4, <1>5, <1>6, <1>7
  DEF Install, HandleAgentUpdate, HandleUpdatesInstall

LEMMA GoesDownTypeOK ==
  ASSUME TypeOK, GoesDown
  PROVE  TypeOK'
<1>1. inst' \in [Installers -> InstType]
  BY IdleType DEF GoesDown
<1>2. proc' \in [phase : Phases, version : Versions \cup {RecoveryVersion}]
  BY DEF GoesDown, TypeOK, Phases
<1>3. restart' \in BOOLEAN
  BY DEF GoesDown
<1>4. QED
  BY <1>1, <1>2, <1>3, NoConfirmerType
  DEF GoesDown, TypeOK, disk

LEMMA StepTypeOK == TypeOK /\ [Next]_vars => TypeOK'
<1> SUFFICES ASSUME TypeOK, [Next]_vars PROVE TypeOK'
  OBVIOUS
<1> USE ConstantsAssumption
    DEF ConstantsAssumption, TypeOK, disk, NoSlot, Phases, StartPhases
<1>1. CASE \E i \in Installers : Install(i)
  BY <1>1, InstallTypeOK
<1>2. CASE Launch
  BY <1>2 DEF Launch, LaunchVersion
<1>3. CASE ReconcileStartup
  BY <1>3 DEF ReconcileStartup, BecomesServing, OverBudget, NoPending,
              NoConfirmer
<1>4. CASE ReconcileOverBudget
  BY <1>4 DEF ReconcileOverBudget
<1>5. CASE RollbackToPrevious
  BY <1>5 DEF RollbackToPrevious
<1>6. CASE ClearAfterRollback
  BY <1>6 DEF ClearAfterRollback, NoPending
<1>7. CASE ExitAfterRollback
  BY <1>7 DEF ExitAfterRollback
<1>8. CASE ReconcileFails
  BY <1>8 DEF ReconcileFails, BecomesServing, NoConfirmer
<1>9. CASE ConfirmRead
  BY <1>9 DEF ConfirmRead, NoConfirmer
<1>10. CASE ConfirmClear
  <2>1. confirmed' \subseteq Versions \cup {RecoveryVersion}
    BY <1>10 DEF ConfirmClear
  <2>2. QED
    BY <1>10, <2>1, NoConfirmerType, NoPendingType DEF ConfirmClear
<1>11. CASE ConfirmFails
  BY <1>11 DEF ConfirmFails, NoConfirmer
<1>12. CASE ConfirmGivesUp
  BY <1>12, NoConfirmerType DEF ConfirmGivesUp
<1>13. CASE RestartAgent
  BY <1>13, GoesDownTypeOK DEF RestartAgent
<1>14. CASE Crash
  BY <1>14, GoesDownTypeOK DEF Crash
<1>15. CASE Tick
  BY <1>15 DEF Tick
<1>16. CASE UNCHANGED vars
  BY <1>16 DEF vars
<1>17. QED
  BY <1>1, <1>2, <1>3, <1>4, <1>5, <1>6, <1>7, <1>8, <1>9, <1>10, <1>11,
     <1>12, <1>13, <1>14, <1>15, <1>16
  DEF Next, Startup

(* The store, the process and the requests stay well typed, and no restart *)
(* counts a pending activation past its attempt budget.                    *)
THEOREM TypeCorrect == Spec => []TypeOK
  BY InitTypeOK, StepTypeOK, PTL DEF Spec

-----------------------------------------------------------------------------
(* The steps of an install keep the store invariant.                       *)
LEMMA InstallStoreInv ==
  ASSUME SingleInstaller, StoreInv, NEW i \in Installers, Install(i)
  PROVE  StoreInv'
<1> TypeOK'
  BY InstallTypeOK DEF StoreInv
<1> TypeOK
  BY DEF StoreInv
<1>a. Installers = {i}
  BY DEF SingleInstaller
<1>q. QuietWhenNotServing'
  <2>1. proc' = proc /\ (proc.phase = "serving" \/ inst[i].pc # "idle")
    BY DEF Install, HandleAgentUpdate, HandleUpdatesInstall, BeginStage,
           Serving, StageBinary, PromotePrevious, ActivateCurrent,
           WritePending, PruneReleases, StageFails
  <2>2. proc.phase = "serving"
    BY <2>1 DEF StoreInv, QuietWhenNotServing
  <2>3. QED
    BY <2>1, <2>2 DEF QuietWhenNotServing
<1> USE <1>a, <1>q DEF StoreInv, LinksResolve, StagedIsPresent, StagedIsNewer,
                       disk, NoSlot, TypeOK
<1>1. ASSUME NEW v \in Versions, BeginStage(i, v) PROVE StoreInv'
  BY <1>1 DEF BeginStage, MayStage
<1>2. CASE StageBinary(i)
  BY <1>2 DEF StageBinary
<1>3. CASE PromotePrevious(i)
  BY <1>3 DEF PromotePrevious
<1>4. CASE ActivateCurrent(i)
  BY <1>4 DEF ActivateCurrent
<1>5. CASE WritePending(i)
  BY <1>5 DEF WritePending
<1>6. CASE PruneReleases(i)
  BY <1>6 DEF PruneReleases, Idle
<1>7. CASE StageFails(i)
  BY <1>7 DEF StageFails, Idle
<1>8. QED
  BY <1>1, <1>2, <1>3, <1>4, <1>5, <1>6, <1>7
  DEF Install, HandleAgentUpdate, HandleUpdatesInstall

(* A restart or a power loss keeps it: the disk stays as it is.            *)
LEMMA GoesDownStoreInv ==
  ASSUME StoreInv, GoesDown
  PROVE  StoreInv'
<1>1. TypeOK'
  BY GoesDownTypeOK DEF StoreInv
<1>2. \A i \in Installers : inst'[i].pc = "idle"
  BY DEF GoesDown, Idle
<1>3. LinksResolve'
  BY DEF GoesDown, disk, StoreInv, LinksResolve
<1>4. QED
  BY <1>1, <1>2, <1>3
  DEF StoreInv, QuietWhenNotServing, StagedIsPresent, StagedIsNewer

LEMMA StepStoreInv ==
  ASSUME SingleInstaller
  PROVE  StoreInv /\ [Next]_vars => StoreInv'
<1> SUFFICES ASSUME StoreInv, [Next]_vars PROVE StoreInv'
  OBVIOUS
<1>t. TypeOK /\ TypeOK'
  BY StepTypeOK DEF StoreInv
<1> USE <1>t DEF StoreInv, LinksResolve, QuietWhenNotServing, StagedIsPresent,
                 StagedIsNewer, disk
<1>1. CASE \E i \in Installers : Install(i)
  BY <1>1, InstallStoreInv
<1>2. CASE Launch
  BY <1>2 DEF Launch
<1>3. CASE ReconcileStartup
  BY <1>3 DEF ReconcileStartup, BecomesServing
<1>4. CASE ReconcileOverBudget
  BY <1>4 DEF ReconcileOverBudget
<1>5. CASE RollbackToPrevious
  BY <1>5 DEF RollbackToPrevious, TypeOK
<1>6. CASE ClearAfterRollback
  BY <1>6 DEF ClearAfterRollback
<1>7. CASE ExitAfterRollback
  BY <1>7 DEF ExitAfterRollback
<1>8. CASE ReconcileFails
  BY <1>8 DEF ReconcileFails, BecomesServing
<1>9. CASE ConfirmRead
  BY <1>9 DEF ConfirmRead
<1>10. CASE ConfirmClear
  BY <1>10 DEF ConfirmClear
<1>11. CASE ConfirmFails
  BY <1>11 DEF ConfirmFails
<1>12. CASE ConfirmGivesUp
  BY <1>12 DEF ConfirmGivesUp
<1>13. CASE RestartAgent
  BY <1>13, GoesDownStoreInv DEF RestartAgent
<1>14. CASE Crash
  BY <1>14, GoesDownStoreInv DEF Crash
<1>15. CASE Tick
  BY <1>15 DEF Tick
<1>16. CASE UNCHANGED vars
  BY <1>16 DEF vars
<1>17. QED
  BY <1>1, <1>2, <1>3, <1>4, <1>5, <1>6, <1>7, <1>8, <1>9, <1>10, <1>11,
     <1>12, <1>13, <1>14, <1>15, <1>16
  DEF Next, Startup

LEMMA StoreInvariant ==
  ASSUME SingleInstaller
  PROVE  Spec => []StoreInv
<1>1. Init => StoreInv
  <2> SUFFICES ASSUME Init PROVE StoreInv
    OBVIOUS
  <2>1. \A i \in Installers : inst[i].pc = "idle"
    BY DEF Init, Idle
  <2>2. QED
    BY <2>1, InitTypeOK DEF Init, StoreInv, LinksResolve, QuietWhenNotServing,
                            StagedIsPresent, StagedIsNewer
<1>2. StoreInv /\ [Next]_vars => StoreInv'
  BY StepStoreInv
<1>3. QED
  BY <1>1, <1>2, PTL DEF Spec

(* With one install at a time, neither symlink ever dangles, whichever     *)
(* write of StageAndActivate or of a rollback a crash or a failing disk    *)
(* makes the last.                                                         *)
THEOREM LinksAlwaysResolve ==
  ASSUME SingleInstaller
  PROVE  Spec => []LinksResolve
<1>1. StoreInv => LinksResolve
  BY DEF StoreInv
<1>2. QED
  BY <1>1, StoreInvariant, PTL

(* With one install at a time, "current" only moves down in a rollback:    *)
(* the version check of StageAndActivate still holds when the symlink is   *)
(* replaced four writes later.                                             *)
THEOREM DowngradesAreRollbacks ==
  ASSUME SingleInstaller
  PROVE  Spec => NoImplicitDowngrade
<1>1. ASSUME StoreInv, [Next]_vars
      PROVE  [proc.phase # "rollback" /\ current # NoSlot => current' > current]_current
  <2>1. CASE \E i \in Installers : ActivateCurrent(i)
    BY <1>1, <2>1 DEF ActivateCurrent, StoreInv, StagedIsNewer
  <2>2. CASE RollbackToPrevious
    BY <2>2 DEF RollbackToPrevious
  <2>3. CASE ~(\E i \in Installers : ActivateCurrent(i)) /\ ~RollbackToPrevious
    <3>1. UNCHANGED current
      BY <1>1, <2>3
      DEF Next, vars, disk, Install, HandleAgentUpdate, HandleUpdatesInstall,
          BeginStage, StageBinary, PromotePrevious, WritePending,
          PruneReleases, StageFails, Launch, Startup, ReconcileStartup,
          BecomesServing, ReconcileOverBudget, ClearAfterRollback,
          ExitAfterRollback, ReconcileFails, ConfirmRead, ConfirmClear,
          ConfirmFails, ConfirmGivesUp, RestartAgent, GoesDown, Crash, Tick
    <3>2. QED
      BY <3>1
  <2>4. QED
    BY <2>1, <2>2, <2>3
<1>2. QED
  BY <1>1, StoreInvariant, PTL DEF Spec, NoImplicitDowngrade

-----------------------------------------------------------------------------
(* What ConfirmHealthy has accepted, or may still accept while its         *)
(* goroutine runs.                                                         *)
Accepted ==
    confirmed \cup (IF confirmer.state = "off" THEN {} ELSE {proc.version})

(* A version is safe if no rollback to the previous slot goes below it.    *)
Safe(v) == v # NoSlot /\ v <= current /\ (v = current \/ v <= previous)

AcceptedIsSafe == \A v \in Accepted : Safe(v)

(* pending.json never names what was confirmed, nor is that staged again.  *)
PendingIsNew ==
    /\ pending.version \notin confirmed
    /\ \A i \in Installers :
          /\ inst[i].pc \in {"stage", "promote", "activate", "pend"} =>
               inst[i].version \notin Accepted
          /\ inst[i].pc = "activate" => current \in {NoSlot, previous}
          /\ inst[i].pc = "pend" => current = inst[i].version

(* A pending activation without a slot is one that was rolled back.        *)
PendingHasSlot ==
    current = NoSlot /\ pending.version # NoSlot => OverBudget

(* ReconcileStartup runs in what "current" names, and rolls back only what *)
(* is pending and has used up its budget.                                  *)
StartupInv ==
    /\ proc.phase # "serving" => confirmer = NoConfirmer
    /\ proc.phase \in {"start", "rollback"} /\ current # NoSlot =>
         proc.version = current
    /\ proc.phase = "rollback" => pending.version = proc.version /\ OverBudget

ConfirmInv == AcceptedIsSafe /\ PendingIsNew /\ PendingHasSlot /\ StartupInv

LEMMA Accepts ==
  /\ confirmer.state = "off" => Accepted = confirmed
  /\ confirmer.state # "off" => Accepted = confirmed \cup {proc.version}
  /\ confirmed \subseteq Accepted
  BY DEF Accepted

LEMMA StoreTypes ==
  ASSUME TypeOK
  PROVE  /\ current \in Nat /\ previous \in Nat /\ pending.version \in Nat
         /\ proc.version \in Nat \ {NoSlot}
         /\ Accepted \subseteq Nat \ {NoSlot}
         /\ pending.attempts \in Nat /\ pending.age \in Nat
         /\ MaxAttempts \in Nat /\ MaxAge \in Nat
<1>1. /\ Versions \subseteq Nat \ {NoSlot} /\ RecoveryVersion \in Nat \ {NoSlot}
      /\ MaxAttempts \in Nat /\ MaxAge \in Nat /\ NoSlot \in Nat
  BY ConstantsAssumption DEF ConstantsAssumption, NoSlot
<1>2. current \in Nat /\ previous \in Nat /\ confirmed \subseteq Nat \ {NoSlot}
  BY <1>1 DEF TypeOK
<1>3. proc.version \in Nat \ {NoSlot}
  BY <1>1 DEF TypeOK
<1>4. /\ pending.version \in Versions \cup {NoSlot}
      /\ pending.attempts \in 0..MaxAttempts /\ pending.age \in 0..MaxAge + 1
  BY DEF TypeOK
<1>5. pending.version \in Nat /\ pending.attempts \in Nat /\ pending.age \in Nat
  <2>1. pending.version \in Nat
    BY <1>1, <1>4
  <2>2. pending.attempts \in Nat
    BY <1>1, <1>4
  <2>3. pending.age \in Nat
    BY <1>1, <1>4
  <2>4. QED
    BY <2>1, <2>2, <2>3
<1>6. QED
  BY <1>1, <1>2, <1>3, <1>5, Accepts

(* What leaves the links alone, and accepts nothing new, keeps them safe.  *)
LEMMA SafeStays ==
  ASSUME AcceptedIsSafe, UNCHANGED <<current, previous>>, Accepted' \subseteq Accepted
  PROVE  AcceptedIsSafe'
  BY DEF AcceptedIsSafe, Safe

(* The steps of an install: a version that is staged is newer than all     *)
(* that was accepted, and "previous" is promoted before "current" moves.   *)
LEMMA InstallConfirmInv ==
  ASSUME SingleInstaller, StoreInv, ConfirmInv, NEW i \in Installers, Install(i)
  PROVE  ConfirmInv'
<1>1. /\ Installers = {i} /\ TypeOK /\ TypeOK' /\ inst \in [Installers -> InstType]
      /\ LinksResolve /\ StagedIsNewer
      /\ AcceptedIsSafe /\ PendingIsNew /\ PendingHasSlot /\ StartupInv
  BY InstallTypeOK DEF SingleInstaller, StoreInv, ConfirmInv, TypeOK
<1>2. /\ current \in Nat /\ previous \in Nat /\ Accepted \subseteq Nat \ {NoSlot}
      /\ confirmed \subseteq Accepted
  BY <1>1, StoreTypes, Accepts
<1>3. UNCHANGED <<proc, confirmer, confirmed>> /\ Accepted' = Accepted
  <2>1. UNCHANGED <<proc, confirmer, confirmed>>
    BY DEF Install, HandleAgentUpdate, HandleUpdatesInstall, BeginStage, StageBinary,
           PromotePrevious, ActivateCurrent, WritePending, PruneReleases, StageFails
  <2>2. QED
    BY <2>1 DEF Accepted
<1>4. proc.phase = "serving"
  <2>1. proc.phase = "serving" \/ inst[i].pc # "idle"
    BY DEF Install, HandleAgentUpdate, HandleUpdatesInstall, BeginStage, Serving,
           StageBinary, PromotePrevious, ActivateCurrent, WritePending, PruneReleases,
           StageFails
  <2>2. QED
    BY <2>1 DEF StoreInv, QuietWhenNotServing
<1>5. StartupInv'
  BY <1>1, <1>3, <1>4 DEF StartupInv
<1>6. ASSUME UNCHANGED <<current, previous, pending>>,
             inst'[i].pc \in {"idle", "prune"} \/
               (/\ inst'[i].pc \in {"stage", "promote"}
                /\ inst'[i].version \notin Accepted)
      PROVE  ConfirmInv'
  <2>1. AcceptedIsSafe'
    BY <1>1, <1>3, <1>6, SafeStays
  <2>2. PendingIsNew'
    BY <1>1, <1>3, <1>6 DEF PendingIsNew
  <2>3. PendingHasSlot'
    BY <1>1, <1>6 DEF PendingHasSlot, OverBudget
  <2>4. QED
    BY <1>5, <2>1, <2>2, <2>3 DEF ConfirmInv
<1>7. ASSUME NEW v \in Versions, BeginStage(i, v) PROVE ConfirmInv'
  <2>1. /\ UNCHANGED <<current, previous, pending>> /\ MayStage(v)
        /\ inst' = [inst EXCEPT ![i] = [pc |-> "stage", version |-> v]]
    BY <1>7 DEF BeginStage, disk
  <2>2. inst'[i].pc = "stage" /\ inst'[i].version = v
    BY <1>1, <2>1
  <2>3. v \notin Accepted
    <3>1. v \in Nat
      BY ConstantsAssumption DEF ConstantsAssumption
    <3>2. QED
      BY <1>1, <1>2, <2>1, <3>1 DEF MayStage, AcceptedIsSafe, Safe, NoSlot
  <2>4. QED
    BY <1>6, <2>1, <2>2, <2>3
<1>8. CASE StageBinary(i)
  <2>1. /\ UNCHANGED <<current, previous, pending>>
        /\ inst[i].pc = "stage" /\ inst' = [inst EXCEPT ![i].pc = "promote"]
    BY <1>8 DEF StageBinary
  <2>2. inst'[i].pc = "promote" /\ inst'[i].version = inst[i].version
    BY <1>1, <2>1
  <2>3. inst[i].version \notin Accepted
    BY <1>1, <2>1 DEF PendingIsNew
  <2>4. QED
    BY <1>6, <2>1, <2>2, <2>3
<1>9. CASE PromotePrevious(i)
  <2>1. /\ UNCHANGED <<current, pending>>
        /\ inst[i].pc = "promote" /\ inst' = [inst EXCEPT ![i].pc = "activate"]
        /\ previous' = IF current # NoSlot THEN current ELSE previous
    BY <1>9 DEF PromotePrevious
  <2>2. inst'[i].pc = "activate" /\ inst'[i].version = inst[i].version
    BY <1>1, <2>1
  <2>3. inst[i].version \notin Accepted
    BY <1>1, <2>1 DEF PendingIsNew
  <2>4. AcceptedIsSafe'
    BY <1>1, <1>2, <1>3, <2>1 DEF AcceptedIsSafe, Safe, NoSlot
  <2>5. PendingIsNew'
    BY <1>1, <1>3, <2>1, <2>2, <2>3 DEF PendingIsNew
  <2>6. PendingHasSlot'
    BY <1>1, <2>1 DEF PendingHasSlot, OverBudget
  <2>7. QED
    BY <1>5, <2>4, <2>5, <2>6 DEF ConfirmInv
<1>10. CASE ActivateCurrent(i)
  <2>1. /\ UNCHANGED <<previous, pending>> /\ current' = inst[i].version
        /\ inst[i].pc = "activate" /\ inst' = [inst EXCEPT ![i].pc = "pend"]
    BY <1>10 DEF ActivateCurrent
  <2>2. inst'[i].pc = "pend" /\ inst'[i].version = inst[i].version
    BY <1>1, <2>1
  <2>3. /\ inst[i].version \notin Accepted
        /\ inst[i].version \in Nat \ {NoSlot}
        /\ current # NoSlot => inst[i].version > current
        /\ current = NoSlot \/ current = previous
    BY <1>1, <2>1, ConstantsAssumption
    DEF PendingIsNew, StagedIsNewer, ConstantsAssumption, NoSlot
  <2>4. AcceptedIsSafe'
    BY <1>1, <1>2, <1>3, <2>1, <2>3 DEF AcceptedIsSafe, Safe, NoSlot
  <2>5. PendingIsNew'
    BY <1>1, <1>3, <2>1, <2>2, <2>3 DEF PendingIsNew
  <2>6. PendingHasSlot'
    BY <2>1, <2>3 DEF PendingHasSlot, NoSlot
  <2>7. QED
    BY <1>5, <2>4, <2>5, <2>6 DEF ConfirmInv
<1>11. CASE WritePending(i)
  <2>1. /\ UNCHANGED <<current, previous>> /\ pending'.version = inst[i].version
        /\ inst[i].pc = "pend" /\ inst' = [inst EXCEPT ![i].pc = "prune"]
    BY <1>11 DEF WritePending
  <2>2. inst'[i].pc = "prune"
    BY <1>1, <2>1
  <2>3. /\ inst[i].version \notin Accepted /\ current = inst[i].version
        /\ inst[i].version \in Versions
    BY <1>1, <2>1, BusyRequest DEF PendingIsNew
  <2>4. AcceptedIsSafe'
    BY <1>1, <1>3, <2>1, SafeStays
  <2>5. PendingIsNew'
    BY <1>1, <1>2, <1>3, <2>1, <2>2, <2>3 DEF PendingIsNew
  <2>6. PendingHasSlot'
    BY <2>1, <2>3, ConstantsAssumption DEF PendingHasSlot, ConstantsAssumption, NoSlot
  <2>7. QED
    BY <1>5, <2>4, <2>5, <2>6 DEF ConfirmInv
<1>12. CASE PruneReleases(i) \/ StageFails(i)
  <2>1. UNCHANGED <<current, previous, pending>> /\ inst' = [inst EXCEPT ![i] = Idle]
    BY <1>12 DEF PruneReleases, StageFails, disk
  <2>2. inst'[i].pc = "idle"
    BY <1>1, <2>1 DEF Idle
  <2>3. QED
    BY <1>6, <2>1, <2>2
<1>13. QED
  BY <1>7, <1>8, <1>9, <1>10, <1>11, <1>12
  DEF Install, HandleAgentUpdate, HandleUpdatesInstall

(* What moves neither link nor request, accepts nothing new and names      *)
(* nothing else as pending keeps all but the invariant of the start.       *)
LEMMA QuietConfirmInv ==
  ASSUME ConfirmInv, UNCHANGED <<current, previous>>,
         \/ inst' = inst
         \/ \A i \in Installers : inst'[i].pc = "idle",
         Accepted' \subseteq Accepted, confirmed' = confirmed,
         \/ pending'.version = NoSlot
         \/ pending'.version = pending.version /\ (OverBudget => OverBudget'),
         StartupInv'
  PROVE  ConfirmInv'
<1>1. AcceptedIsSafe'
  BY SafeStays DEF ConfirmInv
<1>2. NoSlot \notin confirmed
  BY Accepts DEF ConfirmInv, AcceptedIsSafe, Safe
<1>3. PendingIsNew'
  <2>1. pending'.version \notin confirmed'
    BY <1>2 DEF ConfirmInv, PendingIsNew
  <2>2. CASE inst' = inst
    BY <2>1, <2>2 DEF ConfirmInv, PendingIsNew
  <2>3. CASE \A i \in Installers : inst'[i].pc = "idle"
    BY <2>1, <2>3 DEF PendingIsNew
  <2>4. QED
    BY <2>2, <2>3
<1>4. PendingHasSlot'
  BY DEF ConfirmInv, PendingHasSlot
<1>5. QED
  BY <1>1, <1>3, <1>4 DEF ConfirmInv

(* The start: what is pending and within its budget is what runs, and what *)
(* "current" names; a rollback leaves what was never confirmed.            *)
LEMMA StartupConfirmInv ==
  ASSUME StoreInv, ConfirmInv, Launch \/ Startup \/ ReconcileFails
  PROVE  ConfirmInv'
<1>1. /\ TypeOK /\ AcceptedIsSafe /\ PendingIsNew /\ PendingHasSlot /\ StartupInv
      /\ \A i \in Installers : proc.phase # "serving" => inst[i].pc = "idle"
  BY DEF StoreInv, ConfirmInv, QuietWhenNotServing
<1>2. /\ current \in Nat /\ previous \in Nat /\ pending.version \in Nat
      /\ proc.version \in Nat \ {NoSlot} /\ Accepted \subseteq Nat \ {NoSlot}
      /\ confirmed \subseteq Accepted
      /\ pending.attempts \in Nat /\ pending.age \in Nat
      /\ proc \in [phase : Phases, version : Versions \cup {RecoveryVersion}]
  BY <1>1, StoreTypes, Accepts DEF TypeOK
<1>3. NoConfirmer.state = "off" /\ NoPending.version = NoSlot
  BY DEF NoConfirmer, NoPending
<1>4. CASE Launch
  <2>1. /\ UNCHANGED <<current, previous, pending, confirmer, inst, confirmed>>
        /\ proc.phase = "down" /\ proc' = [phase |-> "start", version |-> LaunchVersion]
    BY <1>4 DEF Launch, disk
  <2>2. current # NoSlot => proc'.version = current
    BY <2>1 DEF LaunchVersion, StoreInv, LinksResolve
  <2>3. confirmer = NoConfirmer
    BY <1>1, <2>1 DEF StartupInv
  <2>4. StartupInv'
    BY <2>1, <2>2, <2>3 DEF StartupInv
  <2>5. Accepted' = Accepted
    BY <1>3, <2>1, <2>3 DEF Accepted
  <2>6. OverBudget' = OverBudget
    BY <2>1 DEF OverBudget
  <2>7. QED
    BY <2>1, <2>4, <2>5, <2>6, QuietConfirmInv
<1>5. ASSUME proc.phase # "serving", proc' = [proc EXCEPT !.phase = "serving"],
             confirmer' = NoConfirmer,
             UNCHANGED <<current, previous, inst, confirmed>>,
             pending' \in {pending, NoPending}
      PROVE  ConfirmInv'
  <2>1. proc'.phase = "serving"
    BY <1>2, <1>5
  <2>2. StartupInv'
    BY <2>1 DEF StartupInv
  <2>3. Accepted' \subseteq Accepted
    BY <1>3, <1>5 DEF Accepted
  <2>4. \/ pending'.version = NoSlot
        \/ pending'.version = pending.version /\ (OverBudget => OverBudget')
    BY <1>3, <1>5 DEF OverBudget
  <2>5. QED
    BY <1>5, <2>2, <2>3, <2>4, QuietConfirmInv
<1>6. CASE ReconcileStartup
  <2>1. /\ proc.phase = "start" /\ proc' = [proc EXCEPT !.phase = "serving"]
        /\ UNCHANGED <<current, previous, inst, confirmed>>
        /\ \/ confirmer' = NoConfirmer /\ pending' \in {pending, NoPending}
           \/ /\ pending.version = proc.version /\ ~OverBudget
              /\ pending' = [pending EXCEPT !.attempts = @ + 1]
              /\ confirmer' = [state |-> "poll", age |-> 0]
    BY <1>6 DEF ReconcileStartup, BecomesServing
  <2>2. CASE confirmer' = NoConfirmer /\ pending' \in {pending, NoPending}
    BY <1>5, <2>1, <2>2
  <2>3. CASE /\ pending.version = proc.version /\ ~OverBudget
             /\ pending' = [pending EXCEPT !.attempts = @ + 1]
             /\ confirmer' = [state |-> "poll", age |-> 0]
    <3>1. proc'.phase = "serving" /\ proc'.version = proc.version
      BY <1>2, <2>1
    <3>2. pending'.version = pending.version
      BY <1>1, <2>3 DEF TypeOK
    <3>3. current # NoSlot /\ current = proc.version
      BY <1>1, <1>2, <2>1, <2>3 DEF PendingHasSlot, StartupInv
    <3>4. Accepted' = confirmed \cup {proc.version}
      BY <2>1, <2>3, <3>1 DEF Accepted
    <3>5. AcceptedIsSafe'
      BY <1>1, <1>2, <2>1, <3>3, <3>4 DEF AcceptedIsSafe, Safe
    <3>6. PendingIsNew'
      BY <1>1, <2>1, <3>2 DEF PendingIsNew
    <3>7. PendingHasSlot' /\ StartupInv'
      BY <2>1, <3>1, <3>3 DEF PendingHasSlot, StartupInv
    <3>8. QED
      BY <3>5, <3>6, <3>7 DEF ConfirmInv
  <2>4. QED
    BY <2>1, <2>2, <2>3
<1>7. CASE ReconcileFails
  <2>1. /\ UNCHANGED <<current, previous, pending, inst, confirmed>>
        /\ proc.phase # "serving" /\ proc' = [proc EXCEPT !.phase = "serving"]
        /\ confirmer' = NoConfirmer
    BY <1>7 DEF ReconcileFails, BecomesServing, disk, StartPhases
  <2>2. QED
    BY <1>5, <2>1
<1>8. CASE ReconcileOverBudget \/ ExitAfterRollback
  <2>1. /\ UNCHANGED <<current, previous, pending, confirmer, inst, confirmed>>
        /\ proc.phase # "serving"
        /\ \/ /\ proc.phase = "start" /\ proc' = [proc EXCEPT !.phase = "rollback"]
              /\ pending.version = proc.version /\ OverBudget
           \/ proc' = [proc EXCEPT !.phase = "down"]
    BY <1>8 DEF ReconcileOverBudget, ExitAfterRollback, disk
  <2>2. /\ proc'.version = proc.version
        /\ proc'.phase \in {"rollback", "down"}
        /\ proc'.phase = "rollback" =>
             proc.phase = "start" /\ pending.version = proc.version /\ OverBudget
    BY <1>2, <2>1
  <2>3. confirmer = NoConfirmer
    BY <1>1, <2>1 DEF StartupInv
  <2>4. OverBudget' = OverBudget
    BY <2>1 DEF OverBudget
  <2>5. StartupInv'
    BY <1>1, <2>1, <2>2, <2>3, <2>4 DEF StartupInv
  <2>6. Accepted' = Accepted
    BY <1>3, <2>1, <2>3 DEF Accepted
  <2>7. QED
    BY <2>1, <2>4, <2>5, <2>6, QuietConfirmInv
<1>9. CASE RollbackToPrevious
  <2>1. /\ UNCHANGED <<previous, pending, confirmer, inst, confirmed>>
        /\ proc.phase = "rollback" /\ proc' = [proc EXCEPT !.phase = "clear"]
        /\ current' = previous
    BY <1>9 DEF RollbackToPrevious
  <2>2. /\ proc'.phase = "clear" /\ confirmer = NoConfirmer
        /\ pending.version = proc.version /\ OverBudget
        /\ current # NoSlot => current = pending.version
    BY <1>1, <1>2, <2>1 DEF StartupInv
  <2>3. Accepted = confirmed /\ Accepted' = confirmed
    BY <1>3, <2>1, <2>2 DEF Accepted
  <2>4. current \notin confirmed
    BY <1>1, <1>2, <2>2 DEF PendingIsNew
  <2>5. AcceptedIsSafe'
    BY <1>1, <1>2, <2>1, <2>3, <2>4 DEF AcceptedIsSafe, Safe
  <2>6. PendingIsNew'
    BY <1>1, <2>1 DEF PendingIsNew
  <2>7. PendingHasSlot' /\ StartupInv'
    BY <2>1, <2>2 DEF PendingHasSlot, StartupInv, OverBudget
  <2>8. QED
    BY <2>5, <2>6, <2>7 DEF ConfirmInv
<1>10. CASE ClearAfterRollback
  <2>1. /\ UNCHANGED <<current, previous, confirmer, inst, confirmed>>
        /\ proc.phase = "clear" /\ proc' = [proc EXCEPT !.phase = "outcome"]
        /\ pending' = NoPending
    BY <1>10 DEF ClearAfterRollback
  <2>2. proc'.phase = "outcome" /\ confirmer = NoConfirmer
    BY <1>1, <1>2, <2>1 DEF StartupInv
  <2>3. StartupInv'
    BY <2>1, <2>2 DEF StartupInv
  <2>4. Accepted' = Accepted
    BY <1>3, <2>1, <2>2 DEF Accepted
  <2>5. QED
    BY <1>3, <2>1, <2>3, <2>4, QuietConfirmInv
<1>11. QED
  BY <1>4, <1>6, <1>7, <1>8, <1>9, <1>10 DEF Startup

(* Confirming adds what was already counted as accepted.                   *)
LEMMA ConfirmConfirmInv ==
  ASSUME StoreInv, ConfirmInv,
         ConfirmRead \/ ConfirmClear \/ ConfirmFails \/ ConfirmGivesUp
  PROVE  ConfirmInv'
<1>1. /\ TypeOK /\ AcceptedIsSafe /\ PendingIsNew /\ PendingHasSlot /\ StartupInv
      /\ NoSlot \notin Accepted /\ confirmed \subseteq Accepted
  BY StoreTypes, Accepts DEF StoreInv, ConfirmInv
<1>2. NoConfirmer.state = "off" /\ NoPending.version = NoSlot
  BY DEF NoConfirmer, NoPending
<1>3. /\ UNCHANGED <<current, previous, proc, inst>>
      /\ proc.phase = "serving" /\ confirmer.state # "off"
  BY DEF ConfirmRead, ConfirmClear, ConfirmFails, ConfirmGivesUp, disk, Serving
<1>4. StartupInv'
  BY <1>3 DEF StartupInv
<1>5. CASE ConfirmRead \/ ConfirmFails \/ ConfirmGivesUp
  <2>1. UNCHANGED <<pending, confirmed>>
    BY <1>5 DEF ConfirmRead, ConfirmFails, ConfirmGivesUp, disk
  <2>2. Accepted' \subseteq Accepted
    BY <1>3, <2>1 DEF Accepted
  <2>3. OverBudget' = OverBudget
    BY <2>1 DEF OverBudget
  <2>4. QED
    BY <1>3, <1>4, <2>1, <2>2, <2>3, QuietConfirmInv
<1>6. CASE ConfirmClear
  <2>1. /\ pending' = NoPending /\ confirmer' = NoConfirmer
        /\ confirmed' = confirmed \cup {proc.version}
    BY <1>6 DEF ConfirmClear
  <2>2. Accepted = confirmed \cup {proc.version} /\ Accepted' = Accepted
    BY <1>2, <1>3, <2>1 DEF Accepted
  <2>3. AcceptedIsSafe'
    BY <1>1, <1>3, <2>2, SafeStays
  <2>4. PendingIsNew'
    BY <1>1, <1>2, <1>3, <2>1, <2>2 DEF PendingIsNew
  <2>5. PendingHasSlot'
    BY <1>2, <2>1 DEF PendingHasSlot
  <2>6. QED
    BY <1>4, <2>3, <2>4, <2>5 DEF ConfirmInv
<1>7. QED
  BY <1>5, <1>6

(* A restart or a power loss forgets the goroutine, the clock only runs.   *)
LEMMA EnvironmentConfirmInv ==
  ASSUME StoreInv, ConfirmInv, RestartAgent \/ Crash \/ Tick \/ UNCHANGED vars
  PROVE  ConfirmInv'
<1>1. TypeOK /\ StartupInv /\ NoConfirmer.state = "off" /\ Idle.pc = "idle"
  BY DEF StoreInv, ConfirmInv, NoConfirmer, Idle
<1>2. CASE RestartAgent \/ Crash
  <2>1. GoesDown
    BY <1>2 DEF RestartAgent, Crash
  <2>2. /\ UNCHANGED <<current, previous, pending, confirmed>>
        /\ confirmer' = NoConfirmer /\ \A i \in Installers : inst'[i].pc = "idle"
        /\ proc'.phase = "down"
    BY <1>1, <2>1 DEF GoesDown, disk, TypeOK
  <2>3. StartupInv'
    BY <2>2 DEF StartupInv
  <2>4. Accepted' \subseteq Accepted
    BY <1>1, <2>2 DEF Accepted
  <2>5. OverBudget' = OverBudget
    BY <2>2 DEF OverBudget
  <2>6. QED
    BY <2>2, <2>3, <2>4, <2>5, QuietConfirmInv
<1>3. CASE Tick
  <2>1. /\ UNCHANGED <<current, previous, inst, confirmed, proc>>
        /\ pending' = [pending EXCEPT !.age = IF @ <= MaxAge THEN @ + 1 ELSE @]
        /\ confirmer' = IF confirmer.state = "poll" /\ confirmer.age < Window
                        THEN [confirmer EXCEPT !.age = @ + 1] ELSE confirmer
    BY <1>3 DEF Tick
  <2>2. confirmer'.state = confirmer.state
    BY <1>1, <2>1 DEF TypeOK
  <2>3. proc.phase # "serving" => confirmer' = NoConfirmer
    BY <1>1, <2>1 DEF StartupInv
  <2>4. /\ pending'.version = pending.version /\ pending'.attempts = pending.attempts
        /\ pending'.age = IF pending.age <= MaxAge THEN pending.age + 1 ELSE pending.age
    BY <1>1, <2>1 DEF TypeOK
  <2>5. OverBudget => OverBudget'
    BY <1>1, <2>4, StoreTypes DEF OverBudget
  <2>6. Accepted' = Accepted
    BY <2>1, <2>2 DEF Accepted
  <2>7. StartupInv'
    BY <1>1, <2>1, <2>3, <2>4, <2>5 DEF StartupInv
  <2>8. QED
    BY <2>1, <2>4, <2>5, <2>6, <2>7, QuietConfirmInv
<1>4. CASE UNCHANGED vars
  <2>1. UNCHANGED <<current, previous, pending, proc, confirmer, inst, confirmed>>
    BY <1>4 DEF vars, disk
  <2>2. Accepted' = Accepted /\ OverBudget' = OverBudget
    BY <2>1 DEF Accepted, OverBudget
  <2>3. StartupInv'
    BY <1>1, <2>1, <2>2 DEF StartupInv
  <2>4. QED
    BY <2>1, <2>2, <2>3, QuietConfirmInv
<1>5. QED
  BY <1>2, <1>3, <1>4

LEMMA ConfirmInvariant ==
  ASSUME SingleInstaller
  PROVE  Spec => [](StoreInv /\ ConfirmInv)
<1>1. Init => ConfirmInv
  <2> SUFFICES ASSUME Init PROVE ConfirmInv
    OBVIOUS
  <2>1. /\ Accepted = {} /\ current = NoSlot /\ pending.version = NoSlot
        /\ confirmed = {} /\ proc.phase = "down" /\ confirmer = NoConfirmer
        /\ \A i \in Installers : inst[i].pc = "idle"
    BY DEF Init, Accepted, NoConfirmer, NoPending, Idle
  <2>2. QED
    BY <2>1 DEF ConfirmInv, AcceptedIsSafe, PendingIsNew, PendingHasSlot, StartupInv
<1>2. StoreInv /\ ConfirmInv /\ [Next]_vars => ConfirmInv'
  <2> SUFFICES ASSUME StoreInv, ConfirmInv, [Next]_vars PROVE ConfirmInv'
    OBVIOUS
  <2>1. CASE \E i \in Installers : Install(i)
    BY <2>1, InstallConfirmInv
  <2>2. CASE Launch \/ Startup \/ ReconcileFails
    BY <2>2, StartupConfirmInv
  <2>3. CASE ConfirmRead \/ ConfirmClear \/ ConfirmFails \/ ConfirmGivesUp
    BY <2>3, ConfirmConfirmInv
  <2>4. CASE RestartAgent \/ Crash \/ Tick \/ UNCHANGED vars
    BY <2>4, EnvironmentConfirmInv
  <2>5. QED
    BY <2>1, <2>2, <2>3, <2>4 DEF Next
<1>3. QED
  BY <1>1, <1>2, StoreInvariant, PTL DEF Spec

-----------------------------------------------------------------------------
(* The steps that move a link or accept a release are those of             *)
(* ReleaseContract; every other step leaves all three alone.               *)

(* The active release is promoted before it is replaced by a newer one.    *)
LEMMA InstallImplements ==
  ASSUME StoreInv, ConfirmInv, NEW i \in Installers, Install(i)
  PROVE  Contract!Next \/ UNCHANGED <<current, previous, confirmed>>
<1>1. CASE PromotePrevious(i)
  <2>1. /\ UNCHANGED <<current, confirmed>>
        /\ previous' = IF current # NoSlot THEN current ELSE previous
    BY <1>1 DEF PromotePrevious
  <2>2. current # NoSlot => Contract!Promote
    BY <2>1 DEF Contract!Promote
  <2>3. QED
    BY <2>1, <2>2 DEF Contract!Next
<1>2. CASE ActivateCurrent(i)
  <2>1. /\ UNCHANGED <<previous, confirmed>> /\ current' = inst[i].version
        /\ inst[i].pc = "activate"
    BY <1>2 DEF ActivateCurrent
  <2>2. /\ inst[i].version \in Versions
        /\ current # NoSlot => inst[i].version > current
        /\ current \in {NoSlot, previous}
    BY <2>1 DEF StoreInv, StagedIsNewer, ConfirmInv, PendingIsNew
  <2>3. inst[i].version > current
    <3>1. inst[i].version \in Nat \ {0}
      BY <2>2, ConstantsAssumption DEF ConstantsAssumption
    <3>2. inst[i].version > NoSlot
      BY <3>1 DEF NoSlot
    <3>3. QED
      BY <2>2, <3>2
  <2>4. Contract!Upgrade(inst[i].version)
    BY <2>1, <2>2, <2>3 DEF Contract!Upgrade
  <2>5. QED
    BY <2>2, <2>4 DEF Contract!Next
<1>3. CASE ~PromotePrevious(i) /\ ~ActivateCurrent(i)
  BY <1>3
  DEF Install, HandleAgentUpdate, HandleUpdatesInstall, BeginStage, StageBinary,
      WritePending, PruneReleases, StageFails, disk
<1>4. QED
  BY <1>1, <1>2, <1>3

(* A rollback leaves what was pending, which was never confirmed.          *)
LEMMA RollbackImplements ==
  ASSUME StoreInv, ConfirmInv, RollbackToPrevious
  PROVE  Contract!Rollback
<1>1. /\ UNCHANGED <<previous, confirmed>> /\ current' = previous
      /\ proc.phase = "rollback"
  BY DEF RollbackToPrevious
<1>2. pending.version \notin confirmed /\ NoSlot \notin confirmed
  BY Accepts DEF ConfirmInv, PendingIsNew, AcceptedIsSafe, Safe
<1>3. current # NoSlot => current = pending.version
  BY <1>1 DEF ConfirmInv, StartupInv
<1>4. QED
  BY <1>1, <1>2, <1>3 DEF Contract!Rollback

(* What ConfirmHealthy records was safe while its goroutine was running.   *)
LEMMA ConfirmImplements ==
  ASSUME StoreInv, ConfirmInv, ConfirmClear
  PROVE  Contract!Next
<1>1. /\ UNCHANGED <<current, previous>> /\ confirmer.state = "clear"
      /\ confirmed' = confirmed \cup {proc.version}
  BY DEF ConfirmClear
<1>2. proc.version \in Versions \cup {RecoveryVersion}
  BY DEF StoreInv, TypeOK
<1>3. Safe(proc.version)
  BY <1>1, Accepts DEF ConfirmInv, AcceptedIsSafe
<1>4. Contract!Accept(proc.version)
  BY <1>1, <1>3 DEF Contract!Accept, Safe
<1>5. QED
  BY <1>2, <1>4 DEF Contract!Next

LEMMA StepImplements ==
  ASSUME StoreInv, ConfirmInv, [Next]_vars
  PROVE  [Contract!Next]_<<current, previous, confirmed>>
<1>1. CASE \E i \in Installers : Install(i)
  BY <1>1, InstallImplements
<1>2. CASE RollbackToPrevious
  BY <1>2, RollbackImplements DEF Contract!Next
<1>3. CASE ConfirmClear
  BY <1>3, ConfirmImplements
<1>4. CASE /\ ~(\E i \in Installers : Install(i))
           /\ ~RollbackToPrevious /\ ~ConfirmClear
  <2>1. UNCHANGED <<current, previous, confirmed>>
    BY <1>4
    DEF Next, vars, disk, Launch, Startup, ReconcileStartup, BecomesServing,
        ReconcileOverBudget, ClearAfterRollback, ExitAfterRollback,
        ReconcileFails, ConfirmRead, ConfirmFails, ConfirmGivesUp, RestartAgent,
        GoesDown, Crash, Tick
  <2>2. QED
    BY <2>1
<1>5. QED
  BY <1>1, <1>2, <1>3, <1>4

(* With one install at a time the store implements its contract, whatever  *)
(* crashes and failing writes separate the check of StageAndActivate, the  *)
(* two links, pending.json and its removal by ConfirmHealthy.              *)
THEOREM StoreImplementsContract ==
  ASSUME SingleInstaller
  PROVE  Spec => ImplementsReleaseContract
<1>1. Init => Contract!Init
  BY DEF Init, Contract!Init
<1>2. StoreInv /\ ConfirmInv /\ [Next]_vars =>
        [Contract!Next]_<<current, previous, confirmed>>
  BY StepImplements
<1>3. QED
  BY <1>1, <1>2, ConfirmInvariant, PTL
  DEF Spec, ImplementsReleaseContract, Contract!Spec

-----------------------------------------------------------------------------
(* Overlapping installs, on a node that is never offered its image's own   *)
(* version. "current" may then move down, and links dangle, but a release  *)
(* runs only out of the slot it was started from, so whatever is staged    *)
(* beside a running confirmation is newer than what it accepts.            *)

(* A request in flight is above all that was accepted, and when it is      *)
(* about to replace "current" so is the rollback target.                   *)
StagedIsAbove ==
    \A i \in Installers : \A v \in Accepted :
      /\ inst[i].pc \in {"stage", "promote", "activate", "pend"} => v < inst[i].version
      /\ inst[i].pc = "activate" => v <= previous

(* The start, where "current" may name a release that was pruned.          *)
SlotStartupInv ==
    /\ proc.phase # "serving" => confirmer = NoConfirmer
    /\ proc.phase = "start" /\ proc.version # RecoveryVersion => proc.version = current
    /\ proc.phase = "rollback" => proc.version = current /\ pending.version = current

OverlapInv ==
    /\ TypeOK
    /\ QuietWhenNotServing
    /\ AcceptedIsSafe
    /\ StagedIsAbove
    /\ pending.version \notin confirmed
    /\ SlotStartupInv

(* The steps of one request, beside any number of others.                  *)
LEMMA InstallOverlapInv ==
  ASSUME OverlapInv, NEW i \in Installers, Install(i)
  PROVE  OverlapInv'
<1>1. /\ TypeOK /\ TypeOK' /\ inst \in [Installers -> InstType]
      /\ AcceptedIsSafe /\ StagedIsAbove /\ SlotStartupInv
  BY InstallTypeOK DEF OverlapInv, TypeOK
<1>2. /\ current \in Nat /\ previous \in Nat /\ Accepted \subseteq Nat \ {NoSlot}
      /\ confirmed \subseteq Accepted
  BY <1>1, StoreTypes, Accepts
<1>3. UNCHANGED <<proc, confirmer, confirmed>> /\ Accepted' = Accepted
  <2>1. UNCHANGED <<proc, confirmer, confirmed>>
    BY DEF Install, HandleAgentUpdate, HandleUpdatesInstall, BeginStage, StageBinary,
           PromotePrevious, ActivateCurrent, WritePending, PruneReleases, StageFails
  <2>2. QED
    BY <2>1 DEF Accepted
<1>4. proc.phase = "serving"
  <2>1. proc.phase = "serving" \/ inst[i].pc # "idle"
    BY DEF Install, HandleAgentUpdate, HandleUpdatesInstall, BeginStage, Serving,
           StageBinary, PromotePrevious, ActivateCurrent, WritePending, PruneReleases,
           StageFails
  <2>2. QED
    BY <2>1 DEF OverlapInv, QuietWhenNotServing
<1>5. QuietWhenNotServing' /\ SlotStartupInv'
  BY <1>3, <1>4 DEF QuietWhenNotServing, SlotStartupInv
<1>6. ASSUME NEW r, inst' = [inst EXCEPT ![i] = r],
             r.pc \in {"stage", "promote", "pend"} => \A v \in Accepted : v < r.version,
             r.pc = "activate" => \A v \in Accepted : v < r.version /\ v <= previous',
             \A v \in Accepted : v <= previous => v <= previous'
      PROVE  StagedIsAbove'
  <2>1. inst'[i] = r /\ \A j \in Installers \ {i} : inst'[j] = inst[j]
    BY <1>1, <1>6
  <2>2. ASSUME NEW j \in Installers, NEW v \in Accepted
        PROVE  /\ inst'[j].pc \in {"stage", "promote", "activate", "pend"} =>
                    v < inst'[j].version
               /\ inst'[j].pc = "activate" => v <= previous'
    <3>1. CASE j = i
      BY <1>6, <2>1, <3>1
    <3>2. CASE j # i
      BY <1>1, <1>6, <2>1, <3>2 DEF StagedIsAbove
    <3>3. QED
      BY <3>1, <3>2
  <2>3. QED
    BY <1>3, <2>2 DEF StagedIsAbove
<1>7. ASSUME StagedIsAbove', AcceptedIsSafe', pending' = pending PROVE OverlapInv'
  BY <1>1, <1>3, <1>5, <1>7 DEF OverlapInv
<1>8. ASSUME NEW v \in Versions, BeginStage(i, v) PROVE OverlapInv'
  <2> DEFINE r == [pc |-> "stage", version |-> v]
  <2>1. /\ UNCHANGED <<current, previous, pending>> /\ MayStage(v)
        /\ inst' = [inst EXCEPT ![i] = r]
    BY <1>8 DEF BeginStage, disk
  <2>2. \A w \in Accepted : w < v
    <3>1. v \in Nat
      BY ConstantsAssumption DEF ConstantsAssumption
    <3>2. ASSUME NEW w \in Accepted PROVE w < v
      <4>1. w \in Nat /\ w # 0 /\ w <= current
        BY <1>1, <1>2 DEF AcceptedIsSafe, Safe, NoSlot
      <4>2. v > current
        BY <1>2, <2>1, <4>1 DEF MayStage, NoSlot
      <4>3. QED
        BY <1>2, <3>1, <4>1, <4>2
    <3>3. QED
      BY <3>2
  <2>3. r.pc = "stage" /\ r.version = v
    OBVIOUS
  <2> HIDE DEF r
  <2>4. StagedIsAbove'
    BY <1>6, <2>1, <2>2, <2>3
  <2>5. AcceptedIsSafe'
    BY <1>1, <1>3, <2>1, SafeStays
  <2>6. QED
    BY <1>7, <2>1, <2>4, <2>5
<1>9. ASSUME inst[i].pc # "idle", NEW p,
             inst' = [inst EXCEPT ![i].pc = p]
      PROVE  \E r : /\ inst' = [inst EXCEPT ![i] = r]
                    /\ r.pc = p /\ r.version = inst[i].version
  <2> DEFINE r == [inst[i] EXCEPT !.pc = p]
  <2>1. inst[i] \in [pc : InstPCs, version : Versions]
    BY <1>1, <1>9 DEF InstType, Idle
  <2>2. r.pc = p /\ r.version = inst[i].version
    BY <2>1
  <2>3. inst' = [inst EXCEPT ![i] = r]
    BY <1>9
  <2> HIDE DEF r
  <2>4. QED
    BY <2>2, <2>3
<1>10. CASE StageBinary(i)
  <2>1. /\ UNCHANGED <<current, previous, pending>>
        /\ inst[i].pc = "stage" /\ inst' = [inst EXCEPT ![i].pc = "promote"]
    BY <1>10 DEF StageBinary
  <2>2. PICK r : /\ inst' = [inst EXCEPT ![i] = r]
                 /\ r.pc = "promote" /\ r.version = inst[i].version
    BY <1>9, <2>1
  <2>3. \A v \in Accepted : v < r.version
    BY <1>1, <2>1, <2>2 DEF StagedIsAbove
  <2>4. StagedIsAbove'
    BY <1>6, <2>1, <2>2, <2>3
  <2>5. AcceptedIsSafe'
    BY <1>1, <1>3, <2>1, SafeStays
  <2>6. QED
    BY <1>7, <2>1, <2>4, <2>5
<1>11. CASE PromotePrevious(i)
  <2>1. /\ UNCHANGED <<current, pending>>
        /\ inst[i].pc = "promote" /\ inst' = [inst EXCEPT ![i].pc = "activate"]
        /\ previous' = IF current # NoSlot THEN current ELSE previous
    BY <1>11 DEF PromotePrevious
  <2>2. PICK r : /\ inst' = [inst EXCEPT ![i] = r]
                 /\ r.pc = "activate" /\ r.version = inst[i].version
    BY <1>9, <2>1
  <2>3. \A v \in Accepted : v < r.version
    BY <1>1, <2>1, <2>2 DEF StagedIsAbove
  <2>4. \A v \in Accepted : v # NoSlot /\ v <= current /\ v <= previous'
    BY <1>1, <1>2, <2>1 DEF AcceptedIsSafe, Safe, NoSlot
  <2>5. StagedIsAbove'
    BY <1>6, <2>2, <2>3, <2>4
  <2>6. AcceptedIsSafe'
    BY <1>3, <2>1, <2>4 DEF AcceptedIsSafe, Safe
  <2>7. QED
    BY <1>7, <2>1, <2>5, <2>6
<1>12. CASE ActivateCurrent(i)
  <2>1. /\ UNCHANGED <<previous, pending>> /\ current' = inst[i].version
        /\ inst[i].pc = "activate" /\ inst' = [inst EXCEPT ![i].pc = "pend"]
    BY <1>12 DEF ActivateCurrent
  <2>2. PICK r : /\ inst' = [inst EXCEPT ![i] = r]
                 /\ r.pc = "pend" /\ r.version = inst[i].version
    BY <1>9, <2>1
  <2>3. \A v \in Accepted : v < r.version /\ v <= previous
    BY <1>1, <2>1, <2>2 DEF StagedIsAbove
  <2>4. StagedIsAbove'
    BY <1>6, <2>1, <2>2, <2>3
  <2>5. inst[i].version \in Nat
    BY <1>1, <2>1, BusyRequest, ConstantsAssumption DEF ConstantsAssumption
  <2>6. AcceptedIsSafe'
    BY <1>2, <1>3, <2>1, <2>2, <2>3, <2>5 DEF AcceptedIsSafe, Safe
  <2>7. QED
    BY <1>7, <2>1, <2>4, <2>6
<1>13. CASE WritePending(i)
  <2>1. /\ UNCHANGED <<current, previous>> /\ pending'.version = inst[i].version
        /\ inst[i].pc = "pend" /\ inst' = [inst EXCEPT ![i].pc = "prune"]
    BY <1>13 DEF WritePending
  <2>2. PICK r : inst' = [inst EXCEPT ![i] = r] /\ r.pc = "prune"
    BY <1>9, <2>1
  <2>3. StagedIsAbove'
    BY <1>6, <2>1, <2>2
  <2>4. AcceptedIsSafe'
    BY <1>1, <1>3, <2>1, SafeStays
  <2>5. inst[i].version \notin confirmed
    <3>1. inst[i].version \in Nat
      BY <1>1, <2>1, BusyRequest, ConstantsAssumption DEF ConstantsAssumption
    <3>2. \A v \in confirmed : v \in Nat /\ v < inst[i].version
      BY <1>1, <1>2, <2>1 DEF StagedIsAbove
    <3>3. QED
      BY <3>1, <3>2
  <2>6. QED
    BY <1>1, <1>3, <1>5, <2>1, <2>3, <2>4, <2>5 DEF OverlapInv
<1>14. CASE PruneReleases(i) \/ StageFails(i)
  <2>1. UNCHANGED <<current, previous, pending>> /\ inst' = [inst EXCEPT ![i] = Idle]
    BY <1>14 DEF PruneReleases, StageFails, disk
  <2>2. StagedIsAbove'
    BY <1>6, <2>1 DEF Idle
  <2>3. AcceptedIsSafe'
    BY <1>1, <1>3, <2>1, SafeStays
  <2>4. QED
    BY <1>7, <2>1, <2>2, <2>3
<1>15. QED
  BY <1>8, <1>10, <1>11, <1>12, <1>13, <1>14
  DEF Install, HandleAgentUpdate, HandleUpdatesInstall

(* What moves no link, accepts nothing new, starts no request and names    *)
(* nothing else as pending.                                                *)
LEMMA QuietOverlapInv ==
  ASSUME OverlapInv, TypeOK', UNCHANGED <<current, previous>>,
         \/ inst' = inst
         \/ \A i \in Installers : inst'[i].pc = "idle",
         proc.phase # "serving" \/ proc'.phase = "serving"
           \/ \A i \in Installers : inst'[i].pc = "idle",
         Accepted' \subseteq Accepted, confirmed' = confirmed,
         pending'.version \in {pending.version, NoSlot},
         SlotStartupInv'
  PROVE  OverlapInv'
<1>1. AcceptedIsSafe'
  BY SafeStays DEF OverlapInv
<1>2. pending'.version \notin confirmed'
  BY Accepts DEF OverlapInv, AcceptedIsSafe, Safe
<1>3. CASE inst' = inst
  <2>1. StagedIsAbove'
    BY <1>3 DEF OverlapInv, StagedIsAbove
  <2>2. QuietWhenNotServing'
    BY <1>3 DEF OverlapInv, QuietWhenNotServing
  <2>3. QED
    BY <1>1, <1>2, <2>1, <2>2 DEF OverlapInv
<1>4. CASE \A i \in Installers : inst'[i].pc = "idle"
  <2>1. StagedIsAbove' /\ QuietWhenNotServing'
    BY <1>4 DEF StagedIsAbove, QuietWhenNotServing
  <2>2. QED
    BY <1>1, <1>2, <2>1 DEF OverlapInv
<1>5. QED
  BY <1>3, <1>4

(* The start: what is pending and runs was started out of "current".       *)
LEMMA StartupOverlapInv ==
  ASSUME RecoveryVersion \notin Versions,
         OverlapInv, TypeOK', Launch \/ Startup \/ ReconcileFails
  PROVE  OverlapInv'
<1>1. /\ TypeOK /\ AcceptedIsSafe /\ SlotStartupInv
      /\ proc.phase # "serving" => \A i \in Installers : inst[i].pc = "idle"
  BY DEF OverlapInv, QuietWhenNotServing
<1>2. /\ current \in Nat /\ previous \in Nat
      /\ proc \in [phase : Phases, version : Versions \cup {RecoveryVersion}]
      /\ pending.version \in Versions \cup {NoSlot}
      /\ RecoveryVersion # NoSlot /\ NoSlot \notin Versions
      /\ confirmed \subseteq Accepted /\ Accepted \subseteq Nat \ {NoSlot}
  BY <1>1, StoreTypes, Accepts, ConstantsAssumption
  DEF TypeOK, ConstantsAssumption, NoSlot
<1>3. NoConfirmer.state = "off" /\ NoPending.version = NoSlot
  BY DEF NoConfirmer, NoPending
<1>4. pending.version = proc.version /\ proc.phase = "start" =>
        proc.version = current
  BY <1>1, <1>2 DEF SlotStartupInv
<1>5. proc.phase # "serving"
  BY DEF Launch, Startup, ReconcileStartup, ReconcileOverBudget, RollbackToPrevious,
         ClearAfterRollback, ExitAfterRollback, ReconcileFails, StartPhases
<1>6. confirmer = NoConfirmer /\ Accepted = confirmed
  BY <1>1, <1>3, <1>5 DEF SlotStartupInv, Accepted
<1>7. CASE Launch
  <2>1. /\ UNCHANGED <<current, previous, pending, confirmer, inst, confirmed>>
        /\ proc' = [phase |-> "start", version |-> LaunchVersion]
    BY <1>7 DEF Launch, disk
  <2>2. proc'.phase = "start" /\ proc'.version \in {current, RecoveryVersion}
    BY <2>1 DEF LaunchVersion
  <2>3. SlotStartupInv'
    BY <1>6, <2>1, <2>2 DEF SlotStartupInv
  <2>4. Accepted' = Accepted
    BY <1>3, <1>6, <2>1 DEF Accepted
  <2>5. QED
    BY <1>5, <2>1, <2>3, <2>4, QuietOverlapInv
<1>8. ASSUME proc' = [proc EXCEPT !.phase = "serving"], confirmer' = NoConfirmer,
             UNCHANGED <<current, previous, inst, confirmed>>,
             pending' \in {pending, NoPending}
      PROVE  OverlapInv'
  <2>1. proc'.phase = "serving"
    BY <1>2, <1>8
  <2>2. SlotStartupInv'
    BY <2>1 DEF SlotStartupInv
  <2>3. Accepted' \subseteq Accepted
    BY <1>3, <1>6, <1>8 DEF Accepted
  <2>4. pending'.version \in {pending.version, NoSlot}
    BY <1>3, <1>8
  <2>5. QED
    BY <1>5, <1>8, <2>2, <2>3, <2>4, QuietOverlapInv
<1>9. CASE ReconcileStartup
  <2>1. /\ proc.phase = "start" /\ proc' = [proc EXCEPT !.phase = "serving"]
        /\ UNCHANGED <<current, previous, inst, confirmed>>
        /\ \/ confirmer' = NoConfirmer /\ pending' \in {pending, NoPending}
           \/ /\ pending.version = proc.version
              /\ pending' = [pending EXCEPT !.attempts = @ + 1]
              /\ confirmer' = [state |-> "poll", age |-> 0]
    BY <1>9 DEF ReconcileStartup, BecomesServing
  <2>2. CASE confirmer' = NoConfirmer /\ pending' \in {pending, NoPending}
    BY <1>8, <2>1, <2>2
  <2>3. CASE /\ pending.version = proc.version
             /\ pending' = [pending EXCEPT !.attempts = @ + 1]
             /\ confirmer' = [state |-> "poll", age |-> 0]
    <3>1. /\ proc'.phase = "serving" /\ proc'.version = proc.version
          /\ proc.version # NoSlot
      BY <1>2, <2>1
    <3>2. pending'.version = pending.version
      BY <1>1, <2>3 DEF TypeOK
    <3>3. current = proc.version
      BY <1>4, <2>1, <2>3
    <3>4. Accepted' = confirmed \cup {proc.version}
      BY <2>1, <2>3, <3>1 DEF Accepted
    <3>5. AcceptedIsSafe'
      BY <1>1, <1>2, <2>1, <3>1, <3>3, <3>4 DEF AcceptedIsSafe, Safe
    <3>6. \A i \in Installers : inst'[i].pc = "idle"
      BY <1>1, <1>5, <2>1
    <3>7. StagedIsAbove' /\ QuietWhenNotServing' /\ SlotStartupInv'
      BY <3>1, <3>6 DEF StagedIsAbove, QuietWhenNotServing, SlotStartupInv
    <3>8. pending'.version \notin confirmed'
      BY <2>1, <3>2 DEF OverlapInv
    <3>9. QED
      BY <3>5, <3>7, <3>8 DEF OverlapInv
  <2>4. QED
    BY <2>1, <2>2, <2>3
<1>10. CASE ReconcileFails
  <2>1. /\ UNCHANGED <<current, previous, pending, inst, confirmed>>
        /\ proc' = [proc EXCEPT !.phase = "serving"] /\ confirmer' = NoConfirmer
    BY <1>10 DEF ReconcileFails, BecomesServing, disk
  <2>2. QED
    BY <1>8, <2>1
<1>11. CASE ReconcileOverBudget \/ ClearAfterRollback \/ ExitAfterRollback
  <2>1. /\ UNCHANGED <<current, previous, confirmer, inst, confirmed>>
        /\ \/ /\ pending' = pending /\ proc' = [proc EXCEPT !.phase = "rollback"]
              /\ proc.phase = "start" /\ pending.version = proc.version
           \/ pending' = NoPending /\ proc' = [proc EXCEPT !.phase = "outcome"]
           \/ pending' = pending /\ proc' = [proc EXCEPT !.phase = "down"]
    BY <1>11 DEF ReconcileOverBudget, ClearAfterRollback, ExitAfterRollback, disk
  <2>2. /\ proc'.version = proc.version /\ proc'.phase \in {"rollback", "outcome", "down"}
        /\ proc'.phase = "rollback" =>
             pending' = pending /\ proc.phase = "start" /\ pending.version = proc.version
    BY <1>2, <2>1
  <2>3. SlotStartupInv'
    BY <1>4, <1>6, <2>1, <2>2 DEF SlotStartupInv
  <2>4. Accepted' = Accepted
    BY <1>3, <1>6, <2>1 DEF Accepted
  <2>5. pending'.version \in {pending.version, NoSlot}
    BY <1>3, <2>1
  <2>6. QED
    BY <1>5, <2>1, <2>3, <2>4, <2>5, QuietOverlapInv
<1>12. CASE RollbackToPrevious
  <2>1. /\ UNCHANGED <<previous, pending, confirmer, inst, confirmed>>
        /\ proc.phase = "rollback" /\ proc' = [proc EXCEPT !.phase = "clear"]
        /\ current' = previous
    BY <1>12 DEF RollbackToPrevious
  <2>2. proc'.phase = "clear" /\ current \notin confirmed
    BY <1>1, <1>2, <2>1 DEF SlotStartupInv, OverlapInv
  <2>3. Accepted' = confirmed
    BY <1>3, <1>6, <2>1 DEF Accepted
  <2>4. AcceptedIsSafe'
    BY <1>1, <1>2, <1>6, <2>1, <2>2, <2>3 DEF AcceptedIsSafe, Safe
  <2>5. \A i \in Installers : inst'[i].pc = "idle"
    BY <1>1, <1>5, <2>1
  <2>6. StagedIsAbove' /\ QuietWhenNotServing' /\ SlotStartupInv'
    BY <1>6, <2>1, <2>2, <2>5 DEF StagedIsAbove, QuietWhenNotServing, SlotStartupInv
  <2>7. pending'.version \notin confirmed'
    BY <2>1 DEF OverlapInv
  <2>8. QED
    BY <2>4, <2>6, <2>7 DEF OverlapInv
<1>13. QED
  BY <1>7, <1>9, <1>10, <1>11, <1>12 DEF Startup

(* Confirmation, restarts, power losses and the clock.                     *)
LEMMA OthersOverlapInv ==
  ASSUME OverlapInv, TypeOK',
         \/ ConfirmRead \/ ConfirmClear \/ ConfirmFails \/ ConfirmGivesUp
         \/ RestartAgent \/ Crash \/ Tick \/ UNCHANGED vars
  PROVE  OverlapInv'
<1>1. /\ TypeOK /\ AcceptedIsSafe /\ SlotStartupInv /\ confirmed \subseteq Accepted
      /\ NoSlot \notin Accepted
  BY StoreTypes, Accepts DEF OverlapInv
<1>2. NoConfirmer.state = "off" /\ NoPending.version = NoSlot /\ Idle.pc = "idle"
  BY DEF NoConfirmer, NoPending, Idle
<1>3. CASE ConfirmRead \/ ConfirmFails \/ ConfirmGivesUp
  <2>1. /\ UNCHANGED <<current, previous, pending, proc, inst, confirmed>>
        /\ proc.phase = "serving" /\ confirmer.state # "off"
    BY <1>3 DEF ConfirmRead, ConfirmFails, ConfirmGivesUp, disk, Serving
  <2>2. Accepted' \subseteq Accepted
    BY <2>1 DEF Accepted
  <2>3. SlotStartupInv'
    BY <2>1 DEF SlotStartupInv
  <2>4. QED
    BY <2>1, <2>2, <2>3, QuietOverlapInv
<1>4. CASE ConfirmClear
  <2>1. /\ UNCHANGED <<current, previous, proc, inst>> /\ proc.phase = "serving"
        /\ confirmer.state # "off" /\ pending' = NoPending /\ confirmer' = NoConfirmer
        /\ confirmed' = confirmed \cup {proc.version}
    BY <1>4 DEF ConfirmClear, Serving
  <2>2. Accepted' = Accepted /\ confirmed' = Accepted
    BY <1>2, <2>1 DEF Accepted
  <2>3. AcceptedIsSafe'
    BY <1>1, <2>1, <2>2, SafeStays
  <2>4. StagedIsAbove' /\ QuietWhenNotServing'
    BY <2>1, <2>2 DEF OverlapInv, StagedIsAbove, QuietWhenNotServing
  <2>5. SlotStartupInv'
    BY <2>1 DEF SlotStartupInv
  <2>6. pending'.version \notin confirmed'
    BY <1>1, <1>2, <2>1, <2>2
  <2>7. QED
    BY <2>3, <2>4, <2>5, <2>6 DEF OverlapInv
<1>5. CASE RestartAgent \/ Crash
  <2>1. GoesDown
    BY <1>5 DEF RestartAgent, Crash
  <2>2. /\ UNCHANGED <<current, previous, pending, confirmed>>
        /\ confirmer' = NoConfirmer /\ \A i \in Installers : inst'[i].pc = "idle"
        /\ proc'.phase = "down"
    BY <1>1, <1>2, <2>1 DEF GoesDown, disk, TypeOK
  <2>3. SlotStartupInv'
    BY <2>2 DEF SlotStartupInv
  <2>4. Accepted' \subseteq Accepted
    BY <1>2, <2>2 DEF Accepted
  <2>5. QED
    BY <2>2, <2>3, <2>4, QuietOverlapInv
<1>6. CASE Tick
  <2>1. /\ UNCHANGED <<current, previous, inst, confirmed, proc>>
        /\ pending' = [pending EXCEPT !.age = IF @ <= MaxAge THEN @ + 1 ELSE @]
        /\ confirmer' = IF confirmer.state = "poll" /\ confirmer.age < Window
                        THEN [confirmer EXCEPT !.age = @ + 1] ELSE confirmer
    BY <1>6 DEF Tick
  <2>2. confirmer'.state = confirmer.state /\ pending'.version = pending.version
    BY <1>1, <2>1 DEF TypeOK
  <2>3. proc.phase # "serving" => confirmer' = NoConfirmer
    BY <1>1, <1>2, <2>1 DEF SlotStartupInv
  <2>4. Accepted' = Accepted
    BY <2>1, <2>2 DEF Accepted
  <2>5. SlotStartupInv'
    BY <1>1, <2>1, <2>2, <2>3 DEF SlotStartupInv
  <2>6. QED
    BY <2>1, <2>2, <2>4, <2>5, QuietOverlapInv
<1>7. CASE UNCHANGED vars
  <2>1. UNCHANGED <<current, previous, pending, proc, confirmer, inst, confirmed>>
    BY <1>7 DEF vars, disk
  <2>2. Accepted' = Accepted /\ SlotStartupInv'
    BY <1>1, <2>1 DEF Accepted, SlotStartupInv
  <2>3. QED
    BY <2>1, <2>2, QuietOverlapInv
<1>8. QED
  BY <1>3, <1>4, <1>5, <1>6, <1>7

LEMMA OverlapInvariant ==
  ASSUME RecoveryVersion \notin Versions
  PROVE  Spec => []OverlapInv
<1>1. Init => OverlapInv
  <2> SUFFICES ASSUME Init PROVE OverlapInv
    OBVIOUS
  <2>1. /\ Accepted = {} /\ confirmed = {} /\ confirmer = NoConfirmer
        /\ proc.phase = "down" /\ \A i \in Installers : inst[i].pc = "idle"
    BY DEF Init, Accepted, NoConfirmer, Idle
  <2>2. QED
    BY <2>1, InitTypeOK
    DEF OverlapInv, QuietWhenNotServing, AcceptedIsSafe, StagedIsAbove, SlotStartupInv
<1>2. OverlapInv /\ [Next]_vars => OverlapInv'
  <2> SUFFICES ASSUME OverlapInv, [Next]_vars PROVE OverlapInv'
    OBVIOUS
  <2>1. TypeOK'
    BY StepTypeOK DEF OverlapInv
  <2>2. CASE \E i \in Installers : Install(i)
    BY <2>2, InstallOverlapInv
  <2>3. CASE Launch \/ Startup \/ ReconcileFails
    BY <2>1, <2>3, StartupOverlapInv
  <2>4. CASE \/ ConfirmRead \/ ConfirmClear \/ ConfirmFails \/ ConfirmGivesUp
             \/ RestartAgent \/ Crash \/ Tick \/ UNCHANGED vars
    BY <2>1, <2>4, OthersOverlapInv
  <2>5. QED
    BY <2>2, <2>3, <2>4 DEF Next
<1>3. QED
  BY <1>1, <1>2, PTL DEF Spec

-----------------------------------------------------------------------------
(* What is promised of confirmed releases, with or without overlap.        *)

(* A release ConfirmHealthy has accepted is never rolled back, whatever    *)
(* restarts, crashes and failed installs come after.                       *)
ConfirmedNeverRolledBack ==
    [][proc.phase = "rollback" => current \notin confirmed]_current

(* The invariant of the case at hand: what both say of a rollback.         *)
RollsBackPending ==
    /\ AcceptedIsSafe
    /\ pending.version \notin confirmed
    /\ proc.phase = "rollback" /\ current # NoSlot => current = pending.version

LEMMA RollbackInvariant ==
  ASSUME SingleInstaller \/ RecoveryVersion \notin Versions
  PROVE  Spec => []RollsBackPending
<1>1. CASE SingleInstaller
  <2>1. ConfirmInv => RollsBackPending
    BY DEF ConfirmInv, PendingIsNew, StartupInv, RollsBackPending
  <2>2. QED
    BY <1>1, <2>1, ConfirmInvariant, PTL
<1>2. CASE RecoveryVersion \notin Versions
  <2>1. OverlapInv => RollsBackPending
    BY DEF OverlapInv, SlotStartupInv, RollsBackPending
  <2>2. QED
    BY <1>2, <2>1, OverlapInvariant, PTL
<1>3. QED
  BY <1>1, <1>2

(* No rollback leaves a version that ConfirmHealthy has accepted: its      *)
(* pending.json never comes back, however often the node crashes, installs *)
(* fail half-way or the clock runs out. Installs may overlap if the node   *)
(* is never offered the version of its image's recovery binary.            *)
THEOREM ConfirmedStays ==
  ASSUME SingleInstaller \/ RecoveryVersion \notin Versions
  PROVE  Spec => ConfirmedNeverRolledBack
<1>1. ASSUME RollsBackPending
      PROVE  [proc.phase = "rollback" => current \notin confirmed]_current
  <2>1. NoSlot \notin confirmed
    BY <1>1, Accepts DEF RollsBackPending, AcceptedIsSafe, Safe
  <2>2. QED
    BY <1>1, <2>1 DEF RollsBackPending
<1>2. QED
  BY <1>1, RollbackInvariant, PTL DEF ConfirmedNeverRolledBack

(* What the contract is for, and what remains of it when installs overlap: *)
(* "current" never names a release below one that ConfirmHealthy has       *)
(* accepted, nor does a rollback of an unconfirmed one lead there.         *)
THEOREM ConfirmedIsKept ==
  ASSUME SingleInstaller \/ RecoveryVersion \notin Versions
  PROVE  Spec => []Contract!AcceptedIsKept
<1>1. RollsBackPending => Contract!AcceptedIsKept
  BY Accepts DEF RollsBackPending, AcceptedIsSafe, Safe, Contract!AcceptedIsKept
<1>2. QED
  BY <1>1, RollbackInvariant, PTL
=============================================================================
