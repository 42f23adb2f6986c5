---------------------------- MODULE AgentUpdates ----------------------------
(***************************************************************************)
(* The release-slot store of the node agent and the process that runs out  *)
(* of it: agent/internal/updates/store.go (StageAndActivate,               *)
(* ReconcileStartup, ConfirmHealthy), the two HTTP handlers that install   *)
(* (handleAgentUpdate, handleUpdatesInstall in api.go), the start-up and   *)
(* the health confirmation of agent/cmd/agent/main.go, and the launcher    *)
(* script systemd runs.                                                    *)
(*                                                                         *)
(* Every write the code makes to the disk (a release directory, a symlink, *)
(* pending.json) is a step of its own, because a power loss or a failing   *)
(* write may separate any two of them and because two installing requests  *)
(* run in goroutines that share no lock.                                   *)
(*                                                                         *)
(* Abstractions: a stable version is a positive natural ordered as         *)
(* IsNewerStableVersion orders vMAJOR.MINOR.PATCH; a release directory is  *)
(* in the set "releases" iff its binary is complete (atomicWriteFile       *)
(* renames a finished file); time advances in ticks (one minute).          *)
(***************************************************************************)
EXTENDS Naturals

CONSTANTS
    Versions,         \* stable releases that may be offered to the node
    RecoveryVersion,  \* build version of the image's read-only binary
    Installers,       \* concurrently running install requests
    BootableVersions, \* releases that reach ReconcileStartup when executed
    HealthyVersions,  \* releases whose health payload can be built
    AuthEnabled,      \* --http-auth, TRUE by default
    Faulty,           \* power losses, failing writes and long downtimes occur
    MaxAttempts,      \* defaultMaxActivationAttempts
    MaxAge,           \* defaultMaxActivationAge, in ticks
    Window            \* confirmationWindow, in ticks

ASSUME ConstantsAssumption ==
    /\ Versions \subseteq Nat \ {0}
    /\ RecoveryVersion \in Nat \ {0}
    /\ BootableVersions \subseteq Versions
    /\ HealthyVersions \subseteq Versions
    /\ AuthEnabled \in BOOLEAN
    /\ Faulty \in BOOLEAN
    /\ MaxAttempts \in Nat
    /\ MaxAge \in Nat
    /\ Window \in Nat

VARIABLES
    releases,   \* disk: release directories that hold a binary
    current,    \* disk: version the "current" symlink names, or NoSlot
    previous,   \* disk: version the "previous" symlink names, or NoSlot
    pending,    \* disk: pending.json, or NoPending
    proc,       \* the agent process: its phase and its build version
    confirmer,  \* the confirmUpdateHealthy goroutine
    inst,       \* the install requests: program counter and version
    restart,    \* restartAgentAsync has been called
    confirmed   \* history: versions ConfirmHealthy has accepted

disk == <<releases, current, previous, pending>>
vars == <<releases, current, previous, pending, proc, confirmer, inst,
          restart, confirmed>>

-----------------------------------------------------------------------------
NoSlot == 0
NoPending == [version |-> NoSlot, attempts |-> 0, age |-> 0]

StartPhases == {"start", "rollback", "clear", "outcome"}
Phases == {"down", "serving"} \cup StartPhases
InstPCs == {"stage", "promote", "activate", "pend", "prune"}
Idle == [pc |-> "idle", version |-> NoSlot]
InstType == {Idle} \cup [pc : InstPCs, version : Versions]
NoConfirmer == [state |-> "off", age |-> 0]

Serving == proc.phase = "serving"
StoreIdle == \A i \in Installers : inst[i].pc = "idle"

Init ==
    /\ releases = {}
    /\ current = NoSlot
    /\ previous = NoSlot
    /\ pending = NoPending
    /\ proc = [phase |-> "down", version |-> RecoveryVersion]
    /\ confirmer = NoConfirmer
    /\ inst = [i \in Installers |-> Idle]
    /\ restart = FALSE
    /\ confirmed = {}

-----------------------------------------------------------------------------
(* Installing: StageAndActivate, one action per write.                     *)

(* Mutant: only a reinstall of the active version is refused.              *)
MayStage_AnyOther(v) == v # current

(* The checks at the top of StageAndActivate: the version must differ from *)
(* the one "current" names and must be newer than it.                      *)
MayStage(v) == current # NoSlot => v > current

BeginStage(i, v) ==
    /\ Serving
    /\ inst[i].pc = "idle"
    /\ MayStage(v)
    /\ inst' = [inst EXCEPT ![i] = [pc |-> "stage", version |-> v]]
    /\ UNCHANGED <<disk, proc, confirmer, restart, confirmed>>

(* The controller's signed OTA push names any version.                     *)
HandleAgentUpdate(i, v) == BeginStage(i, v)

(* The standalone installer goes through Checker.Install, which refuses a  *)
(* release that is not newer than the version of the running process.      *)
HandleUpdatesInstall(i, v) == v > proc.version /\ BeginStage(i, v)

StageBinary(i) ==
    /\ inst[i].pc = "stage"
    /\ releases' = releases \cup {inst[i].version}
    /\ inst' = [inst EXCEPT ![i].pc = "promote"]
    /\ UNCHANGED <<current, previous, pending, proc, confirmer, restart,
                   confirmed>>

PromotePrevious(i) ==
    /\ inst[i].pc = "promote"
    /\ previous' = IF current # NoSlot THEN current ELSE previous
    /\ inst' = [inst EXCEPT ![i].pc = "activate"]
    /\ UNCHANGED <<releases, current, pending, proc, confirmer, restart,
                   confirmed>>

ActivateCurrent(i) ==
    /\ inst[i].pc = "activate"
    /\ current' = inst[i].version
    /\ inst' = [inst EXCEPT ![i].pc = "pend"]
    /\ UNCHANGED <<releases, previous, pending, proc, confirmer, restart,
                   confirmed>>

WritePending(i) ==
    /\ inst[i].pc = "pend"
    /\ pending' = [version |-> inst[i].version, attempts |-> 0, age |-> 0]
    /\ inst' = [inst EXCEPT ![i].pc = "prune"]
    /\ UNCHANGED <<releases, current, previous, proc, confirmer, restart,
                   confirmed>>

(* Mutant: pruneReleases keeps the active slot only.                       *)
PruneReleases_KeepCurrent(i) ==
    /\ inst[i].pc = "prune"
    /\ releases' = releases \cap {current}
    /\ inst' = [inst EXCEPT ![i] = Idle]
    /\ restart' = TRUE
    /\ UNCHANGED <<current, previous, pending, proc, confirmer, confirmed>>

(* The last write; the handler then answers and calls restartAgentAsync.   *)
PruneReleases(i) ==
    /\ inst[i].pc = "prune"
    /\ releases' = releases \cap {current, previous}
    /\ inst' = [inst EXCEPT ![i] = Idle]
    /\ restart' = TRUE
    /\ UNCHANGED <<current, previous, pending, proc, confirmer, confirmed>>

(* Any write of StageAndActivate may fail: the handler answers with an     *)
(* error, undoes nothing and requests no restart.                          *)
StageFails(i) ==
    /\ Faulty
    /\ inst[i].pc # "idle"
    /\ inst' = [inst EXCEPT ![i] = Idle]
    /\ UNCHANGED <<disk, proc, confirmer, restart, confirmed>>

Install(i) ==
    \/ \E v \in Versions : HandleAgentUpdate(i, v) \/ HandleUpdatesInstall(i, v)
    \/ StageBinary(i)
    \/ PromotePrevious(i)
    \/ ActivateCurrent(i)
    \/ WritePending(i)
    \/ PruneReleases(i)
    \/ StageFails(i)

-----------------------------------------------------------------------------
(* The process: systemd runs the launcher, run() reconciles, then serves.  *)

(* Mutant: a launcher without the recovery fallback.                       *)
LaunchVersion_NoRecovery == current

LaunchVersion ==
    IF current # NoSlot /\ current \in releases THEN current
                                                ELSE RecoveryVersion

Launch ==
    /\ proc.phase = "down"
    /\ proc' = [phase |-> "start", version |-> LaunchVersion]
    /\ UNCHANGED <<disk, confirmer, inst, restart, confirmed>>

Executes(v) == v \in BootableVersions \cup {RecoveryVersion}

OverBudget == pending.age > MaxAge \/ pending.attempts + 1 > MaxAttempts

BecomesServing(c) ==
    /\ proc' = [proc EXCEPT !.phase = "serving"]
    /\ confirmer' = c
    /\ UNCHANGED <<inst, restart, confirmed>>

(* Mutant: leftover pending state of another version is not cleared.       *)
ReconcileStartup_KeepStale ==
    /\ proc.phase = "start"
    /\ Executes(proc.version)
    /\ \/ /\ pending.version # proc.version
          /\ BecomesServing(NoConfirmer)
          /\ UNCHANGED pending
       \/ /\ pending.version = proc.version
          /\ ~OverBudget
          /\ pending' = [pending EXCEPT !.attempts = @ + 1]
          /\ BecomesServing([state |-> "poll", age |-> 0])
    /\ UNCHANGED <<releases, current, previous>>

(* ReconcileStartup when pending.json names no budget that has run out.    *)
ReconcileStartup ==
    /\ proc.phase = "start"
    /\ Executes(proc.version)
    /\ \/ /\ pending = NoPending
          /\ BecomesServing(NoConfirmer)
          /\ UNCHANGED pending
       \/ /\ pending # NoPending
          /\ pending.version # proc.version
          /\ pending' = NoPending
          /\ BecomesServing(NoConfirmer)
       \/ /\ pending.version = proc.version
          /\ ~OverBudget
          /\ pending' = [pending EXCEPT !.attempts = @ + 1]
          /\ BecomesServing([state |-> "poll", age |-> 0])
    /\ UNCHANGED <<releases, current, previous>>

ReconcileOverBudget ==
    /\ proc.phase = "start"
    /\ Executes(proc.version)
    /\ pending.version = proc.version
    /\ OverBudget
    /\ proc' = [proc EXCEPT !.phase = "rollback"]
    /\ UNCHANGED <<disk, confirmer, inst, restart, confirmed>>

(* rollbackToPrevious: with no previous slot "current" is removed.         *)
RollbackToPrevious ==
    /\ proc.phase = "rollback"
    /\ current' = previous
    /\ proc' = [proc EXCEPT !.phase = "clear"]
    /\ UNCHANGED <<releases, previous, pending, confirmer, inst, restart,
                   confirmed>>

ClearAfterRollback ==
    /\ proc.phase = "clear"
    /\ pending' = NoPending
    /\ proc' = [proc EXCEPT !.phase = "outcome"]
    /\ UNCHANGED <<releases, current, previous, confirmer, inst, restart,
                   confirmed>>

(* recordInstallOutcome, then run() returns an error and systemd restarts. *)
ExitAfterRollback ==
    /\ proc.phase = "outcome"
    /\ proc' = [proc EXCEPT !.phase = "down"]
    /\ UNCHANGED <<disk, confirmer, inst, restart, confirmed>>

(* An error of ReconcileStartup is only logged: the process serves on.     *)
ReconcileFails ==
    /\ Faulty
    /\ proc.phase \in StartPhases
    /\ Executes(proc.version)
    /\ proc.phase = "start" => pending # NoPending
    /\ BecomesServing(NoConfirmer)
    /\ UNCHANGED disk

Startup ==
    \/ ReconcileStartup
    \/ ReconcileOverBudget
    \/ RollbackToPrevious
    \/ ClearAfterRollback
    \/ ExitAfterRollback

-----------------------------------------------------------------------------
(* confirmUpdateHealthy: an unauthenticated GET of the agent's own         *)
(* /healthz, whose handler asks for a session, a key or a token unless     *)
(* authentication is switched off.                                         *)
ProbeAnswersOK ==
    /\ ~AuthEnabled
    /\ proc.version \in HealthyVersions \cup {RecoveryVersion}

(* ConfirmHealthy reads pending.json ...                                   *)
ConfirmRead ==
    /\ Serving
    /\ confirmer.state = "poll"
    /\ ProbeAnswersOK
    /\ confirmer' = IF pending.version = proc.version
                    THEN [confirmer EXCEPT !.state = "clear"]
                    ELSE NoConfirmer
    /\ UNCHANGED <<disk, proc, inst, restart, confirmed>>

(* Mutant: ConfirmHealthy records the outcome but leaves pending.json.     *)
ConfirmClear_KeepPending ==
    /\ Serving
    /\ confirmer.state = "clear"
    /\ confirmer' = NoConfirmer
    /\ confirmed' = confirmed \cup {proc.version}
    /\ UNCHANGED <<disk, proc, inst, restart>>

(* ... and then removes whatever pending.json is there.                    *)
ConfirmClear ==
    /\ Serving
    /\ confirmer.state = "clear"
    /\ pending' = NoPending
    /\ confirmer' = NoConfirmer
    /\ confirmed' = confirmed \cup {proc.version}
    /\ UNCHANGED <<releases, current, previous, proc, inst, restart>>

(* Removing the file fails: logged, and the goroutine ends.               *)
ConfirmFails ==
    /\ Faulty
    /\ Serving
    /\ confirmer.state = "clear"
    /\ confirmer' = NoConfirmer
    /\ UNCHANGED <<disk, proc, inst, restart, confirmed>>

ConfirmGivesUp ==
    /\ Serving
    /\ confirmer.state = "poll"
    /\ ~ProbeAnswersOK
    /\ confirmer.age >= Window
    /\ confirmer' = NoConfirmer
    /\ UNCHANGED <<disk, proc, inst, restart, confirmed>>

-----------------------------------------------------------------------------
(* The environment.                                                        *)

GoesDown ==
    /\ proc' = [proc EXCEPT !.phase = "down"]
    /\ confirmer' = NoConfirmer
    /\ inst' = [i \in Installers |-> Idle]
    /\ restart' = FALSE
    /\ UNCHANGED <<disk, confirmed>>

(* systemctl restart, requested by restartAgentAsync. The shutdown waits   *)
(* for running handlers, but not longer than five seconds.                 *)
RestartAgent ==
    /\ Serving
    /\ restart
    /\ Faulty \/ StoreIdle
    /\ GoesDown

(* A crash, a power loss, a reboot or an operator's restart.               *)
Crash ==
    /\ Faulty
    /\ proc.phase # "down"
    /\ GoesDown

(* One tick of wall-clock time since FirstAttemptAt and since the          *)
(* confirmer started. Without faults a start-up takes less than a tick.    *)
Tick ==
    /\ pending # NoPending
    /\ Faulty \/ (Serving /\ ~restart /\ StoreIdle)
    /\ pending.age <= MaxAge \/ (confirmer.state = "poll" /\ confirmer.age < Window)
    /\ pending' = [pending EXCEPT !.age = IF @ <= MaxAge THEN @ + 1 ELSE @]
    /\ confirmer' = IF confirmer.state = "poll" /\ confirmer.age < Window
                    THEN [confirmer EXCEPT !.age = @ + 1]
                    ELSE confirmer
    /\ UNCHANGED <<releases, current, previous, proc, inst, restart, confirmed>>

Next ==
    \/ \E i \in Installers : Install(i)
    \/ Launch
    \/ Startup
    \/ ReconcileFails
    \/ ConfirmRead
    \/ ConfirmClear
    \/ ConfirmFails
    \/ ConfirmGivesUp
    \/ RestartAgent
    \/ Crash
    \/ Tick

Spec == Init /\ [][Next]_vars

(* Go runs every goroutine and systemd (Restart=always, no start limit)    *)
(* starts the agent again after every exit. ReconcileStartup is the first  *)
(* thing run() does, so a bootable release that is started over and over   *)
(* completes it, and a disk that fails now and then succeeds now and then: *)
(* strong fairness. Crash carries the premise "the node is restarted again *)
(* and again", without which nothing obliges a serving process to exit.    *)
Fairness ==
    /\ WF_vars(Launch)
    /\ SF_vars(ReconcileStartup \/ ReconcileOverBudget)
    /\ SF_vars(RollbackToPrevious)
    /\ SF_vars(ClearAfterRollback)
    /\ SF_vars(ExitAfterRollback)
    /\ WF_vars(ConfirmRead)
    /\ WF_vars(ConfirmClear)
    /\ WF_vars(RestartAgent)
    /\ WF_vars(Tick)
    /\ WF_vars(Crash)
    /\ \A i \in Installers :
          WF_vars(StageBinary(i) \/ PromotePrevious(i) \/ ActivateCurrent(i)
                  \/ WritePending(i) \/ PruneReleases(i))

FairSpec == Spec /\ Fairness

-----------------------------------------------------------------------------
(* Properties.                                                             *)

(* Type invariant of the store, the process and the install requests; the  *)
(* attempt counter in pending.json never exceeds its budget.               *)
TypeOK ==
    /\ releases \subseteq Versions
    /\ current \in Versions \cup {NoSlot}
    /\ previous \in Versions \cup {NoSlot}
    /\ pending \in [version : Versions \cup {NoSlot},
                    attempts : 0..MaxAttempts, age : 0..MaxAge + 1]
    /\ proc \in [phase : Phases, version : Versions \cup {RecoveryVersion}]
    /\ confirmer \in [state : {"off", "poll", "clear"}, age : 0..Window]
    /\ inst \in [Installers -> InstType]
    /\ restart \in BOOLEAN
    /\ confirmed \subseteq Versions \cup {RecoveryVersion}

(* The two symlinks never dangle: what pruneReleases deletes is never what *)
(* "current" names (the launcher would fall back to the image binary) nor  *)
(* what "previous" names (a rollback would have nowhere to go), whichever  *)
(* write of an earlier install was the last one to reach the disk.         *)
LinksResolve ==
    /\ current # NoSlot => current \in releases
    /\ previous # NoSlot => previous \in releases

(* StageAndActivate "refuses implicit downgrades": "current" only moves to *)
(* a lower version when ReconcileStartup rolls back. The check and the     *)
(* symlink are several writes apart.                                       *)
NoImplicitDowngrade ==
    [][proc.phase # "rollback" /\ current # NoSlot => current' > current]_current

(* The two links and the accepted releases move as ReleaseContract allows, *)
(* whatever restarts, crashes and failed installs come between the writes: *)
(* an upgrade leaves a release that "previous" already names, and what     *)
(* ConfirmHealthy has accepted is never rolled back: its pending.json does *)
(* not come back.                                                          *)
Contract == INSTANCE ReleaseContract
    WITH Releases <- Versions \cup {RecoveryVersion}, None <- NoSlot,
         active <- current, fallback <- previous, accepted <- confirmed

ImplementsReleaseContract == Contract!Spec

(* No pending activation outlives all restarts: it is confirmed, rolled    *)
(* back or superseded (FairSpec; the attempt and age budgets).             *)
PendingResolves ==
    \A v \in Versions : pending.version = v ~> pending.version # v

(* A broken update never leaves the node without a working agent: the      *)
(* agent serves again and again.                                           *)
AlwaysServesAgain == []<>Serving
=============================================================================
