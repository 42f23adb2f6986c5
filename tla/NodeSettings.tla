---------------------------- MODULE NodeSettings ----------------------------
(***************************************************************************)
(* The node's persistent settings record and the handlers that change it:  *)
(* authManager (agent/internal/api/auth.go), the settings handlers of      *)
(* api.go, and the SSH access of the local admin account (ssh_access.go).  *)
(*                                                                         *)
(* Every setter of authManager takes a copy of the cached record, changes  *)
(* its own field in the copy and later, under the lock, replaces the file  *)
(* and the cache by the copy; the lock is not held in between. load fills  *)
(* an empty cache from the file in two steps of the same kind. The file is *)
(* replaced by a rename, so it is always whole.                            *)
(*                                                                         *)
(* A handler is a request that passed its session, CSRF or controller      *)
(* check; sessions themselves are not modelled. API keys are numbered in   *)
(* the order they are generated, a bcrypt or shadow hash is the password   *)
(* it was made from, and one API-key scope stands for both.                *)
(***************************************************************************)
EXTENDS Naturals

CONSTANTS
    Handlers,      \* concurrently running requests
    Passwords,     \* passwords the administrator may type
    NoPassword,    \* a locked account, an absent hash
    NoRecord,      \* absence of the record
    MaxKey,        \* bound on the API keys generated
    Environments   \* what the surroundings may do, see EnvType

(* An environment: whether two handlers may overlap, the agent process     *)
(* restarts, the node reboots (losing the overlay root), system commands   *)
(* and file writes fail; and the passwords that are typed.                 *)
EnvType == [concurrent : BOOLEAN, restart : BOOLEAN, reboot : BOOLEAN,
            fail : BOOLEAN, passwords : SUBSET Passwords]

ASSUME ConstantsAssumption ==
    /\ NoPassword \notin Passwords
    /\ MaxKey \in Nat
    /\ Environments \subseteq EnvType
    /\ \A e \in Environments : ~(e.concurrent /\ e.fail)
    /\ NoRecord \notin [pwd : Passwords, key : 0..MaxKey, ui : BOOLEAN,
                        managed : BOOLEAN, docs : BOOLEAN, ssh : BOOLEAN,
                        sshpwd : Passwords \cup {NoPassword}]

VARIABLES
    disk,   \* the record in the auth file
    cache,  \* authManager.cached
    sys,    \* the sshd drop-in file and the admin account's password
    hs,     \* the handlers
    env     \* the environment, fixed in a behaviour

vars == <<disk, cache, sys, hs, env>>

-----------------------------------------------------------------------------
MaybePassword == Passwords \cup {NoPassword}
Records == [pwd : Passwords, key : 0..MaxKey, ui : BOOLEAN,
            managed : BOOLEAN, docs : BOOLEAN, ssh : BOOLEAN,
            sshpwd : MaybePassword]
MaybeRecord == Records \cup {NoRecord}

Ops == {"none", "bootstrap", "password", "key", "ui", "policy", "docs",
        "ssh", "reset"}
PCs == {"idle", "fill", "admitted", "save", "sshEnable", "sshRecordOn",
        "sshDisable", "sshRecordOff", "syncPassword", "recordHash",
        "changePassword", "resetDisable", "reset"}
HandlerType == [pc : PCs, op : Ops, copy : MaybeRecord, then : PCs,
                old : MaybePassword, new : MaybePassword]

Idle == [pc |-> "idle", op |-> "none", copy |-> NoRecord, then |-> "idle",
         old |-> NoPassword, new |-> NoPassword]
SSHOff == [conf |-> FALSE, pwd |-> NoPassword]
AllIdle == \A h \in Handlers : hs[h] = Idle

Init ==
    /\ disk = NoRecord /\ cache = NoRecord
    /\ sys = SSHOff
    /\ hs = [h \in Handlers |-> Idle]
    /\ env \in Environments

MayStart(h) == hs[h] = Idle /\ (env.concurrent \/ AllIdle)
Goto(h, pc) == hs' = [hs EXCEPT ![h].pc = pc]
Answer(h) == hs' = [hs EXCEPT ![h] = Idle]

(* The copy of a setter, to be saved next.                                 *)
Prepare(h, op, record) ==
    hs' = [hs EXCEPT ![h].pc = "save", ![h].op = op, ![h].copy = record]

-----------------------------------------------------------------------------
(* Loading and saving the record.                                          *)

(* The first load of a handler (Bootstrapped, UIManaged, ...). Without a   *)
(* record the request ends at the bootstrap page.                          *)
Admit(h) ==
    /\ MayStart(h)
    /\ cache # NoRecord \/ disk # NoRecord
    /\ hs' = [hs EXCEPT ![h] =
                IF cache # NoRecord THEN [@ EXCEPT !.pc = "admitted"]
                ELSE [@ EXCEPT !.pc = "fill", !.copy = disk]]
    /\ UNCHANGED <<disk, cache, sys, env>>

FillCache(h) ==
    /\ hs[h].pc = "fill"
    /\ cache' = hs[h].copy
    /\ hs' = [hs EXCEPT ![h].pc = "admitted", ![h].copy = NoRecord]
    /\ UNCHANGED <<disk, sys, env>>

(* A later load finds neither cache nor file: the handler fails.           *)
LoadFails(h) ==
    /\ hs[h].pc \in {"admitted", "sshRecordOn", "sshRecordOff",
                     "recordHash", "changePassword"}
    /\ cache = NoRecord
    /\ Answer(h)
    /\ UNCHANGED <<disk, cache, sys, env>>

(* Mutant: the cache is not refreshed.                                     *)
SaveLocked_FileOnly(h) ==
    /\ hs[h].pc = "save"
    /\ disk' = hs[h].copy
    /\ cache' = cache
    /\ hs' = [hs EXCEPT ![h] =
                IF hs[h].then = "idle" THEN Idle
                ELSE [@ EXCEPT !.pc = hs[h].then, !.then = "idle",
                               !.copy = NoRecord]]
    /\ UNCHANGED <<sys, env>>

SaveLocked(h) ==
    /\ hs[h].pc = "save"
    /\ disk' = hs[h].copy
    /\ cache' = hs[h].copy
    /\ hs' = [hs EXCEPT ![h] =
                IF hs[h].then = "idle" THEN Idle
                ELSE [@ EXCEPT !.pc = hs[h].then, !.then = "idle",
                               !.copy = NoRecord]]
    /\ UNCHANGED <<sys, env>>

SaveFails(h) ==
    /\ env.fail
    /\ hs[h].pc = "save"
    /\ Answer(h)
    /\ UNCHANGED <<disk, cache, sys, env>>

-----------------------------------------------------------------------------
(* The setters.                                                            *)

(* handleBootstrap and Bootstrap check for a record, then save a new one.  *)
Bootstrap(h, p) ==
    /\ MayStart(h)
    /\ cache = NoRecord /\ disk = NoRecord
    /\ Prepare(h, "bootstrap",
               [pwd |-> p, key |-> 0, ui |-> TRUE, managed |-> FALSE,
                docs |-> FALSE, ssh |-> FALSE, sshpwd |-> NoPassword])
    /\ UNCHANGED <<disk, cache, sys, env>>

Loaded(h, pc) == hs[h].pc = pc /\ cache # NoRecord

RegenerateAPIKey(h) ==
    /\ Loaded(h, "admitted")
    /\ cache.key < MaxKey
    /\ Prepare(h, "key", [cache EXCEPT !.key = @ + 1])
    /\ UNCHANGED <<disk, cache, sys, env>>

(* Mutant: the managed flag is not looked at.                              *)
SetUIEnabled_Unchecked(h, enabled) ==
    /\ Loaded(h, "admitted")
    /\ Prepare(h, "ui", [cache EXCEPT !.ui = enabled])
    /\ UNCHANGED <<disk, cache, sys, env>>

SetUIEnabled(h, enabled) ==
    /\ Loaded(h, "admitted")
    /\ ~cache.managed
    /\ Prepare(h, "ui", [cache EXCEPT !.ui = enabled])
    /\ UNCHANGED <<disk, cache, sys, env>>

ApplyControllerUIPolicy(h, managed, enabled) ==
    /\ Loaded(h, "admitted")
    /\ Prepare(h, "policy",
               [cache EXCEPT !.managed = managed, !.ui = enabled])
    /\ UNCHANGED <<disk, cache, sys, env>>

SetAPIDocsEnabled(h, enabled) ==
    /\ Loaded(h, "admitted")
    /\ Prepare(h, "docs", [cache EXCEPT !.docs = enabled])
    /\ UNCHANGED <<disk, cache, sys, env>>

(* A wrong password, a managed toggle or a bad request: an error answer.   *)
Refused(h) ==
    /\ Loaded(h, "admitted")
    /\ Answer(h)
    /\ UNCHANGED <<disk, cache, sys, env>>

-----------------------------------------------------------------------------
(* The password, and the SSH account that shares it.                       *)

(* handleChangePassword: with SSH enabled the system account gets the new  *)
(* password and the record its hash before the current password is looked  *)
(* at.                                                                     *)
HandleChangePassword(h, old, new) ==
    /\ Loaded(h, "admitted")
    /\ hs' = [hs EXCEPT ![h].pc = IF cache.ssh THEN "syncPassword"
                                               ELSE "changePassword",
                        ![h].op = "password",
                        ![h].old = old, ![h].new = new]
    /\ UNCHANGED <<disk, cache, sys, env>>

SyncPassword(h) ==
    /\ hs[h].pc = "syncPassword"
    /\ sys' = [sys EXCEPT !.pwd = hs[h].new]
    /\ Goto(h, "recordHash")
    /\ UNCHANGED <<disk, cache, env>>

SetSSHPasswordHash(h) ==
    /\ Loaded(h, "recordHash")
    /\ hs' = [hs EXCEPT ![h].pc = "save", ![h].then = "changePassword",
                        ![h].copy = [cache EXCEPT !.sshpwd = hs[h].new]]
    /\ UNCHANGED <<disk, cache, sys, env>>

ChangePassword(h) ==
    /\ Loaded(h, "changePassword")
    /\ IF hs[h].old = cache.pwd
         THEN Prepare(h, "password", [cache EXCEPT !.pwd = hs[h].new])
         ELSE Answer(h)
    /\ UNCHANGED <<disk, cache, sys, env>>

(* handleSSHSetting: the system first, the record second.                  *)
HandleSSHEnable(h) ==
    /\ Loaded(h, "admitted")
    /\ hs' = [hs EXCEPT ![h].pc = "sshEnable", ![h].op = "ssh",
                        ![h].new = cache.pwd]
    /\ UNCHANGED <<disk, cache, sys, env>>

EnableSSH(h) ==
    /\ hs[h].pc = "sshEnable"
    /\ sys' = [conf |-> TRUE, pwd |-> hs[h].new]
    /\ Goto(h, "sshRecordOn")
    /\ UNCHANGED <<disk, cache, env>>

SetSSHEnabledOn(h) ==
    /\ Loaded(h, "sshRecordOn")
    /\ Prepare(h, "ssh", [cache EXCEPT !.ssh = TRUE, !.sshpwd = hs[h].new])
    /\ UNCHANGED <<disk, cache, sys, env>>

HandleSSHDisable(h) ==
    /\ Loaded(h, "admitted")
    /\ hs' = [hs EXCEPT ![h].pc = "sshDisable", ![h].op = "ssh"]
    /\ UNCHANGED <<disk, cache, sys, env>>

DisableSSH(h) ==
    /\ hs[h].pc \in {"sshDisable", "resetDisable"}
    /\ sys' = SSHOff
    /\ Goto(h, IF hs[h].pc = "sshDisable" THEN "sshRecordOff" ELSE "reset")
    /\ UNCHANGED <<disk, cache, env>>

SetSSHEnabledOff(h) ==
    /\ Loaded(h, "sshRecordOff")
    /\ Prepare(h, "ssh",
               [cache EXCEPT !.ssh = FALSE, !.sshpwd = NoPassword])
    /\ UNCHANGED <<disk, cache, sys, env>>

(* chpasswd, usermod, sshd -t or systemctl fails: some of the step's       *)
(* effects are there, the rest is not, and the handler answers 500.        *)
SystemCommandFails(h) ==
    /\ env.fail
    /\ \/ /\ hs[h].pc \in {"sshEnable", "syncPassword"}
          /\ sys' \in [conf : {sys.conf, sys.conf \/ hs[h].pc = "sshEnable"},
                       pwd : {sys.pwd, hs[h].new}]
       \/ /\ hs[h].pc \in {"sshDisable", "resetDisable"}
          /\ sys' \in [conf : {sys.conf, FALSE}, pwd : {sys.pwd, NoPassword}]
    /\ Answer(h)
    /\ UNCHANGED <<disk, cache, env>>

(* Mutant: the reset forgets the system account.                           *)
HandleReset_KeepSSH(h) ==
    /\ Loaded(h, "admitted")
    /\ hs' = [hs EXCEPT ![h].pc = "reset", ![h].op = "reset"]
    /\ UNCHANGED <<disk, cache, sys, env>>

HandleReset(h) ==
    /\ Loaded(h, "admitted")
    /\ hs' = [hs EXCEPT ![h].pc = IF cache.ssh THEN "resetDisable"
                                               ELSE "reset",
                        ![h].op = "reset"]
    /\ UNCHANGED <<disk, cache, sys, env>>

(* Mutant: the reset removes the file only.                                *)
Reset_KeepCache(h) ==
    /\ hs[h].pc = "reset"
    /\ disk' = NoRecord
    /\ Answer(h)
    /\ UNCHANGED <<cache, sys, env>>

(* Reset empties the cache and removes the file under the lock.            *)
Reset(h) ==
    /\ hs[h].pc = "reset"
    /\ cache' = NoRecord
    /\ disk' = NoRecord
    /\ Answer(h)
    /\ UNCHANGED <<sys, env>>

ResetFails(h) ==
    /\ env.fail
    /\ hs[h].pc = "reset"
    /\ cache' = NoRecord
    /\ Answer(h)
    /\ UNCHANGED <<disk, sys, env>>

-----------------------------------------------------------------------------
AgentRestart ==
    /\ env.restart
    /\ cache' = NoRecord
    /\ hs' = [h \in Handlers |-> Idle]
    /\ UNCHANGED <<disk, sys, env>>

(* Mutant: access is restored from a hash, whatever the flag says.         *)
SyncSSHAccess_Always(record) ==
    IF record = NoRecord THEN SSHOff
    ELSE [conf |-> TRUE, pwd |-> record.sshpwd]

(* SyncSSHAccess: what ssh-sync makes of a fresh root before sshd starts.  *)
SyncSSHAccess(record) ==
    IF record = NoRecord THEN SSHOff
    ELSE IF record.ssh THEN [conf |-> TRUE, pwd |-> record.sshpwd]
    ELSE SSHOff

Reboot ==
    /\ env.reboot
    /\ cache' = NoRecord
    /\ hs' = [h \in Handlers |-> Idle]
    /\ sys' = SyncSSHAccess(disk)
    /\ UNCHANGED <<disk, env>>

HandlerStep(h) ==
    \/ Admit(h) \/ FillCache(h) \/ LoadFails(h)
    \/ SaveLocked(h) \/ SaveFails(h) \/ Refused(h)
    \/ RegenerateAPIKey(h)
    \/ HandleSSHEnable(h) \/ EnableSSH(h) \/ SetSSHEnabledOn(h)
    \/ HandleSSHDisable(h) \/ DisableSSH(h) \/ SetSSHEnabledOff(h)
    \/ SyncPassword(h) \/ SetSSHPasswordHash(h) \/ ChangePassword(h)
    \/ SystemCommandFails(h)
    \/ HandleReset(h) \/ Reset(h) \/ ResetFails(h)
    \/ \E p \in env.passwords : Bootstrap(h, p)
    \/ \E old, new \in env.passwords : HandleChangePassword(h, old, new)
    \/ \E b \in BOOLEAN : SetUIEnabled(h, b) \/ SetAPIDocsEnabled(h, b)
    \/ \E m, b \in BOOLEAN : ApplyControllerUIPolicy(h, m, b)

Next == AgentRestart \/ Reboot \/ \E h \in Handlers : HandlerStep(h)

Spec == Init /\ [][Next]_vars

-----------------------------------------------------------------------------
(* Every variable holds a value its code type allows.                      *)
TypeOK ==
    /\ {disk, cache} \subseteq MaybeRecord
    /\ sys \in [conf : BOOLEAN, pwd : MaybePassword]
    /\ hs \in [Handlers -> HandlerType]
    /\ env \in Environments

(* What the node acts on is what a restart will bring back. Requests that  *)
(* overlap right after a restart or reboot may both load the record, and   *)
(* the slower one may put it into the cache after the faster one saved     *)
(* another.                                                                *)
EffectiveIsStored ==
    ~(env.concurrent /\ (env.restart \/ env.reboot)) =>
      cache \in {NoRecord, disk}

(* The step in which handler h saves its copy.                             *)
Saves(h, op) == hs[h].pc = "save" /\ hs[h].op = op /\ disk' = hs[h].copy

(* A save that keeps the API key or replaces it by a newer one.            *)
KeepsKey ==
    (disk # NoRecord /\ disk' # NoRecord) =>
      \/ disk'.key >= disk.key
      \/ \E h \in Handlers : Saves(h, "bootstrap")

(* A regenerated API key replaces its predecessor for good: no save brings *)
(* an older key back, as long as requests do not overlap, with failures,   *)
(* restarts and reboots between any two steps of a handler.                *)
SerialKeyNeverComesBack == [][~env.concurrent => KeepsKey]_vars

(* While the controller manages the local UI policy, only the controller   *)
(* changes the toggle or ends the management; requests do not overlap.     *)
ManagedLocksToggle ==
    [][(/\ ~env.concurrent
        /\ disk # NoRecord /\ disk' # NoRecord
        /\ disk.managed /\ (~disk'.managed \/ disk'.ui # disk.ui))
         => \E h \in Handlers : Saves(h, "policy") \/ Saves(h, "bootstrap")
       ]_vars

(* After a reset only a bootstrap creates a record again, as long as       *)
(* requests do not overlap.                                                *)
ResetSticks ==
    [][(~env.concurrent /\ disk = NoRecord /\ disk' # NoRecord) =>
         \E h \in Handlers : Saves(h, "bootstrap")]_vars

(* When no handler runs, password SSH is on exactly when the record says   *)
(* so, with the password whose hash the record holds - through reboots     *)
(* that strike between the system command and the save, but not through    *)
(* failing commands or a restart of the agent alone.                       *)
SSHMatchesRecord ==
    (AllIdle /\ ~env.concurrent /\ ~env.restart /\ ~env.fail)
      => sys = SyncSSHAccess(disk)
=============================================================================
