------------------------- MODULE NodeSettingsProofs -------------------------
(***************************************************************************)
(* Proofs about NodeSettings, for every set of handlers and of passwords   *)
(* and every bound on the API keys: what the record keeps when requests do *)
(* not overlap, with restarts, reboots and failures between any two steps. *)
(***************************************************************************)
EXTENDS NodeSettings, TLAPS

(* A password change carries a password, and only it saves twice.          *)
RequestTyped(h) ==
    /\ hs[h].then \in {"idle", "changePassword"}
    /\ \/ hs[h].pc \in {"syncPassword", "recordHash", "changePassword"}
       \/ hs[h].then = "changePassword"
       => hs[h].new \in Passwords

(* A save replaces a record by one that keeps its API key or has a newer,  *)
(* and its UI policy unless the controller sets it; or it is a bootstrap.  *)
SavesSoundly(h) ==
    /\ hs[h].copy # NoRecord
    /\ IF hs[h].op = "bootstrap" THEN disk = NoRecord
       ELSE /\ disk # NoRecord
            /\ hs[h].copy.key >= disk.key
            /\ disk.managed /\ hs[h].op # "policy" =>
                 hs[h].copy.managed /\ hs[h].copy.ui = disk.ui

(* What a handler that runs alone relies on.                               *)
HandlerSound(h) ==
    /\ hs[h].pc = "idle" => hs[h] = Idle
    /\ hs[h].pc = "fill" =>
         cache = NoRecord /\ disk # NoRecord /\ hs[h].copy = disk
    /\ hs[h].pc \notin {"idle", "fill", "save"} => cache # NoRecord
    /\ hs[h].pc \in {"syncPassword", "recordHash"} => hs[h].op = "password"
    /\ hs[h].pc = "save" => SavesSoundly(h)

(* Requests do not overlap, and the cache is empty or right.               *)
SerialInv ==
    /\ \A g, h \in Handlers : hs[g] # Idle /\ hs[h] # Idle => g = h
    /\ cache \in {NoRecord, disk}
    /\ \A h \in Handlers : HandlerSound(h)

(* Requests overlap, but nothing empties the cache while there is a record.*)
NeverFills(h) == hs[h].pc # "fill"
OverlapInv == cache = disk /\ \A h \in Handlers : NeverFills(h)

RecordInv ==
    /\ TypeOK
    /\ \A h \in Handlers : RequestTyped(h)
    /\ ~env.concurrent => SerialInv
    /\ (env.concurrent /\ ~env.restart /\ ~env.reboot) => OverlapInv

(* How far the system account is ahead of the record while a handler runs. *)
AccessInStep(h) ==
    /\ hs[h].pc \in {"fill", "admitted", "sshEnable", "sshDisable",
                     "syncPassword", "resetDisable", "changePassword"} =>
         sys = SyncSSHAccess(disk)
    /\ hs[h].pc = "save" => sys = SyncSSHAccess(hs[h].copy)
    /\ hs[h].pc \in {"sshRecordOn", "recordHash"} =>
         sys = [conf |-> TRUE, pwd |-> hs[h].new]
    /\ hs[h].pc \in {"syncPassword", "recordHash"} => disk.ssh
    /\ hs[h].pc \in {"sshRecordOff", "reset"} => sys = SSHOff

Undisturbed == ~env.concurrent /\ ~env.restart /\ ~env.fail

AccessInv ==
    Undisturbed =>
        /\ AllIdle => sys = SyncSSHAccess(disk)
        /\ \A h \in Handlers : AccessInStep(h)

-----------------------------------------------------------------------------
LEMMA IdleType == Idle \in HandlerType
  BY DEF Idle, HandlerType, PCs, Ops, MaybeRecord, MaybePassword

LEMMA NoRecordIsNone == NoRecord \notin Records
  BY ConstantsAssumption DEF ConstantsAssumption, Records, MaybePassword

LEMMA InitTypeOK == Init => TypeOK
  BY IdleType DEF Init, TypeOK, MaybeRecord, SSHOff, MaybePassword

(* A handler's own change leaves the others alone.                         *)
LEMMA OneChanges ==
  ASSUME TypeOK, NEW h \in Handlers, NEW answer \in HandlerType,
         hs' = [hs EXCEPT ![h] = answer]
  PROVE  /\ hs' \in [Handlers -> HandlerType] /\ hs'[h] = answer
         /\ \A g \in Handlers \ {h} : hs'[g] = hs[g]
  BY DEF TypeOK

LEMMA AnswerEnds ==
  ASSUME TypeOK, NEW h \in Handlers, Answer(h)
  PROVE  /\ hs' \in [Handlers -> HandlerType] /\ hs'[h] = Idle
         /\ \A g \in Handlers \ {h} : hs'[g] = hs[g]
  BY IdleType, OneChanges DEF Answer

LEMMA GotoMoves ==
  ASSUME TypeOK, NEW h \in Handlers, NEW pc \in PCs, Goto(h, pc)
  PROVE  /\ hs' \in [Handlers -> HandlerType]
         /\ hs'[h].pc = pc /\ hs'[h].op = hs[h].op /\ hs'[h].copy = hs[h].copy
         /\ hs'[h].then = hs[h].then /\ hs'[h].new = hs[h].new
         /\ \A g \in Handlers \ {h} : hs'[g] = hs[g]
<1> DEFINE answer == [hs[h] EXCEPT !.pc = pc]
<1>1. /\ answer \in HandlerType
      /\ answer.pc = pc /\ answer.op = hs[h].op /\ answer.copy = hs[h].copy
      /\ answer.then = hs[h].then /\ answer.new = hs[h].new
  BY DEF TypeOK, HandlerType
<1>2. hs' = [hs EXCEPT ![h] = answer]
  BY DEF Goto
<1> HIDE DEF answer
<1>3. QED
  BY <1>1, <1>2, OneChanges

LEMMA PrepareCopies ==
  ASSUME TypeOK, NEW h \in Handlers, NEW op \in Ops, NEW record \in Records,
         Prepare(h, op, record)
  PROVE  /\ hs' \in [Handlers -> HandlerType]
         /\ hs'[h].pc = "save" /\ hs'[h].op = op /\ hs'[h].copy = record
         /\ hs'[h].then = hs[h].then /\ hs'[h].new = hs[h].new
         /\ \A g \in Handlers \ {h} : hs'[g] = hs[g]
<1> DEFINE answer == [hs[h] EXCEPT !.pc = "save", !.op = op, !.copy = record]
<1>1. /\ answer \in HandlerType
      /\ answer.pc = "save" /\ answer.op = op /\ answer.copy = record
      /\ answer.then = hs[h].then /\ answer.new = hs[h].new
  BY DEF TypeOK, HandlerType, PCs, MaybeRecord
<1>2. hs' = [hs EXCEPT ![h] = answer]
  BY DEF Prepare, TypeOK
<1> HIDE DEF answer
<1>3. QED
  BY <1>1, <1>2, OneChanges

Inv == RecordInv /\ AccessInv

(* What a step of handler h has to show: the others are idle, when         *)
(* requests do not overlap, and stay as they are.                          *)
LEMMA HandlerKeeps ==
  ASSUME Inv, TypeOK', NEW h \in Handlers, RequestTyped(h)', hs[h].pc # "idle" \/ MayStart(h),
         \A g \in Handlers \ {h} : hs'[g] = hs[g],
         env' = env,
         ~env.concurrent => cache' \in {NoRecord, disk'} /\ HandlerSound(h)',
         (env.concurrent /\ ~env.restart /\ ~env.reboot) =>
            cache' = disk' /\ NeverFills(h)',
         Undisturbed =>
            AccessInStep(h)' /\ (hs'[h] = Idle => sys' = SyncSSHAccess(disk)')
  PROVE  Inv'
<1>1. TypeOK
  BY DEF Inv, RecordInv
<1>2. Idle.pc = "idle" /\ Idle.then = "idle"
  BY DEF Idle
<1>3. ASSUME ~env.concurrent, NEW g \in Handlers \ {h}
      PROVE  hs[g] = Idle /\ hs'[g] = Idle
  <2>1. CASE hs[h].pc # "idle"
    BY <1>2, <1>3, <2>1 DEF Inv, RecordInv, SerialInv
  <2>2. CASE MayStart(h)
    BY <1>3, <2>2 DEF MayStart, AllIdle
  <2>3. QED
    BY <2>1, <2>2
<1>4. ASSUME ~env.concurrent PROVE SerialInv'
  <2>1. \A g \in Handlers \ {h} : HandlerSound(g)'
    BY <1>2, <1>3, <1>4 DEF HandlerSound
  <2>2. \A f, g \in Handlers : hs'[f] # Idle /\ hs'[g] # Idle => f = g
    BY <1>3, <1>4
  <2>3. QED
    BY <1>4, <2>1, <2>2 DEF SerialInv, Idle
<1>5. (env.concurrent /\ ~env.restart /\ ~env.reboot) => OverlapInv'
  BY DEF OverlapInv, NeverFills, Inv, RecordInv
<1>6. RecordInv'
  BY <1>4, <1>5 DEF RecordInv, Inv, RequestTyped
<1>7. ASSUME Undisturbed
      PROVE  /\ AllIdle' => sys' = SyncSSHAccess(disk)'
             /\ \A g \in Handlers : AccessInStep(g)'
  <2>1. \A g \in Handlers \ {h} : AccessInStep(g)'
    BY <1>2, <1>3, <1>7 DEF AccessInStep, Undisturbed
  <2>2. AllIdle' => hs'[h] = Idle
    BY DEF AllIdle, Idle
  <2>3. QED
    BY <1>7, <2>1, <2>2
<1>8. Undisturbed' => Undisturbed
  BY DEF Undisturbed
<1>9. AccessInv'
  BY <1>7, <1>8 DEF AccessInv
<1>10. QED
  BY <1>6, <1>9 DEF Inv

(* The same for the setters: the record they save next is a change of the  *)
(* cached one.                                                             *)
LEMMA PrepareKeeps ==
  ASSUME Inv, NEW h \in Handlers, NEW op \in Ops \ {"bootstrap"}, NEW record \in Records,
         hs[h].pc \notin {"idle", "fill", "save"},
         cache # NoRecord, Prepare(h, op, record), UNCHANGED <<disk, cache, sys, env>>,
         record.key >= cache.key,
         cache.managed /\ op # "policy" => record.managed /\ record.ui = cache.ui,
         Undisturbed => sys = SyncSSHAccess(record)
  PROVE  Inv'
<1>0. disk' = disk /\ cache' = cache /\ sys' = sys /\ env' = env /\ TypeOK
  BY DEF Inv, RecordInv
<1>1. /\ hs' \in [Handlers -> HandlerType]
      /\ hs'[h].pc = "save" /\ hs'[h].op = op /\ hs'[h].copy = record
      /\ hs'[h].then = hs[h].then /\ hs'[h].new = hs[h].new
      /\ \A g \in Handlers \ {h} : hs'[g] = hs[g]
  BY <1>0, PrepareCopies
<1>2. TypeOK' /\ RequestTyped(h)'
  BY <1>0, <1>1 DEF TypeOK, RequestTyped, Inv, RecordInv
<1>3. ASSUME ~env.concurrent
      PROVE  cache' \in {NoRecord, disk'} /\ HandlerSound(h)'
  <2>1. cache = disk /\ HandlerSound(h)
    BY <1>3 DEF Inv, RecordInv, SerialInv
  <2>2. SavesSoundly(h)'
    BY <1>0, <1>1, <2>1, NoRecordIsNone DEF SavesSoundly
  <2>3. QED
    BY <1>0, <1>1, <2>1, <2>2 DEF HandlerSound
<1>4. ASSUME Undisturbed PROVE AccessInStep(h)' /\ hs'[h] # Idle
  <2>1. sys' = SyncSSHAccess(hs[h].copy)'
    BY <1>0, <1>1, <1>4 DEF SyncSSHAccess
  <2>2. QED
    BY <1>1, <2>1 DEF AccessInStep, Idle
<1>5. (env.concurrent /\ ~env.restart /\ ~env.reboot) =>
         cache' = disk' /\ NeverFills(h)'
  BY <1>0, <1>1 DEF Inv, RecordInv, OverlapInv, NeverFills
<1>6. QED
  BY <1>0, <1>1, <1>2, <1>3, <1>4, <1>5, HandlerKeeps

(* And for the steps that end a handler.                                   *)
LEMMA AnswerKeeps ==
  ASSUME Inv, NEW h \in Handlers, hs[h].pc # "idle", Answer(h), env' = env,
         disk' \in MaybeRecord, cache' \in {NoRecord, disk', cache},
         sys' \in [conf : BOOLEAN, pwd : MaybePassword],
         ~env.concurrent => cache' \in {NoRecord, disk'},
         (env.concurrent /\ ~env.restart /\ ~env.reboot) => cache' = disk',
         Undisturbed => sys' = SyncSSHAccess(disk')
  PROVE  Inv'
<1>1. /\ hs' \in [Handlers -> HandlerType] /\ hs'[h] = Idle
      /\ \A g \in Handlers \ {h} : hs'[g] = hs[g]
  BY AnswerEnds DEF Inv, RecordInv
<1>2. TypeOK'
  BY <1>1 DEF Inv, RecordInv, TypeOK, MaybeRecord
<1>3. Idle.pc = "idle" /\ Idle.then = "idle"
  BY DEF Idle
<1>4. HandlerSound(h)' /\ RequestTyped(h)'
  BY <1>1, <1>3 DEF HandlerSound, RequestTyped, Idle
<1>5. AccessInStep(h)'
  BY <1>1, <1>3 DEF AccessInStep
<1>6. Undisturbed => sys' = SyncSSHAccess(disk)'
  BY DEF SyncSSHAccess, SSHOff
<1>7. QED
  BY <1>1, <1>2, <1>3, <1>4, <1>5, <1>6, HandlerKeeps DEF NeverFills

(* Where the record and the system stand when handler h may go on.         *)
LEMMA Standing ==
  ASSUME Inv, NEW h \in Handlers
  PROVE  /\ TypeOK /\ {disk, cache} \subseteq MaybeRecord
         /\ hs[h] \in HandlerType /\ RequestTyped(h)
         /\ ~env.concurrent => cache \in {NoRecord, disk} /\ HandlerSound(h)
         /\ (env.concurrent /\ ~env.restart /\ ~env.reboot) =>
              cache = disk /\ NeverFills(h)
         /\ Undisturbed => ~env.concurrent /\ AccessInStep(h)
  BY DEF Inv, RecordInv, SerialInv, OverlapInv, AccessInv, TypeOK, Undisturbed

LEMMA SettersKeep ==
  ASSUME Inv, NEW h \in Handlers,
         \/ RegenerateAPIKey(h)
         \/ \E b \in BOOLEAN : SetUIEnabled(h, b) \/ SetAPIDocsEnabled(h, b)
         \/ \E m, b \in BOOLEAN : ApplyControllerUIPolicy(h, m, b)
  PROVE  Inv'
<1>1. /\ hs[h].pc = "admitted" /\ cache # NoRecord /\ cache \in Records
      /\ UNCHANGED <<disk, cache, sys, env>>
  BY Standing
  DEF RegenerateAPIKey, SetUIEnabled, SetAPIDocsEnabled, ApplyControllerUIPolicy,
      Loaded, MaybeRecord
<1>2. /\ Undisturbed => sys = SyncSSHAccess(cache)
      /\ cache.key \in Nat /\ cache.key >= cache.key
  BY <1>1, Standing, ConstantsAssumption DEF AccessInStep, Records, ConstantsAssumption
<1>3. CASE RegenerateAPIKey(h)
  <2> DEFINE record == [cache EXCEPT !.key = @ + 1]
  <2>1. /\ record \in Records /\ record.key >= cache.key
        /\ record.managed = cache.managed /\ record.ui = cache.ui
        /\ record.ssh = cache.ssh /\ record.sshpwd = cache.sshpwd
    BY <1>1, <1>3, ConstantsAssumption DEF Records, RegenerateAPIKey, ConstantsAssumption
  <2>2. Prepare(h, "key", record)
    BY <1>3 DEF RegenerateAPIKey
  <2> HIDE DEF record
  <2>3. SyncSSHAccess(record) = SyncSSHAccess(cache)
    BY <1>1, <2>1, NoRecordIsNone DEF SyncSSHAccess
  <2>4. QED
    BY <1>1, <1>2, <2>1, <2>2, <2>3, PrepareKeeps DEF Ops
<1>4. ASSUME NEW b \in BOOLEAN, SetUIEnabled(h, b) PROVE Inv'
  <2> DEFINE record == [cache EXCEPT !.ui = b]
  <2>1. /\ record \in Records /\ record.key = cache.key /\ record.key \in Nat
        /\ record.managed = cache.managed
        /\ record.ssh = cache.ssh /\ record.sshpwd = cache.sshpwd
    BY <1>1, ConstantsAssumption DEF Records, ConstantsAssumption
  <2>2. Prepare(h, "ui", record) /\ ~cache.managed
    BY <1>4 DEF SetUIEnabled
  <2> HIDE DEF record
  <2>3. SyncSSHAccess(record) = SyncSSHAccess(cache)
    BY <1>1, <2>1, NoRecordIsNone DEF SyncSSHAccess
  <2>4. QED
    BY <1>1, <1>2, <2>1, <2>2, <2>3, PrepareKeeps DEF Ops
<1>5. ASSUME NEW b \in BOOLEAN, SetAPIDocsEnabled(h, b) PROVE Inv'
  <2> DEFINE record == [cache EXCEPT !.docs = b]
  <2>1. /\ record \in Records /\ record.key = cache.key /\ record.key \in Nat
        /\ record.managed = cache.managed /\ record.ui = cache.ui
        /\ record.ssh = cache.ssh /\ record.sshpwd = cache.sshpwd
    BY <1>1, ConstantsAssumption DEF Records, ConstantsAssumption
  <2>2. Prepare(h, "docs", record)
    BY <1>5 DEF SetAPIDocsEnabled
  <2> HIDE DEF record
  <2>3. SyncSSHAccess(record) = SyncSSHAccess(cache)
    BY <1>1, <2>1, NoRecordIsNone DEF SyncSSHAccess
  <2>4. QED
    BY <1>1, <1>2, <2>1, <2>2, <2>3, PrepareKeeps DEF Ops
<1>6. ASSUME NEW m \in BOOLEAN, NEW b \in BOOLEAN, ApplyControllerUIPolicy(h, m, b)
      PROVE  Inv'
  <2> DEFINE record == [cache EXCEPT !.managed = m, !.ui = b]
  <2>1. /\ record \in Records
        /\ record.key = cache.key
        /\ record.ssh = cache.ssh /\ record.sshpwd = cache.sshpwd
    BY <1>1 DEF Records
  <2>2. Prepare(h, "policy", record)
    BY <1>6 DEF ApplyControllerUIPolicy
  <2> HIDE DEF record
  <2>3. SyncSSHAccess(record) = SyncSSHAccess(cache)
    BY <1>1, <2>1, NoRecordIsNone DEF SyncSSHAccess
  <2>4. record.key >= cache.key /\ (Undisturbed => sys = SyncSSHAccess(record))
    BY <1>2, <2>1, <2>3
  <2>5. QED
    BY <1>1, <2>1, <2>2, <2>4, PrepareKeeps DEF Ops
<1>7. QED
  BY <1>3, <1>4, <1>5, <1>6

LEMMA AdmitKeeps == ASSUME Inv, NEW h \in Handlers, Admit(h) PROVE Inv'
<1>0. /\ disk' = disk /\ cache' = cache /\ sys' = sys /\ env' = env
      /\ MayStart(h) /\ hs[h] = Idle /\ (cache # NoRecord \/ disk # NoRecord)
  BY DEF Admit, MayStart
<1> DEFINE answer == IF cache # NoRecord THEN [hs[h] EXCEPT !.pc = "admitted"]
                     ELSE [hs[h] EXCEPT !.pc = "fill", !.copy = disk]
<1>1. /\ answer \in HandlerType /\ answer.then = "idle"
      /\ cache # NoRecord => answer.pc = "admitted"
      /\ cache = NoRecord => answer.pc = "fill" /\ answer.copy = disk
  <2>1. hs[h] \in HandlerType /\ hs[h].then = "idle" /\ disk \in MaybeRecord
    BY <1>0, Standing DEF Idle
  <2>2. CASE cache # NoRecord
    <3>1. answer = [hs[h] EXCEPT !.pc = "admitted"]
      BY <2>2
    <3>2. QED
      BY <2>1, <2>2, <3>1 DEF HandlerType, PCs
  <2>3. CASE cache = NoRecord
    <3>1. answer = [hs[h] EXCEPT !.pc = "fill", !.copy = disk]
      BY <2>3
    <3>2. QED
      BY <2>1, <2>3, <3>1 DEF HandlerType, PCs
  <2>4. QED
    BY <2>2, <2>3
<1>2. hs' = [hs EXCEPT ![h] = answer]
  BY DEF Admit
<1> HIDE DEF answer
<1>3. /\ hs' \in [Handlers -> HandlerType] /\ hs'[h] = answer
      /\ \A g \in Handlers \ {h} : hs'[g] = hs[g]
  BY <1>1, <1>2, Standing, OneChanges
<1>4. TypeOK' /\ RequestTyped(h)'
  BY <1>0, <1>1, <1>3, Standing DEF TypeOK, RequestTyped
<1>5. ASSUME ~env.concurrent
      PROVE  cache' \in {NoRecord, disk'} /\ HandlerSound(h)'
  BY <1>0, <1>1, <1>3, <1>5, Standing DEF HandlerSound
<1>6. (env.concurrent /\ ~env.restart /\ ~env.reboot) =>
         cache' = disk' /\ NeverFills(h)'
  BY <1>0, <1>1, <1>3, Standing DEF NeverFills
<1>7. ASSUME Undisturbed PROVE AccessInStep(h)' /\ hs'[h] # Idle
  <2>1. AllIdle
    BY <1>0, <1>7 DEF MayStart, Undisturbed
  <2>2. sys' = SyncSSHAccess(disk)'
    BY <1>0, <1>7, <2>1 DEF Inv, AccessInv, SyncSSHAccess
  <2>3. hs'[h].pc \in {"fill", "admitted"}
    BY <1>1, <1>3
  <2>4. QED
    BY <2>2, <2>3 DEF AccessInStep, Idle
<1>8. QED
  BY <1>0, <1>3, <1>4, <1>5, <1>6, <1>7, HandlerKeeps

(* Without another handler in between, what is put into the cache is what  *)
(* the file holds.                                                         *)
LEMMA FillKeeps == ASSUME Inv, NEW h \in Handlers, FillCache(h) PROVE Inv'
<1>0. /\ disk' = disk /\ cache' = hs[h].copy /\ sys' = sys /\ env' = env
      /\ hs[h].pc = "fill"
  BY DEF FillCache
<1> DEFINE answer == [hs[h] EXCEPT !.pc = "admitted", !.copy = NoRecord]
<1>1. /\ answer \in HandlerType /\ answer.pc = "admitted"
      /\ answer.then = hs[h].then /\ answer.new = hs[h].new
  BY Standing DEF HandlerType, PCs, MaybeRecord
<1>2. hs' = [hs EXCEPT ![h] = answer]
  BY DEF FillCache, Inv, RecordInv, TypeOK
<1> HIDE DEF answer
<1>3. /\ hs' \in [Handlers -> HandlerType] /\ hs'[h] = answer
      /\ \A g \in Handlers \ {h} : hs'[g] = hs[g]
  BY <1>1, <1>2, Standing, OneChanges
<1>4. hs[h].copy \in MaybeRecord
  BY Standing DEF HandlerType
<1>5. TypeOK' /\ RequestTyped(h)'
  BY <1>0, <1>1, <1>3, <1>4, Standing DEF TypeOK, RequestTyped
<1>6. ASSUME ~env.concurrent
      PROVE  cache' \in {NoRecord, disk'} /\ HandlerSound(h)'
  BY <1>0, <1>1, <1>3, <1>6, Standing DEF HandlerSound
<1>7. ~(env.concurrent /\ ~env.restart /\ ~env.reboot)
  BY <1>0, Standing DEF NeverFills
<1>8. ASSUME Undisturbed PROVE AccessInStep(h)' /\ hs'[h] # Idle
  <2>1. sys' = SyncSSHAccess(disk)'
    BY <1>0, <1>8, Standing DEF AccessInStep, SyncSSHAccess
  <2>2. QED
    BY <1>1, <1>3, <2>1 DEF AccessInStep, Idle
<1>9. QED
  BY <1>0, <1>3, <1>5, <1>6, <1>7, <1>8, HandlerKeeps

(* A handler that ends without having written.                             *)
LEMMA RefusalsKeep ==
  ASSUME Inv, NEW h \in Handlers, LoadFails(h) \/ Refused(h) \/ SaveFails(h)
  PROVE  Inv'
<1>1. /\ hs[h].pc # "idle" /\ Answer(h)
      /\ disk' = disk /\ cache' = cache /\ sys' = sys /\ env' = env
  BY DEF LoadFails, Refused, Loaded, SaveFails
<1>2. sys \in [conf : BOOLEAN, pwd : MaybePassword] /\ disk \in MaybeRecord
  BY DEF Inv, RecordInv, TypeOK
<1>3. ASSUME Undisturbed PROVE sys = SyncSSHAccess(disk)
  <2>1. hs[h].pc = "admitted"
    BY <1>3, Standing DEF LoadFails, Refused, Loaded, SaveFails, HandlerSound, Undisturbed
  <2>2. QED
    BY <1>3, <2>1, Standing DEF AccessInStep
<1>4. QED
  BY <1>1, <1>2, <1>3, Standing, AnswerKeeps

LEMMA BootstrapKeeps ==
  ASSUME Inv, NEW h \in Handlers, NEW p \in env.passwords, Bootstrap(h, p)
  PROVE  Inv'
<1>0. /\ disk' = disk /\ cache' = cache /\ sys' = sys /\ env' = env
      /\ MayStart(h) /\ hs[h] = Idle /\ cache = NoRecord /\ disk = NoRecord
  BY DEF Bootstrap, MayStart
<1> DEFINE record == [pwd |-> p, key |-> 0, ui |-> TRUE, managed |-> FALSE,
                      docs |-> FALSE, ssh |-> FALSE, sshpwd |-> NoPassword]
<1>1. p \in Passwords
  BY ConstantsAssumption DEF ConstantsAssumption, Inv, RecordInv, TypeOK, EnvType
<1>2. record \in Records /\ ~record.ssh
  BY <1>1, ConstantsAssumption DEF ConstantsAssumption, Records, MaybePassword
<1>3. Prepare(h, "bootstrap", record)
  BY DEF Bootstrap
<1> HIDE DEF record
<1>4. /\ hs' \in [Handlers -> HandlerType]
      /\ hs'[h].pc = "save" /\ hs'[h].op = "bootstrap" /\ hs'[h].copy = record
      /\ hs'[h].then = hs[h].then
      /\ \A g \in Handlers \ {h} : hs'[g] = hs[g]
  BY <1>2, <1>3, Standing, PrepareCopies DEF Ops
<1>5. TypeOK' /\ RequestTyped(h)'
  BY <1>0, <1>4, Standing DEF TypeOK, RequestTyped, Idle
<1>6. HandlerSound(h)'
  BY <1>0, <1>2, <1>4, NoRecordIsNone DEF HandlerSound, SavesSoundly, Idle
<1>7. ASSUME Undisturbed PROVE AccessInStep(h)' /\ hs'[h] # Idle
  <2>1. sys = SyncSSHAccess(disk)
    BY <1>0, <1>7 DEF MayStart, Undisturbed, Inv, AccessInv
  <2>2. sys' = SyncSSHAccess(hs[h].copy)'
    BY <1>0, <1>2, <1>4, <2>1, NoRecordIsNone DEF SyncSSHAccess
  <2>3. QED
    BY <1>4, <2>2 DEF AccessInStep, Idle
<1>8. NeverFills(h)'
  BY <1>0, <1>4 DEF NeverFills, Idle
<1>9. QED
  BY <1>0, <1>4, <1>5, <1>6, <1>7, <1>8, HandlerKeeps

(* The file and the cache become the copy, and a password change goes on.  *)
LEMMA SaveKeeps == ASSUME Inv, NEW h \in Handlers, SaveLocked(h) PROVE Inv'
<1>0. /\ disk' = hs[h].copy /\ cache' = hs[h].copy /\ sys' = sys /\ env' = env
      /\ hs[h].pc = "save" /\ hs[h] \in HandlerType
  BY Standing DEF SaveLocked
<1>1. PICK answer \in HandlerType :
        /\ hs' = [hs EXCEPT ![h] = answer]
        /\ hs[h].then = "idle" => answer = Idle
        /\ hs[h].then # "idle" =>
             answer.pc = hs[h].then /\ answer.then = "idle" /\ answer.new = hs[h].new
  <2>1. CASE hs[h].then = "idle"
    BY <2>1, IdleType DEF SaveLocked
  <2>2. CASE hs[h].then # "idle"
    <3> DEFINE answer == [hs[h] EXCEPT !.pc = hs[h].then, !.then = "idle",
                                       !.copy = NoRecord]
    <3>1. /\ answer \in HandlerType /\ answer.pc = hs[h].then /\ answer.then = "idle"
          /\ answer.new = hs[h].new
      BY <1>0 DEF HandlerType, PCs, MaybeRecord
    <3>2. hs' = [hs EXCEPT ![h] = answer]
      BY <2>2 DEF SaveLocked
    <3> HIDE DEF answer
    <3>3. QED
      BY <2>2, <3>1, <3>2
  <2>3. QED
    BY <2>1, <2>2
<1>2. /\ hs' \in [Handlers -> HandlerType] /\ hs'[h] = answer
      /\ \A g \in Handlers \ {h} : hs'[g] = hs[g]
  BY <1>1, Standing, OneChanges
<1>3. hs[h].copy \in MaybeRecord
  BY <1>0 DEF HandlerType
<1>4. TypeOK'
  BY <1>0, <1>2, <1>3, Standing DEF TypeOK
<1>5. Idle.pc = "idle" /\ Idle.then = "idle" /\ RequestTyped(h)'
  BY <1>1, <1>2, Standing DEF Idle, RequestTyped
<1>6. ASSUME ~env.concurrent
      PROVE  cache' \in {NoRecord, disk'} /\ HandlerSound(h)'
  <2>1. hs[h].then \in {"idle", "changePassword"} /\ hs[h].copy # NoRecord
    BY <1>0, <1>6, Standing DEF HandlerSound, RequestTyped, SavesSoundly
  <2>2. CASE hs[h].then = "idle"
    BY <1>0, <1>1, <1>2, <1>5, <2>2 DEF HandlerSound, Idle
  <2>3. CASE hs[h].then = "changePassword"
    BY <1>0, <1>1, <1>2, <2>1, <2>3 DEF HandlerSound
  <2>4. QED
    BY <1>0, <2>1, <2>2, <2>3
<1>7. (env.concurrent /\ ~env.restart /\ ~env.reboot) =>
         cache' = disk' /\ NeverFills(h)'
  BY <1>0, <1>1, <1>2, <1>5, Standing DEF NeverFills, RequestTyped
<1>8. ASSUME Undisturbed
      PROVE  AccessInStep(h)' /\ (hs'[h] = Idle => sys' = SyncSSHAccess(disk)')
  <2>1. sys' = SyncSSHAccess(disk)'
    BY <1>0, <1>8, Standing DEF AccessInStep, SyncSSHAccess
  <2>2. hs'[h].pc \in {"idle", "changePassword"}
    BY <1>0, <1>1, <1>2, <1>5, Standing DEF RequestTyped
  <2>3. QED
    BY <2>1, <2>2 DEF AccessInStep
<1>9. QED
  BY <1>0, <1>2, <1>4, <1>5, <1>6, <1>7, <1>8, HandlerKeeps

(* A handler that moves on without touching the record: it had loaded it.  *)
LEMMA MovesKeep ==
  ASSUME Inv, NEW h \in Handlers, TypeOK', RequestTyped(h)', env' = env, disk' = disk, cache' = cache,
         hs[h].pc \notin {"idle", "fill", "save"},
         hs'[h].pc \notin {"idle", "fill", "save"},
         ~env.concurrent /\ hs'[h].pc \in {"syncPassword", "recordHash"} =>
            hs'[h].op = "password",
         \A g \in Handlers \ {h} : hs'[g] = hs[g],
         Undisturbed => AccessInStep(h)'
  PROVE  Inv'
<1>1. ASSUME ~env.concurrent
      PROVE  cache' \in {NoRecord, disk'} /\ HandlerSound(h)'
  BY <1>1, Standing DEF HandlerSound
<1>2. (env.concurrent /\ ~env.restart /\ ~env.reboot) =>
         cache' = disk' /\ NeverFills(h)'
  BY Standing DEF NeverFills
<1>3. hs'[h] # Idle
  BY DEF Idle
<1>4. QED
  BY <1>1, <1>2, <1>3, HandlerKeeps

LEMMA PasswordsAreTyped == Inv => env.passwords \subseteq Passwords
  BY ConstantsAssumption DEF ConstantsAssumption, Inv, RecordInv, TypeOK, EnvType

(* A handler that goes on to the system account.                           *)
LEMMA BeginningKeeps ==
  ASSUME Inv, NEW h \in Handlers,
         NEW pc \in {"syncPassword", "changePassword", "sshEnable", "sshDisable",
                    "resetDisable", "reset"},
         hs[h].pc = "admitted", cache # NoRecord,
         disk' = disk, cache' = cache, sys' = sys, env' = env,
         hs' \in [Handlers -> HandlerType], hs'[h].pc = pc, RequestTyped(h)',
         \A g \in Handlers \ {h} : hs'[g] = hs[g],
         pc = "syncPassword" => cache.ssh /\ hs'[h].op = "password",
         pc = "reset" => ~cache.ssh
  PROVE  Inv'
<1>1. TypeOK'
  BY Standing DEF TypeOK
<1>2. ASSUME Undisturbed PROVE AccessInStep(h)'
  <2>1. sys = SyncSSHAccess(disk) /\ cache = disk
    BY <1>2, Standing DEF AccessInStep
  <2>2. sys' = SyncSSHAccess(disk)'
    BY <2>1 DEF SyncSSHAccess
  <2>3. ~cache.ssh => sys = SSHOff
    BY <2>1 DEF SyncSSHAccess
  <2>4. SSHOff' = SSHOff
    BY DEF SSHOff
  <2>5. QED
    BY <2>1, <2>2, <2>3, <2>4 DEF AccessInStep
<1>3. QED
  BY <1>1, <1>2, MovesKeep

LEMMA ChangePasswordBeginKeeps ==
  ASSUME Inv, NEW h \in Handlers, NEW old \in env.passwords, NEW new \in env.passwords,
         HandleChangePassword(h, old, new)
  PROVE  Inv'
<1> DEFINE pc == IF cache.ssh THEN "syncPassword" ELSE "changePassword"
<1> DEFINE answer == [hs[h] EXCEPT !.pc = pc, !.op = "password", !.old = old, !.new = new]
<1>1. hs' = [hs EXCEPT ![h] = answer]
  BY Standing DEF HandleChangePassword, TypeOK
<1>2. /\ pc \in {"syncPassword", "changePassword"} /\ pc \in PCs
      /\ pc = "syncPassword" => cache.ssh
  BY DEF PCs
<1>3. old \in MaybePassword /\ new \in MaybePassword
  BY PasswordsAreTyped DEF MaybePassword
<1> HIDE DEF pc
<1>4. /\ answer \in HandlerType /\ answer.pc = pc /\ answer.op = "password"
      /\ answer.then = hs[h].then /\ answer.new \in Passwords
  BY <1>2, <1>3, PasswordsAreTyped, Standing DEF HandlerType, Ops
<1> HIDE DEF answer
<1>5. /\ hs' \in [Handlers -> HandlerType] /\ hs'[h] = answer /\ RequestTyped(h)'
      /\ \A g \in Handlers \ {h} : hs'[g] = hs[g]
  BY <1>1, <1>4, Standing, OneChanges DEF RequestTyped
<1>6. /\ hs[h].pc = "admitted" /\ cache # NoRecord
      /\ disk' = disk /\ cache' = cache /\ sys' = sys /\ env' = env
  BY DEF HandleChangePassword, Loaded
<1>7. QED
  BY <1>2, <1>4, <1>5, <1>6, BeginningKeeps

LEMMA SSHEnableBeginKeeps ==
  ASSUME Inv, NEW h \in Handlers, HandleSSHEnable(h) PROVE Inv'
<1> DEFINE answer == [hs[h] EXCEPT !.pc = "sshEnable", !.op = "ssh", !.new = cache.pwd]
<1>1. hs' = [hs EXCEPT ![h] = answer]
  BY Standing DEF HandleSSHEnable, TypeOK
<1>2. cache.pwd \in Passwords
  BY Standing DEF HandleSSHEnable, Loaded, MaybeRecord, Records
<1>3. /\ answer \in HandlerType /\ answer.pc = "sshEnable"
      /\ answer.then = hs[h].then /\ answer.new \in Passwords
  BY <1>2, Standing DEF HandlerType, Ops, PCs, MaybePassword
<1> HIDE DEF answer
<1>4. /\ hs' \in [Handlers -> HandlerType] /\ hs'[h] = answer /\ RequestTyped(h)'
      /\ \A g \in Handlers \ {h} : hs'[g] = hs[g]
  BY <1>1, <1>3, Standing, OneChanges DEF RequestTyped
<1>5. /\ hs[h].pc = "admitted" /\ cache # NoRecord
      /\ disk' = disk /\ cache' = cache /\ sys' = sys /\ env' = env
  BY DEF HandleSSHEnable, Loaded
<1>6. QED
  BY <1>3, <1>4, <1>5, BeginningKeeps

LEMMA SSHDisableBeginKeeps ==
  ASSUME Inv, NEW h \in Handlers, HandleSSHDisable(h) PROVE Inv'
<1> DEFINE answer == [hs[h] EXCEPT !.pc = "sshDisable", !.op = "ssh"]
<1>1. hs' = [hs EXCEPT ![h] = answer]
  BY Standing DEF HandleSSHDisable, TypeOK
<1>2. /\ answer \in HandlerType /\ answer.pc = "sshDisable"
      /\ answer.then = hs[h].then /\ answer.new = hs[h].new
  BY Standing DEF HandlerType, Ops, PCs
<1> HIDE DEF answer
<1>3. /\ hs' \in [Handlers -> HandlerType] /\ hs'[h] = answer /\ RequestTyped(h)'
      /\ \A g \in Handlers \ {h} : hs'[g] = hs[g]
  BY <1>1, <1>2, Standing, OneChanges DEF RequestTyped
<1>4. /\ hs[h].pc = "admitted" /\ cache # NoRecord
      /\ disk' = disk /\ cache' = cache /\ sys' = sys /\ env' = env
  BY DEF HandleSSHDisable, Loaded
<1>5. QED
  BY <1>2, <1>3, <1>4, BeginningKeeps

LEMMA ResetBeginKeeps == ASSUME Inv, NEW h \in Handlers, HandleReset(h) PROVE Inv'
<1> DEFINE pc == IF cache.ssh THEN "resetDisable" ELSE "reset"
<1> DEFINE answer == [hs[h] EXCEPT !.pc = pc, !.op = "reset"]
<1>1. hs' = [hs EXCEPT ![h] = answer]
  BY Standing DEF HandleReset, TypeOK
<1>2. /\ pc \in {"resetDisable", "reset"} /\ pc \in PCs
      /\ pc = "reset" => ~cache.ssh
  BY DEF PCs
<1> HIDE DEF pc
<1>3. /\ answer \in HandlerType /\ answer.pc = pc
      /\ answer.then = hs[h].then /\ answer.new = hs[h].new
  BY <1>2, Standing DEF HandlerType, Ops
<1> HIDE DEF answer
<1>4. /\ hs' \in [Handlers -> HandlerType] /\ hs'[h] = answer /\ RequestTyped(h)'
      /\ \A g \in Handlers \ {h} : hs'[g] = hs[g]
  BY <1>1, <1>2, <1>3, Standing, OneChanges DEF RequestTyped
<1>5. /\ hs[h].pc = "admitted" /\ cache # NoRecord
      /\ disk' = disk /\ cache' = cache /\ sys' = sys /\ env' = env
  BY DEF HandleReset, Loaded
<1>6. QED
  BY <1>2, <1>3, <1>4, <1>5, BeginningKeeps

(* The steps that change the system account.                               *)
LEMMA SystemStepsKeep ==
  ASSUME Inv, NEW h \in Handlers, SyncPassword(h) \/ EnableSSH(h) \/ DisableSSH(h)
  PROVE  Inv'
<1>0. /\ disk' = disk /\ cache' = cache /\ env' = env
      /\ hs[h] \in HandlerType /\ sys \in [conf : BOOLEAN, pwd : MaybePassword]
  BY Standing DEF SyncPassword, EnableSSH, DisableSSH, TypeOK
<1>1. PICK pc \in {"recordHash", "sshRecordOn", "sshRecordOff", "reset"} :
        /\ Goto(h, pc)
        /\ \/ SyncPassword(h) /\ hs[h].pc = "syncPassword" /\ pc = "recordHash"
           \/ EnableSSH(h) /\ hs[h].pc = "sshEnable" /\ pc = "sshRecordOn"
           \/ /\ DisableSSH(h) /\ hs[h].pc \in {"sshDisable", "resetDisable"}
              /\ pc \in {"sshRecordOff", "reset"}
  <2>1. CASE SyncPassword(h) \/ EnableSSH(h)
    BY <2>1 DEF SyncPassword, EnableSSH
  <2>2. CASE DisableSSH(h)
    BY <2>2 DEF DisableSSH
  <2>3. QED
    BY <2>1, <2>2
<1>2. /\ hs' \in [Handlers -> HandlerType]
      /\ hs'[h].pc = pc /\ hs'[h].then = hs[h].then /\ hs'[h].new = hs[h].new
      /\ hs'[h].op = hs[h].op
      /\ \A g \in Handlers \ {h} : hs'[g] = hs[g]
  <2>1. pc \in PCs
    BY DEF PCs
  <2>2. QED
    BY <1>1, <2>1, Standing, GotoMoves
<1>3. sys' \in [conf : BOOLEAN, pwd : MaybePassword]
  <2>1. hs[h].new \in MaybePassword
    BY <1>0 DEF HandlerType
  <2>2. CASE SyncPassword(h)
    BY <1>0, <2>1, <2>2 DEF SyncPassword
  <2>3. CASE EnableSSH(h)
    BY <2>1, <2>3 DEF EnableSSH
  <2>4. CASE DisableSSH(h)
    BY <2>4 DEF DisableSSH, SSHOff, MaybePassword
  <2>5. QED
    BY <2>2, <2>3, <2>4
<1>4. TypeOK' /\ RequestTyped(h)'
  BY <1>0, <1>1, <1>2, <1>3, Standing DEF TypeOK, RequestTyped
<1>5. ASSUME Undisturbed PROVE AccessInStep(h)'
  <2>1. cache = disk /\ disk # NoRecord
    BY <1>1, <1>5, Standing DEF HandlerSound
  <2>2. CASE SyncPassword(h) /\ hs[h].pc = "syncPassword" /\ pc = "recordHash"
    <3>1. disk.ssh /\ sys = SyncSSHAccess(disk)
      BY <1>5, <2>2, Standing DEF AccessInStep, SyncPassword
    <3>2. sys' = [conf |-> TRUE, pwd |-> hs[h].new]
      BY <2>1, <2>2, <3>1 DEF SyncPassword, SyncSSHAccess
    <3>3. QED
      BY <1>0, <1>2, <2>2, <3>1, <3>2 DEF AccessInStep
  <2>3. CASE EnableSSH(h) /\ pc = "sshRecordOn"
    <3>1. sys' = [conf |-> TRUE, pwd |-> hs[h].new]
      BY <2>3 DEF EnableSSH
    <3>2. QED
      BY <1>2, <2>3, <3>1 DEF AccessInStep
  <2>4. CASE DisableSSH(h) /\ pc \in {"sshRecordOff", "reset"}
    <3>1. sys' = SSHOff
      BY <2>4 DEF DisableSSH
    <3>2. QED
      BY <1>2, <2>4, <3>1 DEF AccessInStep, SSHOff
  <2>5. QED
    BY <1>1, <2>2, <2>3, <2>4
<1>6. ~env.concurrent /\ pc = "recordHash" => hs[h].op = "password"
  BY <1>1, Standing DEF HandlerSound
<1>7. QED
  BY <1>0, <1>1, <1>2, <1>4, <1>5, <1>6, MovesKeep

(* A system command fails halfway: not in an undisturbed environment.      *)
LEMMA CommandFailsKeeps ==
  ASSUME Inv, NEW h \in Handlers, SystemCommandFails(h) PROVE Inv'
<1>1. /\ hs[h].pc # "idle" /\ Answer(h) /\ ~Undisturbed
      /\ disk' = disk /\ cache' = cache /\ env' = env
  BY DEF SystemCommandFails, Undisturbed
<1>2. hs[h].new \in MaybePassword /\ sys \in [conf : BOOLEAN, pwd : MaybePassword]
  BY Standing DEF TypeOK, HandlerType
<1>3. /\ {sys.conf, sys.conf \/ hs[h].pc = "sshEnable"} \subseteq BOOLEAN
      /\ {sys.conf, FALSE} \subseteq BOOLEAN
      /\ {sys.pwd, hs[h].new} \subseteq MaybePassword
      /\ {sys.pwd, NoPassword} \subseteq MaybePassword
  BY <1>2 DEF MaybePassword
<1>4. \A C \in SUBSET BOOLEAN, P \in SUBSET MaybePassword :
        [conf : C, pwd : P] \subseteq [conf : BOOLEAN, pwd : MaybePassword]
  OBVIOUS
<1>5. sys' \in [conf : BOOLEAN, pwd : MaybePassword]
  BY <1>3, <1>4 DEF SystemCommandFails
<1>6. QED
  BY <1>1, <1>5, Standing, AnswerKeeps

(* The hash is recorded for the password the system already has.           *)
LEMMA RecordHashKeeps ==
  ASSUME Inv, NEW h \in Handlers, SetSSHPasswordHash(h) PROVE Inv'
<1>0. /\ disk' = disk /\ cache' = cache /\ sys' = sys /\ env' = env
      /\ hs[h].pc = "recordHash" /\ hs[h] \in HandlerType
      /\ cache # NoRecord /\ cache \in Records
  BY Standing DEF SetSSHPasswordHash, Loaded, MaybeRecord
<1> DEFINE record == [cache EXCEPT !.sshpwd = hs[h].new]
<1> DEFINE answer == [hs[h] EXCEPT !.pc = "save", !.then = "changePassword",
                                   !.copy = record]
<1>1. /\ record \in Records /\ record.key = cache.key /\ record.key \in Nat
      /\ record.managed = cache.managed /\ record.ui = cache.ui
      /\ record.ssh = cache.ssh /\ record.sshpwd = hs[h].new
  BY <1>0, ConstantsAssumption DEF Records, HandlerType, ConstantsAssumption
<1>2. hs' = [hs EXCEPT ![h] = answer]
  BY Standing DEF SetSSHPasswordHash, TypeOK
<1> HIDE DEF record
<1>3. /\ answer \in HandlerType /\ answer.pc = "save" /\ answer.op = hs[h].op
      /\ answer.then = "changePassword" /\ answer.copy = record
      /\ answer.new = hs[h].new
  BY <1>0, <1>1 DEF HandlerType, PCs, MaybeRecord
<1> HIDE DEF answer
<1>4. /\ hs' \in [Handlers -> HandlerType] /\ hs'[h] = answer
      /\ \A g \in Handlers \ {h} : hs'[g] = hs[g]
  BY <1>2, <1>3, Standing, OneChanges
<1>5. TypeOK' /\ RequestTyped(h)'
  BY <1>0, <1>3, <1>4, Standing DEF TypeOK, RequestTyped
<1>6. ASSUME ~env.concurrent
      PROVE  cache' \in {NoRecord, disk'} /\ HandlerSound(h)'
  <2>1. cache = disk /\ hs[h].op = "password"
    BY <1>0, <1>6, Standing DEF HandlerSound
  <2>2. SavesSoundly(h)'
    BY <1>0, <1>1, <1>3, <1>4, <2>1, NoRecordIsNone DEF SavesSoundly
  <2>3. QED
    BY <1>0, <1>3, <1>4, <2>1, <2>2 DEF HandlerSound
<1>7. (env.concurrent /\ ~env.restart /\ ~env.reboot) =>
         cache' = disk' /\ NeverFills(h)'
  BY <1>0, <1>3, <1>4, Standing DEF NeverFills
<1>8. ASSUME Undisturbed PROVE AccessInStep(h)' /\ hs'[h] # Idle
  <2>1. cache.ssh /\ sys = [conf |-> TRUE, pwd |-> hs[h].new]
    BY <1>0, <1>8, Standing DEF AccessInStep
  <2>2. sys' = SyncSSHAccess(hs[h].copy)'
    BY <1>0, <1>1, <1>3, <1>4, <2>1, NoRecordIsNone DEF SyncSSHAccess
  <2>3. QED
    BY <1>3, <1>4, <2>2 DEF AccessInStep, Idle
<1>9. QED
  BY <1>0, <1>4, <1>5, <1>6, <1>7, <1>8, HandlerKeeps

(* The records of the SSH switch follow the system account; the password   *)
(* is compared with the cached one.                                        *)
LEMMA AccountRecordsKeep ==
  ASSUME Inv, NEW h \in Handlers,
         SetSSHEnabledOn(h) \/ SetSSHEnabledOff(h) \/ ChangePassword(h)
  PROVE  Inv'
<1>1. /\ hs[h].pc \notin {"idle", "fill", "save"} /\ cache # NoRecord /\ cache \in Records
      /\ UNCHANGED <<disk, cache, sys, env>> /\ hs[h] \in HandlerType
  BY Standing DEF SetSSHEnabledOn, SetSSHEnabledOff, ChangePassword, Loaded, MaybeRecord
<1>2. cache.key \in Nat /\ cache.key >= cache.key
  BY <1>1, ConstantsAssumption DEF Records, ConstantsAssumption
<1>3. CASE SetSSHEnabledOn(h)
  <2> DEFINE record == [cache EXCEPT !.ssh = TRUE, !.sshpwd = hs[h].new]
  <2>1. /\ record \in Records /\ record.key = cache.key
        /\ record.managed = cache.managed /\ record.ui = cache.ui
        /\ record.ssh = TRUE /\ record.sshpwd = hs[h].new
    BY <1>1 DEF Records, HandlerType
  <2>2. Prepare(h, "ssh", record) /\ hs[h].pc = "sshRecordOn"
    BY <1>3 DEF SetSSHEnabledOn, Loaded
  <2> HIDE DEF record
  <2>3. Undisturbed => sys = SyncSSHAccess(record)
    BY <2>1, <2>2, Standing, NoRecordIsNone DEF AccessInStep, SyncSSHAccess
  <2>4. QED
    BY <1>1, <1>2, <2>1, <2>2, <2>3, PrepareKeeps DEF Ops
<1>4. CASE SetSSHEnabledOff(h)
  <2> DEFINE record == [cache EXCEPT !.ssh = FALSE, !.sshpwd = NoPassword]
  <2>1. /\ record \in Records /\ record.key = cache.key
        /\ record.managed = cache.managed /\ record.ui = cache.ui
        /\ record.ssh = FALSE
    BY <1>1 DEF Records, MaybePassword
  <2>2. Prepare(h, "ssh", record) /\ hs[h].pc = "sshRecordOff"
    BY <1>4 DEF SetSSHEnabledOff, Loaded
  <2> HIDE DEF record
  <2>3. Undisturbed => sys = SyncSSHAccess(record)
    BY <2>1, <2>2, Standing, NoRecordIsNone DEF AccessInStep, SyncSSHAccess
  <2>4. QED
    BY <1>1, <1>2, <2>1, <2>2, <2>3, PrepareKeeps DEF Ops
<1>5. CASE ChangePassword(h)
  <2>1. /\ hs[h].pc = "changePassword"
        /\ Undisturbed => sys = SyncSSHAccess(cache) /\ cache = disk
    BY <1>1, <1>5, Standing DEF ChangePassword, Loaded, AccessInStep
  <2>2. CASE hs[h].old = cache.pwd
    <3> DEFINE record == [cache EXCEPT !.pwd = hs[h].new]
    <3>1. Prepare(h, "password", record)
      BY <1>5, <2>2 DEF ChangePassword
    <3>2. /\ record \in Records /\ record.key = cache.key
          /\ record.managed = cache.managed /\ record.ui = cache.ui
          /\ record.ssh = cache.ssh /\ record.sshpwd = cache.sshpwd
      BY <1>1, <2>1, Standing DEF Records, RequestTyped
    <3> HIDE DEF record
    <3>3. SyncSSHAccess(record) = SyncSSHAccess(cache)
      BY <1>1, <3>2, NoRecordIsNone DEF SyncSSHAccess
    <3>4. QED
      BY <1>1, <1>2, <2>1, <3>1, <3>2, <3>3, PrepareKeeps DEF Ops
  <2>3. CASE hs[h].old # cache.pwd
    <3>1. Answer(h)
      BY <1>5, <2>3 DEF ChangePassword
    <3>2. sys \in [conf : BOOLEAN, pwd : MaybePassword]
      BY Standing DEF TypeOK
    <3>3. QED
      BY <1>1, <2>1, <3>1, <3>2, Standing, AnswerKeeps
  <2>4. QED
    BY <2>2, <2>3
<1>6. QED
  BY <1>3, <1>4, <1>5

(* The file goes with the cache, or the cache alone when it cannot.        *)
LEMMA ResetKeeps ==
  ASSUME Inv, NEW h \in Handlers, Reset(h) \/ ResetFails(h) PROVE Inv'
<1>1. /\ hs[h].pc = "reset" /\ Answer(h) /\ cache' = NoRecord
      /\ sys' = sys /\ env' = env
      /\ disk' = NoRecord \/ (disk' = disk /\ env.fail)
  BY DEF Reset, ResetFails
<1>2. sys \in [conf : BOOLEAN, pwd : MaybePassword] /\ disk' \in MaybeRecord
  BY <1>1, Standing DEF TypeOK, MaybeRecord
<1>3. env.fail => ~env.concurrent
  BY ConstantsAssumption DEF ConstantsAssumption, Inv, RecordInv, TypeOK
<1>4. ASSUME Undisturbed PROVE sys' = SyncSSHAccess(disk')
  <2>1. disk' = NoRecord /\ sys = SSHOff
    BY <1>1, <1>4, Standing DEF AccessInStep, Undisturbed
  <2>2. QED
    BY <1>1, <2>1 DEF SyncSSHAccess
<1>5. QED
  BY <1>1, <1>2, <1>3, <1>4, AnswerKeeps

(* The agent comes back without its cache, the node also without the       *)
(* account, which is then made from the record.                            *)
LEMMA RestartKeeps == ASSUME Inv, AgentRestart \/ Reboot PROVE Inv'
<1>1. /\ disk' = disk /\ cache' = NoRecord /\ env' = env
      /\ \A h \in Handlers : hs'[h] = Idle
      /\ hs' \in [Handlers -> HandlerType]
      /\ env.restart \/ (env.reboot /\ sys' = SyncSSHAccess(disk))
  BY IdleType DEF AgentRestart, Reboot
<1>2. Idle.pc = "idle" /\ Idle.then = "idle"
  BY DEF Idle
<1>3. sys' \in [conf : BOOLEAN, pwd : MaybePassword]
  <2>1. /\ sys \in [conf : BOOLEAN, pwd : MaybePassword]
        /\ disk # NoRecord => disk.sshpwd \in MaybePassword
    BY DEF Inv, RecordInv, TypeOK, MaybeRecord, Records
  <2>2. SyncSSHAccess(disk) \in [conf : BOOLEAN, pwd : MaybePassword]
    BY <2>1 DEF SyncSSHAccess, SSHOff, MaybePassword
  <2>3. QED
    BY <2>1, <2>2 DEF AgentRestart, Reboot
<1>4. TypeOK'
  BY <1>1, <1>3 DEF Inv, RecordInv, TypeOK, MaybeRecord
<1>5. \A h \in Handlers : RequestTyped(h)'
  BY <1>1, <1>2 DEF RequestTyped
<1>6. SerialInv'
  BY <1>1, <1>2 DEF SerialInv, HandlerSound, Idle
<1>7. RecordInv'
  BY <1>1, <1>4, <1>5, <1>6 DEF RecordInv
<1>8. ASSUME Undisturbed PROVE sys' = SyncSSHAccess(disk)'
  BY <1>1, <1>8 DEF Undisturbed, SyncSSHAccess, SSHOff
<1>9. \A h \in Handlers : AccessInStep(h)'
  BY <1>1, <1>2 DEF AccessInStep
<1>10. AccessInv'
  BY <1>1, <1>8, <1>9 DEF AccessInv, Undisturbed
<1>11. QED
  BY <1>7, <1>10 DEF Inv

LEMMA InitInv == Init => Inv
<1> SUFFICES ASSUME Init PROVE Inv
  OBVIOUS
<1>1. Idle.pc = "idle" /\ Idle.then = "idle" /\ \A h \in Handlers : hs[h] = Idle
  BY DEF Idle, Init
<1>2. \A h \in Handlers : RequestTyped(h) /\ NeverFills(h)
  BY <1>1 DEF RequestTyped, NeverFills
<1>3. SerialInv
  BY <1>1 DEF Init, SerialInv, HandlerSound, Idle
<1>4. RecordInv
  BY <1>2, <1>3, InitTypeOK DEF Init, RecordInv, OverlapInv
<1>5. \A h \in Handlers : AccessInStep(h)
  BY <1>1 DEF AccessInStep
<1>6. sys = SyncSSHAccess(disk)
  BY DEF Init, SyncSSHAccess
<1>7. QED
  BY <1>4, <1>5, <1>6 DEF Inv, AccessInv

LEMMA UnchangedKeeps == ASSUME Inv, UNCHANGED vars PROVE Inv'
<1>1. disk' = disk /\ cache' = cache /\ sys' = sys /\ hs' = hs /\ env' = env
  BY DEF vars
<1>2. RecordInv'
  BY <1>1 DEF Inv, RecordInv, TypeOK, RequestTyped, SerialInv, HandlerSound,
              SavesSoundly, OverlapInv, NeverFills, Idle
<1>3. AccessInv'
  BY <1>1 DEF Inv, AccessInv, AccessInStep, AllIdle, Undisturbed, SyncSSHAccess,
              SSHOff, Idle
<1>4. QED
  BY <1>2, <1>3 DEF Inv

LEMMA StepInv == Inv /\ [Next]_vars => Inv'
<1> SUFFICES ASSUME Inv, [Next]_vars PROVE Inv'
  OBVIOUS
<1>1. ASSUME NEW h \in Handlers, HandlerStep(h) PROVE Inv'
  <2>1. CASE Admit(h) \/ FillCache(h) \/ LoadFails(h) \/ Refused(h)
    BY <2>1, AdmitKeeps, FillKeeps, RefusalsKeep
  <2>2. CASE SaveLocked(h) \/ SaveFails(h)
    BY <2>2, SaveKeeps, RefusalsKeep
  <2>3. CASE \/ RegenerateAPIKey(h)
             \/ \E b \in BOOLEAN : SetUIEnabled(h, b) \/ SetAPIDocsEnabled(h, b)
             \/ \E m, b \in BOOLEAN : ApplyControllerUIPolicy(h, m, b)
    BY <2>3, SettersKeep
  <2>4. CASE \/ HandleSSHEnable(h) \/ HandleSSHDisable(h) \/ HandleReset(h)
             \/ \E old, new \in env.passwords : HandleChangePassword(h, old, new)
    BY <2>4, SSHEnableBeginKeeps, SSHDisableBeginKeeps, ResetBeginKeeps,
       ChangePasswordBeginKeeps
  <2>5. CASE EnableSSH(h) \/ DisableSSH(h) \/ SyncPassword(h) \/ SystemCommandFails(h)
    BY <2>5, SystemStepsKeep, CommandFailsKeeps
  <2>6. CASE \/ SetSSHEnabledOn(h) \/ SetSSHEnabledOff(h) \/ ChangePassword(h)
             \/ SetSSHPasswordHash(h)
    BY <2>6, AccountRecordsKeep, RecordHashKeeps
  <2>7. CASE Reset(h) \/ ResetFails(h) \/ \E p \in env.passwords : Bootstrap(h, p)
    BY <2>7, ResetKeeps, BootstrapKeeps
  <2>8. QED
    BY <1>1, <2>1, <2>2, <2>3, <2>4, <2>5, <2>6, <2>7 DEF HandlerStep
<1>2. QED
  BY <1>1, RestartKeeps, UnchangedKeeps DEF Next

LEMMA Invariant == Spec => []Inv
BY InitInv, StepInv, PTL DEF Spec

-----------------------------------------------------------------------------
(* Whatever strikes, and whether requests overlap or not, the settings,    *)
(* the files and the half-done requests keep their types.                  *)
THEOREM TypeCorrect == Spec => []TypeOK
<1>1. Inv => TypeOK
  BY DEF Inv, RecordInv
<1>2. QED
  BY <1>1, Invariant, PTL

(* The node acts on a record that a restart brings back, except while      *)
(* overlapping requests reload it.                                         *)
THEOREM CacheIsStored == Spec => []EffectiveIsStored
<1>1. Inv => EffectiveIsStored
  BY DEF Inv, RecordInv, SerialInv, OverlapInv, EffectiveIsStored
<1>2. QED
  BY <1>1, Invariant, PTL

(* Through every interleaving of reboots with the steps of its handlers,   *)
(* the SSH access the system grants is the one on record.                  *)
THEOREM AccessIsRecorded == Spec => []SSHMatchesRecord
<1>1. Inv => SSHMatchesRecord
  BY DEF Inv, AccessInv, SSHMatchesRecord, Undisturbed
<1>2. QED
  BY <1>1, Invariant, PTL

(* The file changes only where a handler saves its copy or resets it.      *)
LEMMA OnlySavesWrite ==
  ASSUME Inv, [Next]_vars, disk' # disk
  PROVE  \/ disk' = NoRecord
         \/ \E h \in Handlers : hs[h].pc = "save" /\ disk' = hs[h].copy
<1>1. CASE UNCHANGED vars \/ AgentRestart \/ Reboot
  BY <1>1 DEF vars, AgentRestart, Reboot
<1>2. ASSUME NEW h \in Handlers, HandlerStep(h)
      PROVE  disk' = NoRecord \/ (hs[h].pc = "save" /\ disk' = hs[h].copy)
  <2>1. CASE SaveLocked(h) \/ Reset(h)
    BY <2>1 DEF SaveLocked, Reset
  <2>2. CASE Admit(h) \/ FillCache(h) \/ LoadFails(h) \/ Refused(h) \/ SaveFails(h)
             \/ ResetFails(h)
    BY <2>2 DEF Admit, FillCache, LoadFails, Refused, SaveFails, ResetFails
  <2>3. CASE \/ RegenerateAPIKey(h)
             \/ \E b \in BOOLEAN : SetUIEnabled(h, b) \/ SetAPIDocsEnabled(h, b)
             \/ \E m, b \in BOOLEAN : ApplyControllerUIPolicy(h, m, b)
             \/ \E p \in env.passwords : Bootstrap(h, p)
    BY <2>3 DEF RegenerateAPIKey, SetUIEnabled, SetAPIDocsEnabled,
                ApplyControllerUIPolicy, Bootstrap
  <2>4. CASE \/ HandleSSHEnable(h) \/ HandleSSHDisable(h) \/ HandleReset(h)
             \/ \E old, new \in env.passwords : HandleChangePassword(h, old, new)
    BY <2>4 DEF HandleSSHEnable, HandleSSHDisable, HandleReset, HandleChangePassword
  <2>5. CASE EnableSSH(h) \/ DisableSSH(h) \/ SyncPassword(h) \/ SystemCommandFails(h)
    BY <2>5 DEF EnableSSH, DisableSSH, SyncPassword, SystemCommandFails
  <2>6. CASE \/ SetSSHEnabledOn(h) \/ SetSSHEnabledOff(h) \/ ChangePassword(h)
             \/ SetSSHPasswordHash(h)
    BY <2>6 DEF SetSSHEnabledOn, SetSSHEnabledOff, ChangePassword, SetSSHPasswordHash
  <2>7. QED
    BY <1>2, <2>1, <2>2, <2>3, <2>4, <2>5, <2>6 DEF HandlerStep
<1>3. QED
  BY <1>1, <1>2 DEF Next

(* What such a save writes, when requests do not overlap.                  *)
LEMMA SoundWrite ==
  ASSUME Inv, [Next]_vars, ~env.concurrent, disk' # disk, disk' # NoRecord
  PROVE  \E h \in Handlers : /\ hs[h].pc = "save" /\ disk' = hs[h].copy
                            /\ SavesSoundly(h)
<1>1. PICK h \in Handlers : hs[h].pc = "save" /\ disk' = hs[h].copy
  BY OnlySavesWrite
<1>2. SavesSoundly(h)
  BY <1>1, Standing DEF HandlerSound
<1>3. QED
  BY <1>1, <1>2

(* A handler that was interrupted, failed or is late never writes an older *)
(* API key over a newer one, when requests do not overlap.                 *)
THEOREM KeyIsGone == Spec => SerialKeyNeverComesBack
<1>1. ASSUME Inv, [Next]_vars PROVE ~env.concurrent => KeepsKey
  <2> SUFFICES ASSUME ~env.concurrent, disk # NoRecord, disk' # NoRecord
               PROVE  disk'.key >= disk.key \/ \E h \in Handlers : Saves(h, "bootstrap")
    BY DEF KeepsKey
  <2>1. CASE disk' = disk
    BY <1>1, <2>1, ConstantsAssumption
    DEF Inv, RecordInv, TypeOK, MaybeRecord, Records, ConstantsAssumption
  <2>2. CASE disk' # disk
    <3>1. PICK h \in Handlers : /\ hs[h].pc = "save" /\ disk' = hs[h].copy
                                /\ SavesSoundly(h)
      BY <1>1, <2>2, SoundWrite
    <3>2. QED
      BY <3>1 DEF SavesSoundly, Saves
  <2>3. QED
    BY <2>1, <2>2
<1>2. Inv /\ [Next]_vars => [~env.concurrent => KeepsKey]_vars
  BY <1>1
<1>3. QED
  BY <1>2, Invariant, PTL DEF Spec, SerialKeyNeverComesBack

(* Nothing but the controller's policy handler, or a new bootstrap, takes  *)
(* the local UI toggle out of the controller's hands.                      *)
THEOREM PolicyIsTheControllers == Spec => ManagedLocksToggle
<1> DEFINE Locked ==
      (/\ ~env.concurrent
       /\ disk # NoRecord /\ disk' # NoRecord
       /\ disk.managed /\ (~disk'.managed \/ disk'.ui # disk.ui))
        => \E h \in Handlers : Saves(h, "policy") \/ Saves(h, "bootstrap")
<1>1. ASSUME Inv, [Next]_vars PROVE Locked
  <2> SUFFICES ASSUME ~env.concurrent, disk # NoRecord, disk' # NoRecord,
                      disk.managed, ~disk'.managed \/ disk'.ui # disk.ui
               PROVE  \E h \in Handlers : Saves(h, "policy") \/ Saves(h, "bootstrap")
    OBVIOUS
  <2>1. PICK h \in Handlers : /\ hs[h].pc = "save" /\ disk' = hs[h].copy
                              /\ SavesSoundly(h)
    BY <1>1, SoundWrite
  <2>2. QED
    BY <2>1 DEF SavesSoundly, Saves
<1>2. Inv /\ [Next]_vars => [Locked]_vars
  BY <1>1
<1>3. QED
  BY <1>2, Invariant, PTL DEF Spec, ManagedLocksToggle

(* A record that was reset does not come back from a copy.                 *)
THEOREM ResetIsFinal == Spec => ResetSticks
<1> DEFINE Created ==
      (~env.concurrent /\ disk = NoRecord /\ disk' # NoRecord) =>
         \E h \in Handlers : Saves(h, "bootstrap")
<1>1. ASSUME Inv, [Next]_vars PROVE Created
  <2> SUFFICES ASSUME ~env.concurrent, disk = NoRecord, disk' # NoRecord
               PROVE  \E h \in Handlers : Saves(h, "bootstrap")
    OBVIOUS
  <2>1. PICK h \in Handlers : /\ hs[h].pc = "save" /\ disk' = hs[h].copy
                              /\ SavesSoundly(h)
    BY <1>1, SoundWrite
  <2>2. QED
    BY <2>1 DEF SavesSoundly, Saves
<1>2. Inv /\ [Next]_vars => [Created]_vars
  BY <1>1
<1>3. QED
  BY <1>2, Invariant, PTL DEF Spec, ResetSticks
=============================================================================
