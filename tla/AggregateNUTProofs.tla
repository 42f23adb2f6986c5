------------------------- MODULE AggregateNUTProofs -------------------------
(***************************************************************************)
(* Proofs about AggregateNUT, for every set of requests and of addresses,  *)
(* with faults at every step, when settings requests do not overlap: with  *)
(* two of them in flight only the type invariant holds.                    *)
(***************************************************************************)
EXTENDS AggregateNUT, TLAPS

(* At most one settings request is between its start and its end.          *)
OneInFlight ==
    \A q, r \in Requests :
        req[q].pc \in InFlight /\ req[r].pc \in InFlight => q = r

(* A goroutine holds a listener only between the two halves of stop.       *)
HeldWhileClosing ==
    /\ \A r \in Requests : req[r].pc # "close" => req[r].held = None
    /\ \A id \in Listeners : watcher[id].pc # "closing" => watcher[id].held = None

(* From stop to publish the manager has no listener.                       *)
DetachedUntilPublish ==
    \A r \in Requests :
        req[r].pc \in {"close", "set", "publish"} => mgr.ln = None

(* A listener some request may still open.                                 *)
BeforePublish == {"idle", "check", "detach", "close", "set", "publish"}
Upcoming(id) ==
    \E r \in Requests :
        \/ id = <<r, "rollback">> /\ req[r].phase = "apply"
        \/ id = ListenerOf(r) /\ req[r].pc \in BeforePublish

(* No watcher waits for it or holds it, and it is not the manager's.       *)
UpcomingIsUnknown ==
    \A id \in Listeners :
        Upcoming(id) =>
            /\ watcher[id].pc = "none"
            /\ mgr.ln # id
            /\ \A w \in Listeners : watcher[w].held # id

(* Nobody is about to close the manager's listener.                        *)
PublishedIsNotHeld ==
    mgr.ln # None => \A w \in Listeners : watcher[w].held # mgr.ln

(* The manager's socket, and the one about to become it, listen where the  *)
(* manager says they do.                                                   *)
SocketWhereClaimed ==
    /\ mgr.ln # None => open[mgr.ln] = mgr.listen
    /\ \A r \in Requests :
         req[r].pc = "publish" =>
            /\ open[ListenerOf(r)] = Target(r).listen
            /\ Target(r).enabled

(* Until it saves, what a request loaded is what is stored.                *)
LoadedIsStored ==
    \A r \in Requests :
        (req[r].pc \in InFlight \ {"respond"}) => req[r].current = db

Follows(s) == mgr.ln # None => s.enabled /\ mgr.listen = s.listen

(* A running listener is what is about to be saved, and else, unless a     *)
(* request is changing it, what is stored.                                 *)
ManagerFollows ==
    /\ \A r \in Requests : req[r].pc = "save" => Follows(req[r].next)
    /\ (\A r \in Requests : req[r].pc \in {"idle", "respond", "done"}) =>
         Follows(db)

(* The save follows an Apply of the new settings, never the rollback.      *)
SavesWhatItApplied ==
    \A r \in Requests : req[r].pc \in {"idle", "save"} => req[r].phase = "apply"

(* The inductive invariant of settings requests that do not overlap.       *)
SequentialInv ==
    /\ TypeOK
    /\ OneInFlight
    /\ FlagMatchesListener
    /\ HeldWhileClosing
    /\ DetachedUntilPublish
    /\ UpcomingIsUnknown
    /\ PublishedIsNotHeld
    /\ OpenIsOwned
    /\ SocketWhereClaimed
    /\ LoadedIsStored
    /\ SavesWhatItApplied
    /\ ManagerFollows

-----------------------------------------------------------------------------
PCs == InFlight \cup {"idle", "done"}

LEMMA ListenerTypes ==
  /\ Boot \in Listeners
  /\ None \notin Listeners
  /\ \A r \in Requests, p \in {"apply", "rollback"} :
        <<r, p>> \in Listeners /\ <<r, p>> # Boot
<1>1. None \notin (Requests \cup {MainCtx}) \X {"apply", "rollback"}
      /\ MainCtx \notin Requests
  BY ConstantsAssumption DEF ConstantsAssumption
<1>2. Boot \in (Requests \cup {MainCtx}) \X {"apply", "rollback"}
  BY DEF Boot
<1>3. QED
  BY <1>1, <1>2 DEF Listeners, Boot

LEMMA NoWatcherType == NoWatcher \in WatcherType
  BY DEF NoWatcher, WatcherType, MaybeListener

LEMMA FreshType ==
  ASSUME NEW s \in Settings
  PROVE  Fresh(s) \in ReqType /\ [Fresh(s) EXCEPT !.pc = "done"] \in ReqType
  BY DEF Fresh, ReqType, MaybeListener, InFlight

(* What Apply does at start-up is well typed, for every stored setting.    *)
LEMMA BootTypes ==
  ASSUME NEW s \in Settings
  PROVE  /\ BootMgr(s) \in MgrType
         /\ BootOpen(s) \in [Listeners -> Addrs \cup {NoAddr}]
         /\ BootWatcher(s) \in [Listeners -> WatcherType]
<1>1. BootMgr(s) \in MgrType
  BY ListenerTypes DEF BootMgr, MgrType, Settings, MaybeListener
<1>2. BootOpen(s) \in [Listeners -> Addrs \cup {NoAddr}]
  BY DEF BootOpen, Settings
<1>3. [NoWatcher EXCEPT !.pc = "waiting"] \in WatcherType
  BY DEF NoWatcher, WatcherType, MaybeListener
<1>4. QED
  BY <1>1, <1>2, <1>3, NoWatcherType DEF BootWatcher

LEMMA InitTypeOK == Init => TypeOK
<1> SUFFICES ASSUME Init PROVE TypeOK
  OBVIOUS
<1>1. db \in Settings
  BY ConstantsAssumption DEF Init, Settings, ConstantsAssumption
<1>2. QED
  BY <1>1, BootTypes, FreshType DEF Init, TypeOK

(* Moving a request's program counter touches nothing else of it.          *)
LEMMA GotoMoves ==
  ASSUME TypeOK, NEW r \in Requests, NEW pc \in PCs, Goto(r, pc)
  PROVE  /\ req' \in [Requests -> ReqType]
         /\ req'[r] = [req[r] EXCEPT !.pc = pc]
         /\ \A q \in Requests \ {r} : req'[q] = req[q]
<1>1. [req[r] EXCEPT !.pc = pc] \in ReqType
  BY DEF TypeOK, ReqType, PCs
<1>2. QED
  BY <1>1 DEF Goto, TypeOK

LEMMA TargetType ==
  ASSUME TypeOK, NEW r \in Requests
  PROVE  /\ Target(r) \in Settings
         /\ ListenerOf(r) \in Listeners
         /\ req[r].phase \in {"apply", "rollback"}
         /\ AppliedPC(r) \in {"save", "respond"}
  BY ListenerTypes DEF TypeOK, ReqType, Target, ListenerOf, AppliedPC

LEMMA DetachedType == TypeOK => Detached \in MgrType
  BY DEF TypeOK, MgrType, Detached, MaybeListener

LEMMA CloseTypes ==
  ASSUME TypeOK, NEW id \in MaybeListener, CloseListener(id)
  PROVE  /\ open' \in [Listeners -> Addrs \cup {NoAddr}]
         /\ stopped' \subseteq Listeners
  BY DEF TypeOK, CloseListener, MaybeListener

LEMMA RequestTypeOK ==
  ASSUME TypeOK, NEW r \in Requests, RequestStep(r)
  PROVE  TypeOK'
<1> USE DEF PCs, InFlight
<1>1. CASE ApplyCheck(r)
  <2>1. req' \in [Requests -> ReqType]
    BY <1>1, GotoMoves, TargetType DEF ApplyCheck
  <2>2. QED
    BY <1>1, <2>1 DEF ApplyCheck, TypeOK
<1>2. CASE ApplyDetach(r)
  <2> DEFINE answer == [req[r] EXCEPT !.held = mgr.ln, !.pc = "close"]
  <2>1. answer \in ReqType
    BY DEF TypeOK, ReqType, MgrType
  <2>2. req' = [req EXCEPT ![r] = answer]
    BY <1>2 DEF ApplyDetach, TypeOK
  <2> HIDE DEF answer
  <2>3. QED
    BY <1>2, <2>1, <2>2, DetachedType DEF ApplyDetach, TypeOK
<1>3. CASE ApplyClose(r)
  <2> DEFINE answer == [req[r] EXCEPT !.held = None, !.pc = "set"]
  <2>1. answer \in ReqType
    BY DEF TypeOK, ReqType, MaybeListener
  <2>2. req' = [req EXCEPT ![r] = answer]
    BY <1>3 DEF ApplyClose, TypeOK
  <2> HIDE DEF answer
  <2>3. req[r].held \in MaybeListener
    BY DEF TypeOK, ReqType
  <2>4. QED
    BY <1>3, <2>1, <2>2, <2>3, CloseTypes DEF ApplyClose, TypeOK
<1>4. CASE ApplyDisable(r)
  <2>1. req' \in [Requests -> ReqType]
    BY <1>4, GotoMoves, TargetType DEF ApplyDisable
  <2>2. mgr' \in MgrType
    BY <1>4, TargetType DEF ApplyDisable, TypeOK, MgrType, Settings
  <2>3. QED
    BY <1>4, <2>1, <2>2 DEF ApplyDisable, TypeOK
<1>5. CASE ApplyBind(r)
  <2>1. req' \in [Requests -> ReqType]
    BY <1>5, GotoMoves DEF ApplyBind
  <2>2. open' \in [Listeners -> Addrs \cup {NoAddr}]
    BY <1>5, TargetType DEF ApplyBind, TypeOK, Settings
  <2>3. QED
    BY <1>5, <2>1, <2>2 DEF ApplyBind, TypeOK
<1>6. CASE ApplyBindFails(r) \/ Respond(r)
  <2>1. req' \in [Requests -> ReqType]
    BY <1>6, GotoMoves DEF ApplyBindFails, Respond
  <2>2. QED
    BY <1>6, <2>1 DEF ApplyBindFails, Respond, TypeOK
<1>7. CASE ApplyPublish(r)
  <2>1. req' \in [Requests -> ReqType]
    BY <1>7, GotoMoves, TargetType DEF ApplyPublish
  <2>2. mgr' \in MgrType
    BY <1>7, TargetType DEF ApplyPublish, MgrType, Settings, MaybeListener
  <2>3. [watcher[ListenerOf(r)] EXCEPT !.pc = "waiting"] \in WatcherType
    BY TargetType DEF TypeOK, WatcherType
  <2>4. watcher' \in [Listeners -> WatcherType]
    BY <1>7, <2>3 DEF ApplyPublish, TypeOK
  <2>5. QED
    BY <1>7, <2>1, <2>2, <2>4 DEF ApplyPublish, TypeOK
<1>8. CASE SaveSettings(r)
  <2>1. req' \in [Requests -> ReqType]
    BY <1>8, GotoMoves DEF SaveSettings
  <2>2. QED
    BY <1>8, <2>1 DEF SaveSettings, TypeOK, ReqType
<1>9. CASE SaveFails(r)
  <2>1. [req[r] EXCEPT !.phase = "rollback", !.pc = "check"] \in ReqType
    BY DEF TypeOK, ReqType
  <2>2. QED
    BY <1>9, <2>1 DEF SaveFails, TypeOK
<1>10. QED
  BY <1>1, <1>2, <1>3, <1>4, <1>5, <1>6, <1>7, <1>8, <1>9 DEF RequestStep

LEMMA WatcherTypeOK ==
  ASSUME TypeOK, NEW id \in Listeners, WatcherStep(id)
  PROVE  TypeOK'
<1>1. CASE WatcherStops(id)
  <2>1. [pc |-> "closing", held |-> mgr.ln] \in WatcherType
    BY DEF TypeOK, WatcherType, MgrType
  <2>2. QED
    BY <1>1, <2>1, DetachedType DEF WatcherStops, TypeOK
<1>2. CASE WatcherCloses(id)
  <2>1. watcher[id].held \in MaybeListener
    BY DEF TypeOK, WatcherType
  <2>2. QED
    BY <1>2, <2>1, CloseTypes, NoWatcherType DEF WatcherCloses, TypeOK
<1>3. CASE WatcherEnds(id)
  BY <1>3, NoWatcherType DEF WatcherEnds, TypeOK
<1>4. QED
  BY <1>1, <1>2, <1>3 DEF WatcherStep

LEMMA RestartTypeOK == ASSUME TypeOK, Restart PROVE TypeOK'
<1>1. db \in Settings
  BY DEF TypeOK
<1>2. req' \in [Requests -> ReqType]
  BY <1>1, FreshType DEF Restart, TypeOK
<1>3. QED
  BY <1>1, <1>2, BootTypes DEF Restart, TypeOK

LEMMA PatchTypeOK ==
  ASSUME TypeOK, NEW r \in Requests, NEW next \in Patched, PatchSettings(r, next)
  PROVE  /\ TypeOK'
         /\ req'[r] = [req[r] EXCEPT !.pc = "check", !.current = db, !.next = next]
<1>1. next \in Settings
  BY DEF PatchSettings, Acceptable, Patched, Settings
<1>2. [req[r] EXCEPT !.pc = "check", !.current = db, !.next = next] \in ReqType
  BY <1>1 DEF TypeOK, ReqType, InFlight
<1>3. QED
  BY <1>2 DEF PatchSettings, TypeOK

LEMMA StepTypeOK == TypeOK /\ [Next]_vars => TypeOK'
<1> SUFFICES ASSUME TypeOK, [Next]_vars PROVE TypeOK'
  OBVIOUS
<1>1. CASE UNCHANGED vars
  BY <1>1 DEF vars, TypeOK
<1>2. ASSUME NEW r \in Requests, ClientLeaves(r) PROVE TypeOK'
  BY <1>2 DEF ClientLeaves, TypeOK
<1>3. QED
  BY <1>1, <1>2, RequestTypeOK, WatcherTypeOK, RestartTypeOK, PatchTypeOK DEF Next

(* Overlapping requests or not, faults or not, every variable keeps a      *)
(* value of its type: nothing Apply, stop or a watcher stores in the       *)
(* manager is anything but a listener of this run or none.                 *)
THEOREM TypeCorrect == Spec => []TypeOK
BY InitTypeOK, StepTypeOK, PTL DEF Spec

-----------------------------------------------------------------------------
LEMMA InitSequential == Init => SequentialInv
<1> SUFFICES ASSUME Init PROVE SequentialInv
  OBVIOUS
<1>1. TypeOK
  BY InitTypeOK
<1>2. \A r \in Requests : req[r] = [pc |-> "idle", phase |-> "apply", current |-> db,
                                   next |-> db, held |-> None]
  BY DEF Init, Fresh
<1>3. ASSUME NEW r \in Requests
      PROVE  req[r].pc = "idle" /\ req[r].phase = "apply" /\ req[r].held = None
  BY <1>2
<1>4. OneInFlight /\ DetachedUntilPublish /\ LoadedIsStored /\ SavesWhatItApplied
  BY <1>3 DEF OneInFlight, DetachedUntilPublish, LoadedIsStored,
              SavesWhatItApplied, InFlight
<1>5. /\ mgr = [enabled |-> db.enabled, listen |-> db.listen, bound |-> db.enabled,
                 ln |-> IF db.enabled THEN Boot ELSE None]
      /\ db.enabled \in BOOLEAN
  BY <1>1 DEF Init, BootMgr, TypeOK, Settings
<1>6. /\ \A id \in Listeners : watcher[id].held = None
      /\ \A id \in Listeners \ {Boot} : watcher[id].pc = "none"
      /\ \A id \in Listeners : watcher[id].pc # "closing"
  BY DEF Init, BootWatcher, NoWatcher
<1>7. \A id \in Listeners :
        open[id] = IF id = Boot /\ db.enabled THEN db.listen ELSE NoAddr
  BY DEF Init, BootOpen
<1>8. FlagMatchesListener /\ PublishedIsNotHeld /\ ManagerFollows
  BY <1>3, <1>5, <1>6, ListenerTypes
  DEF FlagMatchesListener, PublishedIsNotHeld, ManagerFollows, Follows
<1>9. UpcomingIsUnknown
  BY <1>3, <1>5, <1>6, ListenerTypes
  DEF UpcomingIsUnknown, Upcoming, ListenerOf
<1>10. OpenIsOwned
  BY <1>5, <1>7 DEF OpenIsOwned
<1>11. HeldWhileClosing /\ SocketWhereClaimed
  BY <1>3, <1>5, <1>6, <1>7, ListenerTypes DEF HeldWhileClosing, SocketWhereClaimed
<1>12. QED
  BY <1>1, <1>4, <1>8, <1>9, <1>10, <1>11 DEF SequentialInv

(* While a request is in flight the others are not.                        *)
LEMMA OthersRest ==
  ASSUME SequentialInv, NEW r \in Requests, req[r].pc \in InFlight
  PROVE  \A q \in Requests \ {r} : req[q].pc \in {"idle", "done"}
  BY DEF SequentialInv, OneInFlight, TypeOK, ReqType

(* No step but a restart makes a listener upcoming.                        *)
LEMMA UpcomingShrinks ==
  ASSUME NEW r \in Requests,
         \A q \in Requests \ {r} : req'[q] = req[q],
         \/ /\ req'[r].phase = req[r].phase
            /\ req'[r].pc \in BeforePublish => req[r].pc \in BeforePublish
         \/ req[r].phase = "apply" /\ req'[r].phase = "rollback",
         NEW id, Upcoming(id)'
  PROVE  Upcoming(id)
  BY DEF Upcoming, ListenerOf

(* The facts about the requests alone, for a step that only moves the      *)
(* program counter of the request in flight.                               *)
LEMMA MovingKeeps ==
  ASSUME SequentialInv, NEW r \in Requests, NEW pc \in PCs,
         req[r].pc \in InFlight, Goto(r, pc), pc # "idle",
         pc = "save" => req[r].phase = "apply",
         db' = db
  PROVE  /\ OneInFlight' /\ SavesWhatItApplied'
         /\ req[r].pc # "respond" => LoadedIsStored'
         /\ req[r].pc # "close" =>
               \A q \in Requests : req'[q].pc # "close" => req'[q].held = None
         /\ \A q \in Requests : req'[q].held = req[q].held
         /\ \A q \in Requests : /\ req'[q].phase = req[q].phase
                                /\ req'[q].next = req[q].next
                                /\ Target(q)' = Target(q)
                                /\ ListenerOf(q)' = ListenerOf(q)
         /\ \A q \in Requests \ {r} : req'[q] = req[q]
         /\ req'[r].pc = pc
<1>1. \A q \in Requests \ {r} : req'[q] = req[q]
  BY GotoMoves DEF SequentialInv
<1>2. req'[r] = [req[r] EXCEPT !.pc = pc] /\ req[r] \in ReqType
  BY GotoMoves DEF SequentialInv, TypeOK
<1>3. /\ req'[r].pc = pc /\ req'[r].phase = req[r].phase
      /\ req'[r].next = req[r].next /\ req'[r].current = req[r].current
      /\ req'[r].held = req[r].held
  BY <1>2 DEF ReqType
<1>4. OneInFlight'
  <2>1. \A q \in Requests \ {r} : req[q].pc \in {"idle", "done"}
    BY OthersRest
  <2>2. \A q \in Requests \ {r} : req'[q].pc \notin InFlight
    BY <1>1, <2>1 DEF InFlight
  <2>3. QED
    BY <2>2 DEF OneInFlight, InFlight
<1>5. SavesWhatItApplied'
  BY <1>1, <1>3 DEF SequentialInv, SavesWhatItApplied
<1>6. ASSUME req[r].pc # "respond" PROVE LoadedIsStored'
  BY <1>1, <1>3, <1>6 DEF SequentialInv, LoadedIsStored
<1>7. \A q \in Requests : Target(q)' = Target(q) /\ ListenerOf(q)' = ListenerOf(q)
  BY <1>1, <1>3 DEF Target, ListenerOf
<1>8. QED
  BY <1>1, <1>3, <1>4, <1>5, <1>6, <1>7 DEF SequentialInv, HeldWhileClosing

(* What a step that leaves the manager, the sockets and the watchers alone *)
(* keeps.                                                                  *)
LEMMA RequestOnlyKeeps ==
  ASSUME SequentialInv, NEW r \in Requests, NEW pc \in PCs \ {"idle", "publish"},
         req[r].pc \in InFlight \ {"close"}, Goto(r, pc),
         pc = "save" => req[r].phase = "apply",
         pc \in BeforePublish => req[r].pc \in BeforePublish,
         pc \in {"close", "set"} => mgr.ln = None,
         UNCHANGED <<mgr, open, watcher>>, db' = db \/ req[r].pc = "save"
  PROVE  /\ FlagMatchesListener' /\ HeldWhileClosing' /\ DetachedUntilPublish'
         /\ UpcomingIsUnknown' /\ PublishedIsNotHeld' /\ SocketWhereClaimed'
         /\ req[r].pc # "publish" => OpenIsOwned'
<1>1. \A q \in Requests \ {r} : req'[q] = req[q]
  BY GotoMoves DEF SequentialInv
<1>2. req'[r] = [req[r] EXCEPT !.pc = pc] /\ req[r] \in ReqType
  BY GotoMoves DEF SequentialInv, TypeOK
<1>3. /\ req'[r].pc = pc /\ req'[r].phase = req[r].phase
      /\ req'[r].next = req[r].next /\ req'[r].current = req[r].current
      /\ req'[r].held = req[r].held
  BY <1>2 DEF ReqType
<1>4. mgr' = mgr /\ open' = open /\ watcher' = watcher
  OBVIOUS
<1>5. FlagMatchesListener' /\ PublishedIsNotHeld'
  BY <1>4 DEF SequentialInv, FlagMatchesListener, PublishedIsNotHeld
<1>6. HeldWhileClosing'
  BY <1>1, <1>3, <1>4 DEF SequentialInv, HeldWhileClosing
<1>7. DetachedUntilPublish'
  BY <1>1, <1>3, <1>4 DEF SequentialInv, DetachedUntilPublish
<1>8. UpcomingIsUnknown'
  BY <1>1, <1>3, <1>4, UpcomingShrinks DEF SequentialInv, UpcomingIsUnknown
<1>9. SocketWhereClaimed'
  BY <1>1, <1>3, <1>4 DEF SequentialInv, SocketWhereClaimed, Target, ListenerOf
<1>10. ASSUME req[r].pc # "publish" PROVE OpenIsOwned'
  BY <1>1, <1>3, <1>4, <1>10 DEF SequentialInv, OpenIsOwned, ListenerOf
<1>11. QED
  BY <1>5, <1>6, <1>7, <1>8, <1>9, <1>10

LEMMA CheckKeeps ==
  ASSUME SequentialInv, NEW r \in Requests, ApplyCheck(r)
  PROVE  SequentialInv'
<1>0. TypeOK /\ req[r].pc = "check" /\ TypeOK'
  BY RequestTypeOK DEF SequentialInv, ApplyCheck, RequestStep
<1> DEFINE pc == IF NeedsRestart(Target(r)) THEN "detach" ELSE AppliedPC(r)
<1>1. Goto(r, pc) /\ mgr' = mgr /\ open' = open /\ watcher' = watcher /\ db' = db
  BY DEF ApplyCheck
<1>2. /\ pc \in {"detach", "save", "respond"} /\ pc \in PCs
      /\ pc \in BeforePublish => req[r].pc \in BeforePublish
  BY <1>0, TargetType DEF AppliedPC, PCs, InFlight, BeforePublish
<1>3. /\ req[r].phase = "rollback" => Target(r) = req[r].current
      /\ req[r].phase = "apply" => Target(r) = req[r].next
  BY DEF Target
<1>4. req[r].current = db
  BY <1>0 DEF SequentialInv, LoadedIsStored, InFlight
<1>5. pc \in {"save", "respond"} =>
        mgr.enabled = Target(r).enabled /\ mgr.listen = Target(r).listen
  BY DEF NeedsRestart
<1>6. /\ pc = "save" => req[r].phase = "apply"
      /\ pc = "respond" => req[r].phase # "apply"
  BY DEF AppliedPC
<1> HIDE DEF pc
<1>7. /\ OneInFlight' /\ SavesWhatItApplied' /\ LoadedIsStored'
      /\ req'[r].pc = pc /\ req'[r].next = req[r].next
      /\ \A q \in Requests \ {r} : req'[q] = req[q]
  BY <1>0, <1>1, <1>2, <1>6, MovingKeeps DEF InFlight
<1>8. /\ FlagMatchesListener' /\ HeldWhileClosing' /\ DetachedUntilPublish'
      /\ UpcomingIsUnknown' /\ PublishedIsNotHeld' /\ SocketWhereClaimed'
      /\ OpenIsOwned'
  BY <1>0, <1>1, <1>2, <1>6, RequestOnlyKeeps DEF InFlight
<1>9. \A q \in Requests \ {r} : req[q].pc \in {"idle", "done"}
  BY <1>0, OthersRest DEF InFlight
<1>10. mgr.ln # None => mgr.enabled
  BY DEF SequentialInv, FlagMatchesListener
<1>11. req[r].phase \in {"apply", "rollback"}
  BY <1>0, TargetType
<1>12. ManagerFollows'
  <2>1. ASSUME NEW q \in Requests, req'[q].pc = "save" PROVE Follows(req[q].next)'
    <3>1. q = r /\ pc = "save"
      BY <1>7, <1>9, <2>1
    <3>2. Target(r) = req[r].next
      BY <1>3, <1>6, <3>1
    <3>3. mgr.ln # None => req[r].next.enabled /\ mgr.listen = req[r].next.listen
      BY <1>5, <1>10, <3>1, <3>2
    <3>4. QED
      BY <1>1, <1>7, <3>1, <3>3 DEF Follows
  <2>2. ASSUME \A q \in Requests : req'[q].pc \in {"idle", "respond", "done"}
        PROVE  Follows(db)'
    <3>1. pc = "respond"
      BY <1>2, <1>7, <2>2
    <3>2. Target(r) = db
      BY <1>3, <1>4, <1>6, <1>11, <3>1
    <3>3. mgr.ln # None => db.enabled /\ mgr.listen = db.listen
      BY <1>5, <1>10, <3>1, <3>2
    <3>4. QED
      BY <1>1, <3>3 DEF Follows
  <2>3. QED
    BY <2>1, <2>2 DEF ManagerFollows
<1>13. QED
  BY <1>0, <1>7, <1>8, <1>12 DEF SequentialInv

(* The first half of stop hands the manager's listener to the request.     *)
LEMMA DetachKeeps ==
  ASSUME SequentialInv, NEW r \in Requests, ApplyDetach(r)
  PROVE  SequentialInv'
<1>1. TypeOK' /\ req[r].pc = "detach" /\ req[r].held = None
  BY RequestTypeOK DEF SequentialInv, ApplyDetach, RequestStep, HeldWhileClosing
<1>2. \A q \in Requests \ {r} : req'[q] = req[q] /\ req[q].pc \in {"idle", "done"}
  BY <1>1, OthersRest DEF SequentialInv, TypeOK, ApplyDetach, InFlight
<1>3. /\ req'[r].pc = "close" /\ req'[r].held = mgr.ln
      /\ req'[r].phase = req[r].phase /\ req'[r].current = req[r].current
  BY DEF SequentialInv, TypeOK, ReqType, ApplyDetach
<1>4. mgr'.ln = None /\ mgr'.enabled = FALSE
  BY DEF SequentialInv, TypeOK, MgrType, ApplyDetach, Detached
<1>5. open' = open /\ watcher' = watcher /\ db' = db
  BY DEF ApplyDetach
<1>6. OneInFlight' /\ SavesWhatItApplied'
  BY <1>2, <1>3 DEF SequentialInv, OneInFlight, SavesWhatItApplied, InFlight
<1>7. LoadedIsStored'
  BY <1>1, <1>2, <1>3, <1>5 DEF SequentialInv, LoadedIsStored, InFlight
<1>8. FlagMatchesListener' /\ PublishedIsNotHeld' /\ DetachedUntilPublish' /\ ManagerFollows'
  BY <1>4 DEF FlagMatchesListener, PublishedIsNotHeld, DetachedUntilPublish,
              ManagerFollows, Follows
<1>9. HeldWhileClosing'
  BY <1>2, <1>3, <1>5 DEF SequentialInv, HeldWhileClosing
<1>10. UpcomingIsUnknown'
  BY <1>1, <1>2, <1>3, <1>4, <1>5, UpcomingShrinks, ListenerTypes
  DEF SequentialInv, UpcomingIsUnknown, BeforePublish
<1>11. SocketWhereClaimed'
  BY <1>2, <1>3, <1>4 DEF SocketWhereClaimed
<1>12. ASSUME NEW id \in Listeners, open'[id] # NoAddr
       PROVE  \/ mgr'.ln = id
              \/ \E w \in Listeners : watcher'[w].held = id
              \/ \E q \in Requests :
                   \/ req'[q].held = id
                   \/ req'[q].pc = "publish" /\ ListenerOf(q)' = id
  <2>1. \/ mgr.ln = id
        \/ \E w \in Listeners : watcher[w].held = id
        \/ \E q \in Requests :
             \/ req[q].held = id
             \/ req[q].pc = "publish" /\ ListenerOf(q) = id
    BY <1>5, <1>12 DEF SequentialInv, OpenIsOwned
  <2>2. \A q \in Requests : req[q].held # id \/ req'[q].held = id
    BY <1>1, <1>2, ListenerTypes
  <2>3. \A q \in Requests : req[q].pc # "publish"
    BY <1>1, <1>2
  <2>4. QED
    BY <1>3, <1>5, <2>1, <2>2, <2>3
<1>13. QED
  BY <1>1, <1>6, <1>7, <1>8, <1>9, <1>10, <1>11, <1>12 DEF SequentialInv, OpenIsOwned

(* The second half closes it.                                              *)
LEMMA CloseKeeps ==
  ASSUME SequentialInv, NEW r \in Requests, ApplyClose(r)
  PROVE  SequentialInv'
<1>1. TypeOK' /\ req[r].pc = "close" /\ mgr.ln = None
  BY RequestTypeOK DEF SequentialInv, ApplyClose, RequestStep, DetachedUntilPublish
<1>2. \A q \in Requests \ {r} : req'[q] = req[q] /\ req[q].pc \in {"idle", "done"}
  BY <1>1, OthersRest DEF SequentialInv, TypeOK, ApplyClose, InFlight
<1>3. /\ req'[r].pc = "set" /\ req'[r].held = None
      /\ req'[r].phase = req[r].phase /\ req'[r].current = req[r].current
  BY DEF SequentialInv, TypeOK, ReqType, ApplyClose
<1>4. mgr' = mgr /\ watcher' = watcher /\ db' = db
  BY DEF ApplyClose
<1>5. /\ \A id \in Listeners : id # req[r].held => open'[id] = open[id]
      /\ \A id \in Listeners : id = req[r].held => open'[id] = NoAddr
  BY DEF ApplyClose, CloseListener
<1>6. OneInFlight' /\ SavesWhatItApplied'
  BY <1>2, <1>3 DEF SequentialInv, OneInFlight, SavesWhatItApplied, InFlight
<1>7. LoadedIsStored'
  BY <1>1, <1>2, <1>3, <1>4 DEF SequentialInv, LoadedIsStored, InFlight
<1>8. FlagMatchesListener' /\ PublishedIsNotHeld' /\ DetachedUntilPublish' /\ ManagerFollows'
  BY <1>1, <1>4 DEF SequentialInv, FlagMatchesListener, PublishedIsNotHeld,
                    DetachedUntilPublish, ManagerFollows, Follows
<1>9. HeldWhileClosing'
  BY <1>2, <1>3, <1>4 DEF SequentialInv, HeldWhileClosing
<1>10. UpcomingIsUnknown'
  BY <1>1, <1>2, <1>3, <1>4, UpcomingShrinks
  DEF SequentialInv, UpcomingIsUnknown, BeforePublish
<1>11. SocketWhereClaimed'
  BY <1>1, <1>2, <1>3, <1>4 DEF SocketWhereClaimed
<1>12. OpenIsOwned'
  BY <1>1, <1>2, <1>3, <1>4, <1>5 DEF SequentialInv, OpenIsOwned, ListenerOf
<1>13. QED
  BY <1>1, <1>6, <1>7, <1>8, <1>9, <1>10, <1>11, <1>12 DEF SequentialInv

LEMMA DisableKeeps ==
  ASSUME SequentialInv, NEW r \in Requests, ApplyDisable(r)
  PROVE  SequentialInv'
<1>1. TypeOK' /\ req[r].pc = "set" /\ mgr.ln = None
  BY RequestTypeOK DEF SequentialInv, ApplyDisable, RequestStep, DetachedUntilPublish
<1>2. \A q \in Requests \ {r} : req[q].pc \in {"idle", "done"}
  BY <1>1, OthersRest DEF InFlight
<1>3. mgr'.ln = None /\ mgr'.enabled = FALSE
  BY <1>1 DEF SequentialInv, TypeOK, MgrType, ApplyDisable
<1>4. open' = open /\ watcher' = watcher /\ db' = db /\ Goto(r, AppliedPC(r))
  BY DEF ApplyDisable
<1>5. /\ AppliedPC(r) \in {"save", "respond"} /\ AppliedPC(r) \in PCs
      /\ AppliedPC(r) = "save" => req[r].phase = "apply"
  BY DEF AppliedPC, PCs, InFlight
<1>6. /\ OneInFlight' /\ SavesWhatItApplied' /\ LoadedIsStored'
      /\ \A q \in Requests : req'[q].pc # "close" => req'[q].held = None
      /\ \A q \in Requests : req'[q].held = req[q].held
      /\ req'[r].pc = AppliedPC(r) /\ req'[r].phase = req[r].phase
      /\ \A q \in Requests \ {r} : req'[q] = req[q]
  BY <1>1, <1>4, <1>5, MovingKeeps DEF InFlight
<1>7. FlagMatchesListener' /\ PublishedIsNotHeld' /\ DetachedUntilPublish' /\ ManagerFollows'
  BY <1>3 DEF FlagMatchesListener, PublishedIsNotHeld, DetachedUntilPublish,
              ManagerFollows, Follows
<1>8. HeldWhileClosing'
  BY <1>4, <1>6 DEF SequentialInv, HeldWhileClosing
<1>9. UpcomingIsUnknown'
  BY <1>1, <1>3, <1>4, <1>5, <1>6, UpcomingShrinks, ListenerTypes
  DEF SequentialInv, UpcomingIsUnknown, BeforePublish
<1>10. SocketWhereClaimed'
  BY <1>2, <1>3, <1>5, <1>6 DEF SocketWhereClaimed
<1>11. OpenIsOwned'
  BY <1>1, <1>2, <1>3, <1>4, <1>6, ListenerTypes DEF SequentialInv, OpenIsOwned
<1>12. QED
  BY <1>1, <1>6, <1>7, <1>8, <1>9, <1>10, <1>11 DEF SequentialInv

LEMMA BindKeeps ==
  ASSUME SequentialInv, NEW r \in Requests, ApplyBind(r)
  PROVE  SequentialInv'
<1>1. TypeOK' /\ req[r].pc = "set" /\ mgr.ln = None /\ req[r].held = None
  BY RequestTypeOK
  DEF SequentialInv, ApplyBind, RequestStep, DetachedUntilPublish, HeldWhileClosing
<1>2. \A q \in Requests \ {r} : req[q].pc \in {"idle", "done"}
  BY <1>1, OthersRest DEF InFlight
<1>3. mgr' = mgr /\ watcher' = watcher /\ db' = db /\ Goto(r, "publish")
  BY DEF ApplyBind
<1>4. /\ ListenerOf(r) \in Listeners /\ open'[ListenerOf(r)] = Target(r).listen
      /\ Target(r).enabled
      /\ \A id \in Listeners : id # ListenerOf(r) => open'[id] = open[id]
  BY TargetType DEF SequentialInv, TypeOK, ApplyBind
<1>5. /\ OneInFlight' /\ SavesWhatItApplied' /\ LoadedIsStored'
      /\ \A q \in Requests : req'[q].pc # "close" => req'[q].held = None
      /\ \A q \in Requests : req'[q].held = req[q].held
      /\ req'[r].pc = "publish" /\ req'[r].phase = req[r].phase
      /\ \A q \in Requests \ {r} : req'[q] = req[q]
      /\ Target(r)' = Target(r) /\ ListenerOf(r)' = ListenerOf(r)
  BY <1>1, <1>3, MovingKeeps DEF InFlight, PCs
<1>6. FlagMatchesListener' /\ PublishedIsNotHeld' /\ DetachedUntilPublish' /\ ManagerFollows'
  BY <1>1, <1>3 DEF SequentialInv, FlagMatchesListener, PublishedIsNotHeld,
                    DetachedUntilPublish, ManagerFollows, Follows
<1>7. HeldWhileClosing'
  BY <1>3, <1>5 DEF SequentialInv, HeldWhileClosing
<1>8. UpcomingIsUnknown'
  BY <1>1, <1>3, <1>5, UpcomingShrinks
  DEF SequentialInv, UpcomingIsUnknown, BeforePublish
<1>9. SocketWhereClaimed'
  BY <1>1, <1>2, <1>3, <1>4, <1>5 DEF SocketWhereClaimed
<1>10. ASSUME NEW id \in Listeners, open'[id] # NoAddr, id # ListenerOf(r)
       PROVE  \E w \in Listeners : watcher'[w].held = id
  BY <1>1, <1>2, <1>3, <1>4, <1>5, <1>10, ListenerTypes
  DEF SequentialInv, OpenIsOwned, HeldWhileClosing
<1>11. OpenIsOwned'
  BY <1>5, <1>10 DEF OpenIsOwned
<1>12. QED
  BY <1>1, <1>5, <1>6, <1>7, <1>8, <1>9, <1>11 DEF SequentialInv

LEMMA BindFailsKeeps ==
  ASSUME SequentialInv, NEW r \in Requests, ApplyBindFails(r)
  PROVE  SequentialInv'
<1>1. TypeOK' /\ req[r].pc = "set" /\ mgr.ln = None
  BY RequestTypeOK DEF SequentialInv, ApplyBindFails, RequestStep, DetachedUntilPublish
<1>2. mgr' = mgr /\ open' = open /\ watcher' = watcher /\ db' = db /\ Goto(r, "respond")
  BY DEF ApplyBindFails
<1>3. OneInFlight' /\ SavesWhatItApplied' /\ LoadedIsStored'
  BY <1>1, <1>2, MovingKeeps DEF InFlight, PCs
<1>4. /\ FlagMatchesListener' /\ HeldWhileClosing' /\ DetachedUntilPublish'
      /\ UpcomingIsUnknown' /\ PublishedIsNotHeld' /\ SocketWhereClaimed'
      /\ OpenIsOwned'
  BY <1>1, <1>2, RequestOnlyKeeps DEF InFlight, PCs, BeforePublish
<1>5. ManagerFollows'
  BY <1>1, <1>2 DEF ManagerFollows, Follows
<1>6. QED
  BY <1>1, <1>3, <1>4, <1>5 DEF SequentialInv

(* The manager takes the listener the request bound, with a watcher that   *)
(* holds nothing.                                                          *)
LEMMA PublishKeeps ==
  ASSUME SequentialInv, NEW r \in Requests, ApplyPublish(r)
  PROVE  SequentialInv'
<1> DEFINE L == ListenerOf(r)
<1>1. TypeOK' /\ req[r].pc = "publish" /\ mgr.ln = None /\ L \in Listeners
  BY RequestTypeOK, TargetType
  DEF SequentialInv, ApplyPublish, RequestStep, DetachedUntilPublish
<1>2. \A q \in Requests \ {r} : req[q].pc \in {"idle", "done"}
  BY <1>1, OthersRest DEF InFlight
<1>3. mgr'.ln = L /\ mgr'.enabled = TRUE /\ mgr'.listen = Target(r).listen
  BY DEF ApplyPublish
<1>4. /\ watcher'[L].held = watcher[L].held /\ watcher'[L].pc = "waiting"
      /\ \A w \in Listeners : w # L => watcher'[w] = watcher[w]
  BY <1>1 DEF SequentialInv, TypeOK, WatcherType, ApplyPublish
<1>5. open' = open /\ db' = db /\ Goto(r, AppliedPC(r))
  BY DEF ApplyPublish
<1>6. /\ AppliedPC(r) \in {"save", "respond"} /\ AppliedPC(r) \in PCs
      /\ AppliedPC(r) = "save" => req[r].phase = "apply" /\ Target(r) = req[r].next
      /\ AppliedPC(r) = "respond" => req[r].phase # "apply" /\ Target(r) = req[r].current
  BY DEF AppliedPC, Target, PCs, InFlight
<1>7. /\ OneInFlight' /\ SavesWhatItApplied' /\ LoadedIsStored'
      /\ \A q \in Requests : req'[q].pc # "close" => req'[q].held = None
      /\ \A q \in Requests : req'[q].held = req[q].held
      /\ req'[r].pc = AppliedPC(r) /\ req'[r].phase = req[r].phase
      /\ req'[r].next = req[r].next
      /\ \A q \in Requests \ {r} : req'[q] = req[q]
  BY <1>1, <1>5, <1>6, MovingKeeps DEF InFlight
<1>8. /\ watcher[L].pc = "none"
      /\ \A w \in Listeners : watcher[w].held # L
      /\ open[L] = Target(r).listen /\ Target(r).enabled
  BY <1>1 DEF SequentialInv, UpcomingIsUnknown, Upcoming, BeforePublish,
              SocketWhereClaimed
<1>9. \A w \in Listeners : watcher'[w].held = watcher[w].held
  BY <1>4
<1>10. req[r].current = db
  BY <1>1 DEF SequentialInv, LoadedIsStored, InFlight
<1> HIDE DEF L
<1>11. L # None
  BY <1>1, ListenerTypes
<1>12. FlagMatchesListener' /\ PublishedIsNotHeld' /\ DetachedUntilPublish'
  BY <1>2, <1>3, <1>6, <1>7, <1>8, <1>9, <1>11
  DEF FlagMatchesListener, PublishedIsNotHeld, DetachedUntilPublish
<1>13. HeldWhileClosing'
  <2>1. \A w \in Listeners : watcher'[w].pc # "closing" => watcher'[w].held = None
    BY <1>4, <1>8 DEF SequentialInv, HeldWhileClosing
  <2>2. QED
    BY <1>7, <2>1 DEF HeldWhileClosing
<1>14. ASSUME NEW id \in Listeners, Upcoming(id)'
       PROVE  id # L /\ Upcoming(id)
  <2>1. Upcoming(id)
    BY <1>1, <1>6, <1>7, <1>14, UpcomingShrinks DEF BeforePublish
  <2>2. L = <<r, req[r].phase>>
    BY DEF L, ListenerOf
  <2>3. PICK q \in Requests :
          \/ id = <<q, "rollback">> /\ req'[q].phase = "apply"
          \/ id = <<q, req'[q].phase>> /\ req'[q].pc \in BeforePublish
    BY <1>14 DEF Upcoming, ListenerOf
  <2>4. id # L
    BY <1>6, <1>7, <2>2, <2>3 DEF BeforePublish
  <2>5. QED
    BY <2>1, <2>4
<1>15. UpcomingIsUnknown'
  BY <1>3, <1>4, <1>9, <1>14 DEF SequentialInv, UpcomingIsUnknown
<1>16. SocketWhereClaimed'
  BY <1>2, <1>3, <1>5, <1>6, <1>7, <1>8 DEF SocketWhereClaimed
<1>17. ASSUME NEW id \in Listeners, open'[id] # NoAddr, id # L
       PROVE  \E w \in Listeners : watcher'[w].held = id
  <2>1. \A q \in Requests : req[q].held # id /\ (req[q].pc = "publish" => q = r)
    BY <1>1, <1>2, ListenerTypes DEF SequentialInv, HeldWhileClosing
  <2>2. QED
    BY <1>1, <1>5, <1>9, <1>17, <2>1, ListenerTypes DEF SequentialInv, OpenIsOwned, L
<1>18. OpenIsOwned'
  BY <1>3, <1>17 DEF OpenIsOwned
<1>19. ManagerFollows'
  <2>1. ASSUME NEW q \in Requests, req'[q].pc = "save" PROVE Follows(req[q].next)'
    BY <1>2, <1>3, <1>6, <1>7, <1>8, <2>1 DEF Follows
  <2>2. ASSUME \A q \in Requests : req'[q].pc \in {"idle", "respond", "done"}
        PROVE  Follows(db)'
    BY <1>3, <1>5, <1>6, <1>7, <1>8, <1>10, <2>2 DEF Follows
  <2>3. QED
    BY <2>1, <2>2 DEF ManagerFollows
<1>20. QED
  BY <1>1, <1>7, <1>12, <1>13, <1>15, <1>16, <1>18, <1>19 DEF SequentialInv

(* The stored settings become those the manager runs with.                 *)
LEMMA SaveKeeps ==
  ASSUME SequentialInv, NEW r \in Requests, SaveSettings(r)
  PROVE  SequentialInv'
<1>1. TypeOK' /\ req[r].pc = "save" /\ req[r].phase = "apply"
  BY RequestTypeOK DEF SequentialInv, SaveSettings, RequestStep, SavesWhatItApplied
<1>2. mgr' = mgr /\ open' = open /\ watcher' = watcher /\ Goto(r, "respond")
      /\ db' = req[r].next
  BY DEF SaveSettings
<1>3. \A q \in Requests \ {r} : req[q].pc \in {"idle", "done"} /\ req'[q] = req[q]
  BY <1>1, <1>2, OthersRest, GotoMoves DEF InFlight, SequentialInv, PCs
<1>4. req'[r].pc = "respond"
  BY <1>2 DEF SequentialInv, TypeOK, ReqType, Goto
<1>5. OneInFlight' /\ SavesWhatItApplied' /\ LoadedIsStored'
  BY <1>3, <1>4 DEF SequentialInv, OneInFlight, SavesWhatItApplied, LoadedIsStored, InFlight
<1>6. /\ FlagMatchesListener' /\ HeldWhileClosing' /\ DetachedUntilPublish'
      /\ UpcomingIsUnknown' /\ PublishedIsNotHeld' /\ SocketWhereClaimed'
      /\ OpenIsOwned'
  BY <1>1, <1>2, RequestOnlyKeeps DEF InFlight, PCs, BeforePublish
<1>7. Follows(req[r].next)
  BY <1>1 DEF SequentialInv, ManagerFollows
<1>8. Follows(db)'
  BY <1>2, <1>7 DEF Follows
<1>9. ManagerFollows'
  BY <1>3, <1>4, <1>8 DEF ManagerFollows
<1>10. QED
  BY <1>1, <1>5, <1>6, <1>9 DEF SequentialInv

(* A rollback starts from what was loaded, with a listener of its own.     *)
LEMMA SaveFailsKeeps ==
  ASSUME SequentialInv, NEW r \in Requests, SaveFails(r)
  PROVE  SequentialInv'
<1>1. TypeOK' /\ req[r].pc = "save" /\ req[r].phase = "apply"
  BY RequestTypeOK DEF SequentialInv, SaveFails, RequestStep, SavesWhatItApplied
<1>2. mgr' = mgr /\ open' = open /\ watcher' = watcher /\ db' = db
  BY DEF SaveFails
<1>3. /\ req'[r].pc = "check" /\ req'[r].phase = "rollback"
      /\ req'[r].held = req[r].held /\ req'[r].current = req[r].current
  BY DEF SequentialInv, TypeOK, ReqType, SaveFails
<1>4. \A q \in Requests \ {r} : req[q].pc \in {"idle", "done"} /\ req'[q] = req[q]
  BY <1>1, OthersRest DEF SequentialInv, TypeOK, SaveFails, InFlight
<1>5. OneInFlight' /\ SavesWhatItApplied'
  BY <1>3, <1>4 DEF SequentialInv, OneInFlight, SavesWhatItApplied, InFlight
<1>6. LoadedIsStored'
  BY <1>1, <1>2, <1>3, <1>4 DEF SequentialInv, LoadedIsStored, InFlight
<1>7. FlagMatchesListener' /\ PublishedIsNotHeld'
  BY <1>2 DEF SequentialInv, FlagMatchesListener, PublishedIsNotHeld
<1>8. HeldWhileClosing'
  BY <1>1, <1>2, <1>3, <1>4 DEF SequentialInv, HeldWhileClosing
<1>9. DetachedUntilPublish' /\ ManagerFollows'
  BY <1>3, <1>4 DEF DetachedUntilPublish, ManagerFollows
<1>10. UpcomingIsUnknown'
  BY <1>1, <1>2, <1>3, <1>4, UpcomingShrinks DEF SequentialInv, UpcomingIsUnknown
<1>11. SocketWhereClaimed'
  BY <1>2, <1>3, <1>4 DEF SequentialInv, SocketWhereClaimed
<1>12. OpenIsOwned'
  BY <1>1, <1>2, <1>3, <1>4 DEF SequentialInv, OpenIsOwned, ListenerOf
<1>13. QED
  BY <1>1, <1>5, <1>6, <1>7, <1>8, <1>9, <1>10, <1>11, <1>12 DEF SequentialInv

LEMMA RespondKeeps ==
  ASSUME SequentialInv, NEW r \in Requests, Respond(r)
  PROVE  SequentialInv'
<1>1. TypeOK' /\ req[r].pc = "respond"
  BY RequestTypeOK DEF SequentialInv, Respond, RequestStep
<1>2. mgr' = mgr /\ open' = open /\ watcher' = watcher /\ db' = db /\ Goto(r, "done")
  BY DEF Respond
<1>3. \A q \in Requests \ {r} : req[q].pc \in {"idle", "done"} /\ req'[q] = req[q]
  BY <1>1, <1>2, OthersRest, GotoMoves DEF InFlight, SequentialInv, PCs
<1>4. req'[r].pc = "done"
  BY <1>2 DEF SequentialInv, TypeOK, ReqType, Goto
<1>5. OneInFlight' /\ SavesWhatItApplied' /\ LoadedIsStored'
  BY <1>3, <1>4 DEF SequentialInv, OneInFlight, SavesWhatItApplied, LoadedIsStored, InFlight
<1>6. /\ FlagMatchesListener' /\ HeldWhileClosing' /\ DetachedUntilPublish'
      /\ UpcomingIsUnknown' /\ PublishedIsNotHeld' /\ SocketWhereClaimed'
      /\ OpenIsOwned'
  BY <1>1, <1>2, RequestOnlyKeeps DEF InFlight, PCs, BeforePublish
<1>7. Follows(db)
  BY <1>1, <1>3 DEF SequentialInv, ManagerFollows
<1>8. Follows(db)'
  BY <1>2, <1>7 DEF Follows
<1>9. ManagerFollows'
  BY <1>3, <1>4, <1>8 DEF ManagerFollows
<1>10. QED
  BY <1>1, <1>5, <1>6, <1>9 DEF SequentialInv

(* A request starts only when none is in flight.                           *)
LEMMA PatchKeeps ==
  ASSUME SequentialInv, Concurrent = FALSE,
         NEW r \in Requests, NEW next \in Patched, PatchSettings(r, next)
  PROVE  SequentialInv'
<1>1. /\ TypeOK' /\ req[r].pc = "idle"
      /\ \A q \in Requests : req[q].pc \notin InFlight
  BY PatchTypeOK DEF SequentialInv, PatchSettings
<1>2. mgr' = mgr /\ open' = open /\ watcher' = watcher /\ db' = db
  BY DEF PatchSettings
<1>3. /\ req'[r].pc = "check" /\ req'[r].phase = req[r].phase
      /\ req'[r].held = req[r].held /\ req'[r].current = db
  <2>1. req'[r] = [req[r] EXCEPT !.pc = "check", !.current = db, !.next = next]
    BY PatchTypeOK DEF SequentialInv
  <2>2. req[r] \in ReqType
    BY DEF SequentialInv, TypeOK
  <2>3. QED
    BY <2>1, <2>2 DEF ReqType
<1>4. \A q \in Requests \ {r} : req'[q] = req[q]
  BY DEF SequentialInv, TypeOK, PatchSettings
<1>5. OneInFlight' /\ SavesWhatItApplied'
  BY <1>1, <1>3, <1>4 DEF SequentialInv, OneInFlight, SavesWhatItApplied, InFlight
<1>6. LoadedIsStored'
  BY <1>1, <1>2, <1>3, <1>4 DEF SequentialInv, LoadedIsStored, InFlight
<1>7. FlagMatchesListener' /\ PublishedIsNotHeld'
  BY <1>2 DEF SequentialInv, FlagMatchesListener, PublishedIsNotHeld
<1>8. HeldWhileClosing'
  BY <1>1, <1>2, <1>3, <1>4 DEF SequentialInv, HeldWhileClosing
<1>9. DetachedUntilPublish' /\ ManagerFollows'
  BY <1>1, <1>3, <1>4 DEF DetachedUntilPublish, ManagerFollows, InFlight
<1>10. UpcomingIsUnknown'
  BY <1>1, <1>2, <1>3, <1>4, UpcomingShrinks
  DEF SequentialInv, UpcomingIsUnknown, BeforePublish
<1>11. SocketWhereClaimed'
  BY <1>1, <1>2, <1>3, <1>4 DEF SequentialInv, SocketWhereClaimed, InFlight
<1>12. OpenIsOwned'
  BY <1>1, <1>2, <1>3, <1>4 DEF SequentialInv, OpenIsOwned, ListenerOf
<1>13. QED
  BY <1>1, <1>5, <1>6, <1>7, <1>8, <1>9, <1>10, <1>11, <1>12 DEF SequentialInv

(* A watcher whose context is done takes whatever listener there is: it    *)
(* can only stop it, never lose it.                                        *)
LEMMA WatcherStopsKeeps ==
  ASSUME SequentialInv, NEW id \in Listeners, WatcherStops(id)
  PROVE  SequentialInv'
<1>1. TypeOK' /\ watcher[id].pc = "waiting" /\ watcher[id].held = None
  BY WatcherTypeOK DEF SequentialInv, WatcherStops, WatcherStep, HeldWhileClosing
<1>2. open' = open /\ req' = req /\ db' = db
  BY DEF WatcherStops
<1>3. mgr'.ln = None /\ mgr'.enabled = FALSE
  BY DEF SequentialInv, TypeOK, MgrType, WatcherStops, Detached
<1>4. /\ watcher'[id].pc = "closing" /\ watcher'[id].held = mgr.ln
      /\ \A w \in Listeners : w # id => watcher'[w] = watcher[w]
  BY DEF SequentialInv, TypeOK, WatcherStops
<1>5. OneInFlight' /\ SavesWhatItApplied' /\ LoadedIsStored'
  BY <1>2 DEF SequentialInv, OneInFlight, SavesWhatItApplied, LoadedIsStored, InFlight
<1>6. FlagMatchesListener' /\ PublishedIsNotHeld' /\ DetachedUntilPublish' /\ ManagerFollows'
  BY <1>3 DEF FlagMatchesListener, PublishedIsNotHeld, DetachedUntilPublish,
              ManagerFollows, Follows
<1>7. HeldWhileClosing'
  BY <1>2, <1>4 DEF SequentialInv, HeldWhileClosing
<1>8. ASSUME NEW l \in Listeners, Upcoming(l)'
      PROVE  /\ l # id /\ watcher[l].pc = "none" /\ mgr.ln # l
             /\ \A w \in Listeners : watcher[w].held # l
  <2>1. Upcoming(l)
    BY <1>2, <1>8 DEF Upcoming, ListenerOf
  <2>2. QED
    BY <1>1, <2>1 DEF SequentialInv, UpcomingIsUnknown
<1>9. UpcomingIsUnknown'
  BY <1>3, <1>4, <1>8, ListenerTypes DEF UpcomingIsUnknown
<1>10. SocketWhereClaimed'
  BY <1>2, <1>3 DEF SequentialInv, SocketWhereClaimed, Target, ListenerOf
<1>11. OpenIsOwned'
  BY <1>1, <1>2, <1>4, ListenerTypes DEF SequentialInv, OpenIsOwned, ListenerOf
<1>12. QED
  BY <1>1, <1>5, <1>6, <1>7, <1>9, <1>10, <1>11 DEF SequentialInv

(* What the steps that give up a watcher have in common.                   *)
LEMMA WatcherGoneKeeps ==
  ASSUME SequentialInv, NEW id \in Listeners,
         watcher' = [watcher EXCEPT ![id] = NoWatcher],
         UNCHANGED <<db, mgr, req>>
  PROVE  /\ OneInFlight' /\ SavesWhatItApplied' /\ LoadedIsStored'
         /\ FlagMatchesListener' /\ PublishedIsNotHeld' /\ DetachedUntilPublish'
         /\ ManagerFollows' /\ HeldWhileClosing' /\ UpcomingIsUnknown'
<1>1. mgr' = mgr /\ req' = req /\ db' = db
  OBVIOUS
<1>2. /\ watcher'[id].pc = "none" /\ watcher'[id].held = None
      /\ \A w \in Listeners : w # id => watcher'[w] = watcher[w]
  BY DEF SequentialInv, TypeOK, NoWatcher
<1>3. OneInFlight' /\ SavesWhatItApplied' /\ LoadedIsStored'
  BY <1>1 DEF SequentialInv, OneInFlight, SavesWhatItApplied, LoadedIsStored, InFlight
<1>4. FlagMatchesListener' /\ DetachedUntilPublish' /\ ManagerFollows'
  BY <1>1 DEF SequentialInv, FlagMatchesListener, DetachedUntilPublish,
              ManagerFollows, Follows
<1>5. HeldWhileClosing' /\ PublishedIsNotHeld'
  BY <1>1, <1>2 DEF SequentialInv, HeldWhileClosing, PublishedIsNotHeld
<1>6. \A l \in Listeners : Upcoming(l)' => Upcoming(l)
  BY <1>1 DEF Upcoming, ListenerOf
<1>7. UpcomingIsUnknown'
  BY <1>1, <1>2, <1>6, ListenerTypes DEF SequentialInv, UpcomingIsUnknown
<1>8. QED
  BY <1>3, <1>4, <1>5, <1>7

LEMMA WatcherClosesKeeps ==
  ASSUME SequentialInv, NEW id \in Listeners, WatcherCloses(id)
  PROVE  SequentialInv'
<1>1. TypeOK' /\ req' = req /\ mgr' = mgr
  BY WatcherTypeOK DEF SequentialInv, WatcherCloses, WatcherStep
<1>2. /\ \A l \in Listeners : l # watcher[id].held => open'[l] = open[l]
      /\ \A l \in Listeners : l = watcher[id].held => open'[l] = NoAddr
  BY DEF WatcherCloses, CloseListener
<1>3. \A w \in Listeners : w # id => watcher'[w] = watcher[w]
  BY DEF SequentialInv, TypeOK, WatcherCloses
<1>4. /\ OneInFlight' /\ SavesWhatItApplied' /\ LoadedIsStored'
      /\ FlagMatchesListener' /\ PublishedIsNotHeld' /\ DetachedUntilPublish'
      /\ ManagerFollows' /\ HeldWhileClosing' /\ UpcomingIsUnknown'
  BY WatcherGoneKeeps DEF WatcherCloses
<1>5. mgr.ln # None => mgr.ln \in Listeners /\ watcher[id].held # mgr.ln
  BY DEF SequentialInv, PublishedIsNotHeld, TypeOK, MgrType, MaybeListener
<1>6. ASSUME NEW r \in Requests, req[r].pc = "publish"
      PROVE  ListenerOf(r) \in Listeners /\ watcher[id].held # ListenerOf(r)
  BY <1>6, TargetType
  DEF SequentialInv, UpcomingIsUnknown, Upcoming, BeforePublish
<1>7. SocketWhereClaimed'
  BY <1>1, <1>2, <1>5, <1>6 DEF SequentialInv, SocketWhereClaimed, Target, ListenerOf
<1>8. OpenIsOwned'
  BY <1>1, <1>2, <1>3 DEF SequentialInv, OpenIsOwned, ListenerOf
<1>9. QED
  BY <1>1, <1>4, <1>7, <1>8 DEF SequentialInv

LEMMA WatcherEndsKeeps ==
  ASSUME SequentialInv, NEW id \in Listeners, WatcherEnds(id)
  PROVE  SequentialInv'
<1>1. /\ TypeOK' /\ req' = req /\ mgr' = mgr /\ open' = open
      /\ watcher[id].held = None
  BY WatcherTypeOK DEF SequentialInv, WatcherEnds, WatcherStep, HeldWhileClosing
<1>2. \A w \in Listeners : w # id => watcher'[w] = watcher[w]
  BY DEF SequentialInv, TypeOK, WatcherEnds
<1>3. /\ OneInFlight' /\ SavesWhatItApplied' /\ LoadedIsStored'
      /\ FlagMatchesListener' /\ PublishedIsNotHeld' /\ DetachedUntilPublish'
      /\ ManagerFollows' /\ HeldWhileClosing' /\ UpcomingIsUnknown'
  BY WatcherGoneKeeps DEF WatcherEnds
<1>4. SocketWhereClaimed'
  BY <1>1 DEF SequentialInv, SocketWhereClaimed, Target, ListenerOf
<1>5. OpenIsOwned'
  BY <1>1, <1>2, ListenerTypes DEF SequentialInv, OpenIsOwned, ListenerOf
<1>6. QED
  BY <1>1, <1>3, <1>4, <1>5 DEF SequentialInv

(* A new process starts from the table alone; the requests of the old one  *)
(* are over.                                                               *)
LEMMA RestartKeeps == ASSUME SequentialInv, Restart PROVE SequentialInv'
<1>1. TypeOK' /\ db' = db /\ db.enabled \in BOOLEAN
  BY RestartTypeOK DEF SequentialInv, Restart, TypeOK, Settings
<1>2. ASSUME NEW r \in Requests
      PROVE  /\ req'[r].pc \in {"idle", "done"} /\ req'[r].held = None
             /\ req'[r].phase = "apply"
  <2>1. CASE req[r].pc = "idle"
    BY <2>1 DEF Restart, SequentialInv, HeldWhileClosing, SavesWhatItApplied
  <2>2. CASE req[r].pc # "idle"
    BY <2>2 DEF Restart, Fresh
  <2>3. QED
    BY <2>1, <2>2
<1>3. OneInFlight' /\ DetachedUntilPublish' /\ LoadedIsStored' /\ SavesWhatItApplied'
  BY <1>2 DEF OneInFlight, DetachedUntilPublish, LoadedIsStored,
              SavesWhatItApplied, InFlight
<1>4. mgr' = [enabled |-> db.enabled, listen |-> db.listen, bound |-> db.enabled,
              ln |-> IF db.enabled THEN Boot ELSE None]
  BY DEF Restart, BootMgr
<1>5. /\ \A id \in Listeners : watcher'[id].held = None
      /\ \A id \in Listeners \ {Boot} : watcher'[id].pc = "none"
      /\ \A id \in Listeners : watcher'[id].pc # "closing"
  BY DEF Restart, BootWatcher, NoWatcher
<1>6. \A id \in Listeners :
        open'[id] = IF id = Boot /\ db.enabled THEN db.listen ELSE NoAddr
  BY DEF Restart, BootOpen
<1>7. FlagMatchesListener' /\ PublishedIsNotHeld' /\ ManagerFollows'
  BY <1>1, <1>2, <1>4, <1>5, ListenerTypes
  DEF FlagMatchesListener, PublishedIsNotHeld, ManagerFollows, Follows
<1>8. UpcomingIsUnknown'
  BY <1>2, <1>4, <1>5, ListenerTypes DEF UpcomingIsUnknown, Upcoming, ListenerOf
<1>9. OpenIsOwned'
  BY <1>4, <1>6 DEF OpenIsOwned
<1>10. HeldWhileClosing' /\ SocketWhereClaimed'
  BY <1>2, <1>4, <1>5, <1>6, ListenerTypes DEF HeldWhileClosing, SocketWhereClaimed
<1>11. QED
  BY <1>1, <1>3, <1>7, <1>8, <1>9, <1>10 DEF SequentialInv

LEMMA SettingsUnchangedKeeps ==
  ASSUME SequentialInv, UNCHANGED <<db, mgr, open, watcher, req>>, TypeOK'
  PROVE  SequentialInv'
<1>1. db' = db /\ mgr' = mgr /\ open' = open /\ watcher' = watcher /\ req' = req
  OBVIOUS
<1>2. OneInFlight' /\ SavesWhatItApplied' /\ LoadedIsStored'
  BY <1>1 DEF SequentialInv, OneInFlight, SavesWhatItApplied, LoadedIsStored, InFlight
<1>3. FlagMatchesListener' /\ DetachedUntilPublish' /\ ManagerFollows'
  BY <1>1 DEF SequentialInv, FlagMatchesListener, DetachedUntilPublish,
              ManagerFollows, Follows
<1>4. HeldWhileClosing' /\ PublishedIsNotHeld' /\ OpenIsOwned' /\ SocketWhereClaimed'
  BY <1>1 DEF SequentialInv, HeldWhileClosing, PublishedIsNotHeld, OpenIsOwned,
              SocketWhereClaimed, Target, ListenerOf
<1>5. \A l \in Listeners : Upcoming(l)' => Upcoming(l)
  BY <1>1 DEF Upcoming, ListenerOf
<1>6. UpcomingIsUnknown'
  BY <1>1, <1>5 DEF SequentialInv, UpcomingIsUnknown
<1>7. QED
  BY <1>2, <1>3, <1>4, <1>6 DEF SequentialInv

LEMMA StepSequential ==
  ASSUME Concurrent = FALSE, SequentialInv, [Next]_vars PROVE SequentialInv'
<1>0. TypeOK'
  BY StepTypeOK DEF SequentialInv
<1>1. CASE UNCHANGED vars
  BY <1>0, <1>1, SettingsUnchangedKeeps DEF vars
<1>2. ASSUME NEW r \in Requests, ClientLeaves(r) PROVE SequentialInv'
  BY <1>0, <1>2, SettingsUnchangedKeeps DEF ClientLeaves
<1>3. ASSUME NEW r \in Requests, RequestStep(r) PROVE SequentialInv'
  BY <1>3, CheckKeeps, DetachKeeps, CloseKeeps, DisableKeeps, BindKeeps,
     BindFailsKeeps, PublishKeeps, SaveKeeps, SaveFailsKeeps, RespondKeeps
  DEF RequestStep
<1>4. ASSUME NEW id \in Listeners, WatcherStep(id) PROVE SequentialInv'
  BY <1>4, WatcherStopsKeeps, WatcherClosesKeeps, WatcherEndsKeeps DEF WatcherStep
<1>5. QED
  BY <1>1, <1>2, <1>3, <1>4, PatchKeeps, RestartKeeps DEF Next

LEMMA SequentialInvariant == Concurrent = FALSE /\ Spec => []SequentialInv
<1> SUFFICES ASSUME Concurrent = FALSE PROVE Spec => []SequentialInv
  OBVIOUS
<1>1. SequentialInv /\ [Next]_vars => SequentialInv'
  BY StepSequential
<1>2. QED
  BY <1>1, InitSequential, PTL DEF Spec

-----------------------------------------------------------------------------
(* With settings requests one after the other, no socket is ever out of    *)
(* reach of the code that could close it, whatever watchers of earlier     *)
(* listeners, failed binds, failed saves and restarts do on the way.       *)
THEOREM NoSocketIsLost == Concurrent = FALSE /\ Spec => []OpenIsOwned
<1>1. SequentialInv => OpenIsOwned
  BY DEF SequentialInv
<1>2. QED
  BY <1>1, SequentialInvariant, PTL

(* The manager's flag and its listener agree in every state Status reads.  *)
THEOREM StatusIsRight == Concurrent = FALSE /\ Spec => []FlagMatchesListener
<1>1. SequentialInv => FlagMatchesListener
  BY DEF SequentialInv
<1>2. QED
  BY <1>1, SequentialInvariant, PTL

(* When nothing holds a listener any more, only the manager's is open.     *)
LEMMA QuietOpenIsManagers ==
  ASSUME SequentialInv, Quiet, NEW id \in Listeners, open[id] # NoAddr
  PROVE  mgr.ln = id
<1>1. \A r \in Requests : req[r].held = None /\ req[r].pc # "publish"
  BY DEF SequentialInv, HeldWhileClosing, Quiet, InFlight
<1>2. \A w \in Listeners : watcher[w].held = None
  BY DEF SequentialInv, HeldWhileClosing, Quiet
<1>3. QED
  BY <1>1, <1>2, ListenerTypes DEF SequentialInv, OpenIsOwned

LEMMA QuietFollowsStored == ASSUME SequentialInv, Quiet PROVE Follows(db)
<1>1. \A r \in Requests : req[r].pc \in {"idle", "respond", "done"}
  BY DEF SequentialInv, TypeOK, ReqType, Quiet, InFlight
<1>2. QED
  BY <1>1 DEF SequentialInv, ManagerFollows

(* After the last request and watcher, a stored "disabled" means that      *)
(* every socket is closed.                                                 *)
THEOREM DisabledIsClosed == Concurrent = FALSE /\ Spec => []DisabledMeansClosed
<1>1. SequentialInv => DisabledMeansClosed
  <2> SUFFICES ASSUME SequentialInv, Quiet, ~db.enabled,
                      NEW id \in Listeners, open[id] # NoAddr
               PROVE  FALSE
    BY DEF DisabledMeansClosed
  <2>1. mgr.ln = id /\ id # None
    BY QuietOpenIsManagers, ListenerTypes
  <2>2. QED
    BY <2>1, QuietFollowsStored DEF Follows
<1>2. QED
  BY <1>1, SequentialInvariant, PTL

(* A listener that is up after the last of them listens at the address     *)
(* that is stored, also when that address is not spelled the way the       *)
(* socket reports it.                                                      *)
THEOREM ListensAsStored == Concurrent = FALSE /\ Spec => []ListensWhereConfigured
<1>1. SequentialInv => ListensWhereConfigured
  BY QuietFollowsStored
  DEF ListensWhereConfigured, SequentialInv, SocketWhereClaimed, Follows
<1>2. QED
  BY <1>1, SequentialInvariant, PTL
=============================================================================
