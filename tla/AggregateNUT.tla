---------------------------- MODULE AggregateNUT ----------------------------
(***************************************************************************)
(* The lifecycle of the controller's aggregate NUT listener: Manager.Apply,*)
(* start and stop of controller/internal/aggregatenut/manager.go, the      *)
(* settings handler of the controller that drives them, the settings table *)
(* and the application of the stored settings at start-up.                 *)
(*                                                                         *)
(* Manager.mu guards single reads and writes of the manager's fields, not  *)
(* Apply as a whole, so Apply is one step per critical section and per     *)
(* socket operation. start leaves a watcher goroutine behind that stops    *)
(* the manager when the context it was given ends: the process context at  *)
(* start-up, the context of the HTTP request in the settings handler.      *)
(*                                                                         *)
(* A listener is named by the Apply that opened it. Every address stands   *)
(* for a port of its own; "bound" says that mgr.listen is the text of      *)
(* ln.Addr(), which equals the configured text only for a Canonical one    *)
(* (":3493" comes back as "[::]:3493").                                    *)
(***************************************************************************)
EXTENDS Naturals

CONSTANTS
    Requests,     \* PATCH /api/settings/controller requests
    Addrs,        \* listen addresses an operator may configure
    Canonical,    \* those that ln.Addr().String() returns unchanged
    DefaultAddr,  \* --aggregate-nut-listen
    MainCtx,      \* the process context, given to Apply at start-up
    None,         \* no listener
    NoAddr,       \* a socket that is not open
    Concurrent,   \* two requests may overlap
    Faulty        \* ports taken by others, failing saves, clients that leave

ASSUME ConstantsAssumption ==
    /\ Canonical \subseteq Addrs
    /\ DefaultAddr \in Addrs
    /\ NoAddr \notin Addrs
    /\ MainCtx \notin Requests
    /\ None \notin (Requests \cup {MainCtx}) \X {"apply", "rollback"}
    /\ {Concurrent, Faulty} \subseteq BOOLEAN

VARIABLES
    db,       \* the controller_settings table
    mgr,      \* the Manager's fields
    open,     \* the address each listener's socket is bound to, or NoAddr
    stopped,  \* listeners whose stopCh is closed
    watcher,  \* the watcher goroutine of each listener
    req,      \* the settings requests
    ended     \* requests whose context is done

vars == <<db, mgr, open, stopped, watcher, req, ended>>

-----------------------------------------------------------------------------
Settings == [enabled : BOOLEAN, listen : Addrs]
Patched == [enabled : BOOLEAN, listen : Addrs \cup {NoAddr}]
Boot == <<MainCtx, "apply">>
Listeners == {Boot} \cup (Requests \X {"apply", "rollback"})
MaybeListener == Listeners \cup {None}
InFlight == {"check", "detach", "close", "set", "publish", "save", "respond"}

MgrType == [enabled : BOOLEAN, listen : Addrs, bound : BOOLEAN,
            ln : MaybeListener]
ReqType == [pc : InFlight \cup {"idle", "done"},
            phase : {"apply", "rollback"},
            current : Settings, next : Settings, held : MaybeListener]
WatcherType == [pc : {"none", "waiting", "closing"}, held : MaybeListener]

NoWatcher == [pc |-> "none", held |-> None]
Fresh(s) == [pc |-> "idle", phase |-> "apply", current |-> s, next |-> s,
             held |-> None]

(* What Apply(ctx, settings) makes of a new manager at start-up.           *)
BootMgr(s) == [enabled |-> s.enabled, listen |-> s.listen,
               bound |-> s.enabled, ln |-> IF s.enabled THEN Boot ELSE None]
BootOpen(s) == [id \in Listeners |->
                  IF id = Boot /\ s.enabled THEN s.listen ELSE NoAddr]
BootWatcher(s) == [id \in Listeners |->
                     IF id = Boot /\ s.enabled
                       THEN [NoWatcher EXCEPT !.pc = "waiting"]
                       ELSE NoWatcher]

Init ==
    /\ db \in [enabled : BOOLEAN, listen : {DefaultAddr}]
    /\ mgr = BootMgr(db)
    /\ open = BootOpen(db)
    /\ stopped = {}
    /\ watcher = BootWatcher(db)
    /\ req = [r \in Requests |-> Fresh(db)]
    /\ ended = {}

Target(r) == IF req[r].phase = "apply" THEN req[r].next ELSE req[r].current
ListenerOf(r) == <<r, req[r].phase>>
AppliedPC(r) == IF req[r].phase = "apply" THEN "save" ELSE "respond"
Goto(r, pc) == req' = [req EXCEPT ![r].pc = pc]

(* The checks of the patched settings; a refused patch changes nothing.    *)
Acceptable(next) == next.listen # NoAddr

(* handleControllerSettings loads the stored settings and patches them; a  *)
(* field the patch leaves out keeps its stored value.                      *)
PatchSettings(r, next) ==
    /\ req[r].pc = "idle"
    /\ Acceptable(next)
    /\ Concurrent \/ \A q \in Requests : req[q].pc \notin InFlight
    /\ req' = [req EXCEPT ![r] = [@ EXCEPT !.pc = "check", !.current = db,
                                           !.next = next]]
    /\ UNCHANGED <<db, mgr, open, stopped, watcher, ended>>

(* Mutant: only the enabled flag is compared.                              *)
NeedsRestart_FlagOnly(s) == mgr.enabled # s.enabled

(* The comparison at the top of Apply.                                     *)
NeedsRestart(s) ==
    \/ mgr.enabled # s.enabled
    \/ mgr.listen # s.listen
    \/ mgr.bound /\ s.listen \notin Canonical

(* Mutant: the running listener is not stopped first.                      *)
ApplyCheck_NoStop(r) ==
    /\ req[r].pc = "check"
    /\ Goto(r, IF NeedsRestart(Target(r)) THEN "set" ELSE AppliedPC(r))
    /\ UNCHANGED <<db, mgr, open, stopped, watcher, ended>>

ApplyCheck(r) ==
    /\ req[r].pc = "check"
    /\ Goto(r, IF NeedsRestart(Target(r)) THEN "detach" ELSE AppliedPC(r))
    /\ UNCHANGED <<db, mgr, open, stopped, watcher, ended>>

(* Mutant: stop leaves the enabled flag alone.                             *)
Detached_KeepEnabled == [mgr EXCEPT !.ln = None]

(* The critical section of stop.                                           *)
Detached == [mgr EXCEPT !.ln = None, !.enabled = FALSE]

ApplyDetach(r) ==
    /\ req[r].pc = "detach"
    /\ req' = [req EXCEPT ![r].held = mgr.ln, ![r].pc = "close"]
    /\ mgr' = Detached
    /\ UNCHANGED <<db, open, stopped, watcher, ended>>

(* Mutant: stop closes stopCh but not the socket.                          *)
CloseListener_SignalOnly(id) ==
    /\ open' = open
    /\ stopped' = stopped \cup ({id} \ {None})

(* stop closes stopCh and the socket it detached, if any.                  *)
CloseListener(id) ==
    /\ open' = [l \in Listeners |-> IF l = id THEN NoAddr ELSE open[l]]
    /\ stopped' = stopped \cup ({id} \ {None})

ApplyClose(r) ==
    /\ req[r].pc = "close"
    /\ CloseListener(req[r].held)
    /\ req' = [req EXCEPT ![r].held = None, ![r].pc = "set"]
    /\ UNCHANGED <<db, mgr, watcher, ended>>

ApplyDisable(r) ==
    /\ req[r].pc = "set"
    /\ ~Target(r).enabled
    /\ mgr' = [mgr EXCEPT !.enabled = FALSE, !.listen = Target(r).listen,
                          !.bound = FALSE]
    /\ Goto(r, AppliedPC(r))
    /\ UNCHANGED <<db, open, stopped, watcher, ended>>

(* net.Listen. A failure is answered 502 (or dropped, in a rollback).      *)
PortFree(a) == \A l \in Listeners : open[l] # a

ApplyBind(r) ==
    /\ req[r].pc = "set"
    /\ Target(r).enabled
    /\ PortFree(Target(r).listen)
    /\ open' = [open EXCEPT ![ListenerOf(r)] = Target(r).listen]
    /\ Goto(r, "publish")
    /\ UNCHANGED <<db, mgr, stopped, watcher, ended>>

ApplyBindFails(r) ==
    /\ req[r].pc = "set"
    /\ Target(r).enabled
    /\ Faulty \/ ~PortFree(Target(r).listen)
    /\ Goto(r, "respond")
    /\ UNCHANGED <<db, mgr, open, stopped, watcher, ended>>

(* The critical section of start, and the watcher it starts.               *)
ApplyPublish(r) ==
    /\ req[r].pc = "publish"
    /\ mgr' = [enabled |-> TRUE, listen |-> Target(r).listen,
               bound |-> TRUE, ln |-> ListenerOf(r)]
    /\ watcher' = [watcher EXCEPT ![ListenerOf(r)].pc = "waiting"]
    /\ Goto(r, AppliedPC(r))
    /\ UNCHANGED <<db, open, stopped, ended>>

SaveSettings(r) ==
    /\ req[r].pc = "save"
    /\ r \notin ended
    /\ db' = req[r].next
    /\ Goto(r, "respond")
    /\ UNCHANGED <<mgr, open, stopped, watcher, ended>>

(* A failed save is followed by Apply(current) and 500.                    *)
SaveFails(r) ==
    /\ req[r].pc = "save"
    /\ Faulty
    /\ req' = [req EXCEPT ![r] = [@ EXCEPT !.phase = "rollback",
                                           !.pc = "check"]]
    /\ UNCHANGED <<db, mgr, open, stopped, watcher, ended>>

(* net/http cancels the request's context when its handler has returned,   *)
Respond(r) ==
    /\ req[r].pc = "respond"
    /\ Goto(r, "done")
    /\ ended' = ended \cup {r}
    /\ UNCHANGED <<db, mgr, open, stopped, watcher>>

(* or earlier, when the client closes its connection.                      *)
ClientLeaves(r) ==
    /\ Faulty
    /\ req[r].pc \in InFlight
    /\ r \notin ended
    /\ ended' = ended \cup {r}
    /\ UNCHANGED <<db, mgr, open, stopped, watcher, req>>

-----------------------------------------------------------------------------
(* The watcher goroutines of start.                                        *)

ContextDone(id) == id[1] \in ended

(* The context is done: stop, on whatever listener the manager has now.    *)
WatcherStops(id) ==
    /\ watcher[id].pc = "waiting"
    /\ ContextDone(id)
    /\ watcher' = [watcher EXCEPT ![id] = [pc |-> "closing",
                                           held |-> mgr.ln]]
    /\ mgr' = Detached
    /\ UNCHANGED <<db, open, stopped, req, ended>>

WatcherCloses(id) ==
    /\ watcher[id].pc = "closing"
    /\ CloseListener(watcher[id].held)
    /\ watcher' = [watcher EXCEPT ![id] = NoWatcher]
    /\ UNCHANGED <<db, mgr, req, ended>>

(* stopCh is closed; with both channels ready select picks either.         *)
WatcherEnds(id) ==
    /\ watcher[id].pc = "waiting"
    /\ id \in stopped
    /\ watcher' = [watcher EXCEPT ![id] = NoWatcher]
    /\ UNCHANGED <<db, mgr, open, stopped, req, ended>>

(* The controller process ends and starts again from the settings table.   *)
Restart ==
    /\ Faulty
    /\ mgr' = BootMgr(db)
    /\ open' = BootOpen(db)
    /\ stopped' = {}
    /\ watcher' = BootWatcher(db)
    /\ req' = [r \in Requests |->
                 IF req[r].pc = "idle" THEN req[r]
                 ELSE [Fresh(db) EXCEPT !.pc = "done"]]
    /\ ended' = {r \in Requests : req[r].pc # "idle"}
    /\ UNCHANGED db

RequestStep(r) ==
    \/ ApplyCheck(r) \/ ApplyDetach(r) \/ ApplyClose(r)
    \/ ApplyDisable(r) \/ ApplyBind(r) \/ ApplyBindFails(r)
    \/ ApplyPublish(r)
    \/ SaveSettings(r) \/ SaveFails(r) \/ Respond(r)

WatcherStep(id) == WatcherStops(id) \/ WatcherCloses(id) \/ WatcherEnds(id)

Next ==
    \/ \E r \in Requests :
         \/ \E next \in Patched : PatchSettings(r, next)
         \/ RequestStep(r)
         \/ ClientLeaves(r)
    \/ \E id \in Listeners : WatcherStep(id)
    \/ Restart

Spec == Init /\ [][Next]_vars

-----------------------------------------------------------------------------
(* No request is in flight and no watcher has anything to do.              *)
Quiet ==
    /\ \A r \in Requests : req[r].pc \notin InFlight
    /\ \A id \in Listeners :
         /\ watcher[id].pc # "closing"
         /\ watcher[id].pc = "waiting" =>
              ~ContextDone(id) /\ id \notin stopped

(* Every variable holds a value its code type allows.                      *)
TypeOK ==
    /\ db \in Settings
    /\ mgr \in MgrType
    /\ open \in [Listeners -> Addrs \cup {NoAddr}]
    /\ stopped \subseteq Listeners
    /\ watcher \in [Listeners -> WatcherType]
    /\ req \in [Requests -> ReqType]
    /\ ended \subseteq Requests

(* When everything has settled and the stored setting says disabled, no    *)
(* socket accepts NUT clients, whichever save, bind or client failed on    *)
(* the way.                                                                *)
DisabledMeansClosed ==
    (Quiet /\ ~db.enabled) => \A id \in Listeners : open[id] = NoAddr

(* Every open socket can still be closed: the manager knows it, a stop in  *)
(* progress holds it, or the request that bound it is about to publish it. *)
OpenIsOwned ==
    \A id \in Listeners :
      open[id] # NoAddr =>
        \/ mgr.ln = id
        \/ \E w \in Listeners : watcher[w].held = id
        \/ \E r \in Requests :
             \/ req[r].held = id
             \/ req[r].pc = "publish" /\ ListenerOf(r) = id

(* Status never reports an enabled manager without a listener or the other *)
(* way round.                                                              *)
FlagMatchesListener == mgr.enabled <=> mgr.ln # None

(* A listener that is up with the stored setting enabled listens where the *)
(* setting says.                                                           *)
ListensWhereConfigured ==
    (Quiet /\ db.enabled /\ mgr.ln # None) => open[mgr.ln] = db.listen

(* When everything has settled the listener runs iff the stored setting    *)
(* says so.                                                                *)
RunningAsConfigured == Quiet => (db.enabled <=> mgr.ln # None)
=============================================================================
