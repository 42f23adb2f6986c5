--------------------------- MODULE NodeDashboard ---------------------------
(***************************************************************************)
(* The UPS part of the node's dashboard page                               *)
(* (agent/internal/api/web/app.js): the grid, the detail pane with its     *)
(* commands and writable settings, the two dialogs that act on a UPS, and  *)
(* the calls to the node's API behind them.                                *)
(*                                                                         *)
(* The page is single-threaded, but every await gives the other handlers,  *)
(* the user and the event stream a chance to run. A call is therefore a    *)
(* record in calls: it is sent, the node answers it, and later the page    *)
(* continues after the await. Answers come in any order. What the page     *)
(* shows is modelled next to the state object, because handlers read both: *)
(* pane is what renderDetail drew, inputs the values in its controls.      *)
(*                                                                         *)
(* A UPS is a number, the list is in ascending order. Telemetry is one     *)
(* value per UPS; all UPSes have the same writable variables. A dialog     *)
(* covers the page while it is open. Toasts and layout are left out.       *)
(***************************************************************************)
EXTENDS Naturals

CONSTANTS
    Devices,      \* UPSes that may be attached, numbered in list order
    Vars,         \* writable variables of a UPS
    Values,       \* values of a variable, and of the telemetry
    Initial,      \* the value everything has at the start
    Calls,        \* slots for calls in flight; bounds their number
    NoUPS,        \* null for a UPS
    NoVar,        \* no variable
    NoDetail,     \* null for a detail
    NoCall,       \* null for a call
    MaxActs,      \* bound on what the user and the devices do
    Environments  \* what the surroundings may do, see EnvType

(* An environment: whether the browser has EventSource, devices come and   *)
(* go, the user acts while a call is in flight, the node refuses calls.    *)
EnvType == [sse : BOOLEAN, unplug : BOOLEAN, overlap : BOOLEAN, fail : BOOLEAN]

ASSUME ConstantsAssumption ==
    /\ Devices \subseteq Nat
    /\ NoUPS \notin Devices /\ NoVar \notin Vars /\ NoCall \notin Calls
    /\ Initial \in Values
    /\ MaxActs \in Nat
    /\ Environments \subseteq EnvType
    /\ NoDetail \notin [name : Devices, vars : [Vars -> Values], live : Values]

VARIABLES
    node,            \* the node: attached UPSes, their variables and telemetry
    upses,           \* state.upses, the names in the grid
    selectedUPS,     \* state.selectedUPS
    detail,          \* state.detail
    dirtyVariables,  \* state.dirtyVariables
    pane,            \* the detail that is drawn, NoDetail for the empty pane
    inputs,          \* the values of the drawn setting controls
    applyEnabled,    \* the Apply button can be pressed
    dialog,          \* the open dialog and the UPS its text names
    saving,          \* the Save button of the metadata dialog is disabled
    calls,           \* API calls in flight
    lastLoad,        \* history: the newest loadUPSDetail while unanswered
    overtaken,       \* history: an older load was answered after the newest
    misdirected,     \* history: what was sent to a UPS the user did not mean
    acts,            \* what the user and the devices may still do
    env              \* the environment, fixed in a behaviour

state == <<upses, selectedUPS, detail, dirtyVariables>>
dom == <<pane, inputs, applyEnabled>>
hist == <<lastLoad, overtaken>>
vars == <<node, state, dom, dialog, saving, calls, hist, misdirected, acts, env>>

-----------------------------------------------------------------------------
Details == [name : Devices, vars : [Vars -> Values], live : Values]
MaybeDetail == Details \cup {NoDetail}
MaybeUPS == Devices \cup {NoUPS}

(* fn is the function that awaits; after tells what loadUPSDetail was      *)
(* called from, left the variables an apply still has to send.             *)
CallType == [fn : {"idle", "refresh", "load", "command", "apply", "save"},
             ups : MaybeUPS, var : Vars \cup {NoVar}, value : Values,
             left : SUBSET Vars, answered : BOOLEAN, ok : BOOLEAN,
             answer : MaybeDetail, list : SUBSET Devices,
             after : {"page", "apply", "save"}]

Idle == [fn |-> "idle", ups |-> NoUPS, var |-> NoVar, value |-> Initial,
         left |-> {}, answered |-> FALSE, ok |-> FALSE, answer |-> NoDetail,
         list |-> {}, after |-> "page"]

NoDialog == [kind |-> "none", ups |-> NoUPS]
Blank == [v \in Vars |-> Initial]

(* upses[0].                                                               *)
First(S) == CHOOSE d \in S : \A e \in S : d <= e
AllIdle == \A c \in Calls : calls[c] = Idle
Pending(c, fn) == calls[c].fn = fn /\ calls[c].answered

(* A page that has just been loaded. Without EventSource it begins with    *)
(* refreshAll, otherwise it waits for the first health event.              *)
Init ==
    /\ env \in Environments
    /\ node \in [attached : SUBSET Devices,
                 vars : {[d \in Devices |-> Blank]},
                 live : {[d \in Devices |-> Initial]}]
    /\ upses = {} /\ selectedUPS = NoUPS /\ detail = NoDetail
    /\ dirtyVariables = {}
    /\ pane = NoDetail /\ inputs = Blank /\ applyEnabled = FALSE
    /\ dialog = NoDialog /\ saving = FALSE
    /\ IF env.sse
       THEN calls = [c \in Calls |-> Idle]
       ELSE \E c \in Calls :
              calls = [x \in Calls |->
                         IF x = c THEN [Idle EXCEPT !.fn = "refresh"] ELSE Idle]
    /\ lastLoad = NoCall /\ overtaken = FALSE
    /\ misdirected = {}
    /\ acts = MaxActs

-----------------------------------------------------------------------------
(* Rendering.                                                              *)

(* The controls hold the values of the detail, and Apply is disabled.       *)
renderWritable(d) ==
    /\ inputs' = d.vars
    /\ applyEnabled' = FALSE

(* Mutant: the edits are kept.                                             *)
renderDetail_KeepDirty(d) ==
    /\ UNCHANGED dirtyVariables
    /\ pane' = d
    /\ renderWritable(d)

(* renderDetail forgets the edits and draws the controls anew.             *)
renderDetail(d) ==
    /\ dirtyVariables' = {}
    /\ pane' = d
    /\ renderWritable(d)

renderEmptyDetail ==
    /\ pane' = NoDetail
    /\ inputs' = Blank
    /\ applyEnabled' = FALSE

-----------------------------------------------------------------------------
(* Loading. The selection changes before the request is sent, the pane     *)
(* when it is answered.                                                    *)

(* loadUPSDetail up to its await.                                          *)
loadUPSDetail(c, name, after) ==
    /\ selectedUPS' = name
    /\ calls' = [calls EXCEPT ![c] = [Idle EXCEPT !.fn = "load", !.ups = name,
                                                  !.after = after]]
    /\ lastLoad' = c
    /\ UNCHANGED overtaken

Return(c) == calls' = [calls EXCEPT ![c] = Idle]

(* Mutant: a failed load leaves the pane as it was.                        *)
LoadAnswered_KeepPane(c) ==
    /\ Pending(c, "load")
    /\ IF calls[c].ok
       THEN detail' = calls[c].answer /\ renderDetail(calls[c].answer)
       ELSE UNCHANGED <<dom, detail, dirtyVariables>>
    /\ overtaken' = (calls[c].ok /\ c # lastLoad /\ (lastLoad = NoCall \/ overtaken))
    /\ lastLoad' = IF c = lastLoad THEN NoCall ELSE lastLoad
    /\ saving' = (saving /\ calls[c].after # "save")
    /\ Return(c)
    /\ UNCHANGED <<node, upses, selectedUPS, dialog, misdirected, acts, env>>

(* The rest of loadUPSDetail; saveUPSMetadata goes on after it.            *)
LoadAnswered(c) ==
    /\ Pending(c, "load")
    /\ IF calls[c].ok
       THEN detail' = calls[c].answer /\ renderDetail(calls[c].answer)
       ELSE renderEmptyDetail /\ UNCHANGED <<detail, dirtyVariables>>
    /\ overtaken' = (calls[c].ok /\ c # lastLoad /\ (lastLoad = NoCall \/ overtaken))
    /\ lastLoad' = IF c = lastLoad THEN NoCall ELSE lastLoad
    /\ saving' = (saving /\ calls[c].after # "save")
    /\ Return(c)
    /\ UNCHANGED <<node, upses, selectedUPS, dialog, misdirected, acts, env>>

(* The one-shot load of a browser without EventSource.                     *)
RefreshAnswered(c) ==
    /\ Pending(c, "refresh")
    /\ LET list == calls[c].list
           kept == IF selectedUPS \in list THEN selectedUPS
                   ELSE IF list = {} THEN NoUPS ELSE First(list)
       IN IF ~calls[c].ok
          THEN /\ Return(c)
               /\ UNCHANGED <<upses, selectedUPS, hist, dom>>
          ELSE /\ upses' = list
               /\ IF kept = NoUPS
                  THEN /\ selectedUPS' = NoUPS
                       /\ Return(c)
                       /\ renderEmptyDetail
                       /\ UNCHANGED hist
                  ELSE loadUPSDetail(c, kept, "page") /\ UNCHANGED dom
    /\ UNCHANGED <<node, detail, dirtyVariables, dialog, saving, misdirected,
                   acts, env>>

-----------------------------------------------------------------------------
(* A health event. updateLiveUPSData redraws the grid; for the selected    *)
(* UPS it patches the telemetry that is shown, and a selected UPS that is  *)
(* gone is replaced by the first of the list.                              *)

(* Mutant: the detail object is patched, the page is not.                  *)
updateDetailMetrics_NoDom ==
    IF detail # NoDetail /\ detail.name = selectedUPS
    THEN /\ detail' = [detail EXCEPT !.live = node.live[selectedUPS]]
         /\ UNCHANGED pane
    ELSE UNCHANGED <<detail, pane>>

(* The telemetry of the event goes into the detail and onto the pane.      *)
updateDetailMetrics ==
    IF detail # NoDetail /\ detail.name = selectedUPS
    THEN LET patched == [detail EXCEPT !.live = node.live[selectedUPS]]
         IN /\ detail' = patched
            /\ pane' = IF pane = NoDetail THEN pane
                       ELSE [pane EXCEPT !.live = node.live[selectedUPS]]
    ELSE UNCHANGED <<detail, pane>>

(* Mutant: a selected UPS that is gone stays selected.                     *)
updateLiveUPSData_NoReselect ==
    IF selectedUPS # NoUPS
    THEN /\ IF selectedUPS \in node.attached THEN updateDetailMetrics
            ELSE UNCHANGED <<detail, pane>>
         /\ UNCHANGED <<selectedUPS, dirtyVariables, inputs, applyEnabled, calls,
                        hist>>
    ELSE /\ node.attached # {}
         /\ \E c \in Calls : calls[c] = Idle
              /\ loadUPSDetail(c, First(node.attached), "page")
         /\ UNCHANGED <<detail, dirtyVariables, dom>>

(* What the list of the event means for the selection.                     *)
updateLiveUPSData ==
    IF selectedUPS \in node.attached
    THEN /\ updateDetailMetrics
         /\ UNCHANGED <<selectedUPS, dirtyVariables, inputs, applyEnabled, calls,
                        hist>>
    ELSE IF node.attached = {}
    THEN /\ selectedUPS' = NoUPS /\ detail' = NoDetail
         /\ renderEmptyDetail
         /\ UNCHANGED <<dirtyVariables, calls, hist>>
    ELSE /\ \E c \in Calls : calls[c] = Idle
              /\ loadUPSDetail(c, First(node.attached), "page")
         /\ UNCHANGED <<detail, dirtyVariables, dom>>

HealthEvent ==
    /\ env.sse
    /\ upses' = node.attached
    /\ updateLiveUPSData
    /\ UNCHANGED <<node, dialog, saving, misdirected, acts, env>>

-----------------------------------------------------------------------------
(* The user. A click needs an uncovered page, and in environments without  *)
(* overlap the user waits until nothing is in flight.                      *)
UserActs ==
    /\ acts > 0 /\ acts' = acts - 1
    /\ env.overlap \/ AllIdle
OnPage == UserActs /\ dialog = NoDialog

(* A card of the grid. With unapplied edits another UPS is loaded only if  *)
(* the user agrees to discard them; otherwise nothing happens.             *)
Select(d, c) ==
    /\ OnPage
    /\ d \in upses
    /\ calls[c] = Idle
    /\ loadUPSDetail(c, d, "page")
    /\ UNCHANGED <<node, upses, detail, dirtyVariables, dom, dialog, saving,
                   misdirected, env>>

(* A setting control is changed; a value put back is not dirty any more.   *)
handleVariableInputChange(v, value) ==
    /\ OnPage
    /\ pane # NoDetail
    /\ inputs' = [inputs EXCEPT ![v] = value]
    /\ dirtyVariables' = IF value # pane.vars[v] THEN dirtyVariables \cup {v}
                         ELSE dirtyVariables \ {v}
    /\ applyEnabled' = (dirtyVariables' # {})
    /\ UNCHANGED <<node, upses, selectedUPS, detail, pane, dialog, saving, calls,
                   hist, misdirected, env>>

(* What is sent to another UPS than the one the user had in front of them. *)
Sends(kind, meant) ==
    misdirected' = IF selectedUPS \in {meant, NoUPS} THEN misdirected
                   ELSE misdirected \cup {kind}

(* runCommand sends to the UPS that is selected when it starts.            *)
runCommand(c, kind, meant) ==
    IF selectedUPS = NoUPS
    THEN UNCHANGED <<calls, misdirected>>
    ELSE /\ calls[c] = Idle
         /\ calls' = [calls EXCEPT ![c] = [Idle EXCEPT !.fn = "command",
                                                       !.ups = selectedUPS]]
         /\ Sends(kind, meant)

(* A command that is not destructive runs at once. The button belongs to   *)
(* the pane that is drawn.                                                 *)
PressRun(c) ==
    /\ OnPage
    /\ pane # NoDetail
    /\ runCommand(c, "command", pane.name)
    /\ UNCHANGED <<node, upses, selectedUPS, detail, dirtyVariables, dom, dialog,
                   saving, hist, env>>

(* Mutant: the dialog names the UPS whose command was pressed.             *)
openConfirmModal_NamesPane ==
    /\ OnPage
    /\ pane # NoDetail
    /\ dialog' = [kind |-> "confirm", ups |-> pane.name]
    /\ UNCHANGED <<node, state, dom, saving, calls, hist, misdirected, env>>

(* A destructive one asks first, naming the selected UPS.                  *)
openConfirmModal ==
    /\ OnPage
    /\ pane # NoDetail
    /\ dialog' = [kind |-> "confirm", ups |-> selectedUPS]
    /\ UNCHANGED <<node, state, dom, saving, calls, hist, misdirected, env>>

(* Confirming closes the dialog, then runs the command.                    *)
ConfirmSubmit(c) ==
    /\ UserActs
    /\ dialog.kind = "confirm"
    /\ dialog' = NoDialog
    /\ runCommand(c, "confirmed", dialog.ups)
    /\ UNCHANGED <<node, state, dom, saving, hist, env>>

(* Cancel, a click beside the dialog.                                      *)
CloseDialog ==
    /\ UserActs
    /\ dialog # NoDialog
    /\ dialog' = NoDialog
    /\ UNCHANGED <<node, state, dom, saving, calls, hist, misdirected, env>>

(* A command that worked is followed by a reload of the selected UPS.      *)
CommandAnswered(c) ==
    /\ Pending(c, "command")
    /\ IF calls[c].ok
       THEN loadUPSDetail(c, selectedUPS, "page")
       ELSE Return(c) /\ UNCHANGED <<selectedUPS, hist>>
    /\ UNCHANGED <<node, upses, detail, dirtyVariables, dom, dialog, saving,
                   misdirected, acts, env>>

-----------------------------------------------------------------------------
(* Applying settings, one request per variable. Between two of them the    *)
(* page may have been drawn anew: the value is read from the control that  *)
(* is there now, the request goes to the UPS that is selected now.         *)
setWritableVariable(c, v, left, dirty) ==
    /\ calls' = [calls EXCEPT ![c] =
                   [Idle EXCEPT !.fn = "apply", !.ups = selectedUPS, !.var = v,
                                !.value = inputs[v], !.left = left \ {v}]]
    /\ Sends("setting", pane.name)
    /\ dirtyVariables' = dirty
    /\ UNCHANGED <<selectedUPS, hist>>

(* The loop. Without a detail the function throws and the reload is        *)
(* skipped; without controls the remaining variables are passed over.      *)
applyNext(c, left, dirty) ==
    \/ /\ left # {} /\ detail # NoDetail /\ pane # NoDetail
       /\ \E v \in left : setWritableVariable(c, v, left, dirty)
    \/ /\ left # {} /\ detail = NoDetail
       /\ Return(c)
       /\ dirtyVariables' = dirty
       /\ UNCHANGED <<selectedUPS, hist, misdirected>>
    \/ /\ left = {} \/ (detail # NoDetail /\ pane = NoDetail)
       /\ dirtyVariables' = dirty \ left
       /\ loadUPSDetail(c, selectedUPS, "apply")
       /\ UNCHANGED misdirected

applyDirtyVariables(c) ==
    /\ OnPage
    /\ pane # NoDetail /\ applyEnabled
    /\ selectedUPS # NoUPS /\ detail # NoDetail /\ dirtyVariables # {}
    /\ calls[c] = Idle
    /\ applyEnabled' = FALSE
    /\ applyNext(c, dirtyVariables, dirtyVariables)
    /\ UNCHANGED <<node, upses, detail, pane, inputs, dialog, saving, env>>

(* A variable that was refused stays dirty until the reload.               *)
ApplyAnswered(c) ==
    /\ Pending(c, "apply")
    /\ applyNext(c, calls[c].left,
                 IF calls[c].ok THEN dirtyVariables \ {calls[c].var}
                 ELSE dirtyVariables)
    /\ UNCHANGED <<node, upses, detail, dom, dialog, saving, acts, env>>

-----------------------------------------------------------------------------
(* The dialog for display name and tags names the UPS that is drawn; what  *)
(* it holds is saved for the UPS that is selected.                         *)
openUPSMetadataModal ==
    /\ OnPage
    /\ pane # NoDetail
    /\ dialog' = [kind |-> "metadata", ups |-> pane.name]
    /\ UNCHANGED <<node, state, dom, saving, calls, hist, misdirected, env>>

saveUPSMetadata(c) ==
    /\ UserActs
    /\ dialog.kind = "metadata" /\ ~saving
    /\ selectedUPS # NoUPS /\ detail # NoDetail
    /\ calls[c] = Idle
    /\ saving' = TRUE
    /\ calls' = [calls EXCEPT ![c] = [Idle EXCEPT !.fn = "save",
                                                  !.ups = selectedUPS]]
    /\ Sends("metadata", dialog.ups)
    /\ UNCHANGED <<node, state, dom, dialog, hist, env>>

SaveAnswered(c) ==
    /\ Pending(c, "save")
    /\ IF calls[c].ok
       THEN /\ dialog' = IF dialog.kind = "metadata" THEN NoDialog ELSE dialog
            /\ loadUPSDetail(c, selectedUPS, "save")
            /\ UNCHANGED saving
       ELSE /\ Return(c)
            /\ saving' = FALSE
            /\ UNCHANGED <<dialog, selectedUPS, hist>>
    /\ UNCHANGED <<node, upses, detail, dirtyVariables, dom, misdirected, acts, env>>

-----------------------------------------------------------------------------
(* The node answers a call with what it has at that moment. A call about a *)
(* UPS that is not attached is refused.                                    *)
NodeAnswers(c) ==
    /\ calls[c].fn # "idle" /\ ~calls[c].answered
    /\ LET call == calls[c]
           u == call.ups
           known == call.fn = "refresh" \/ u \in node.attached
       IN \E ok \in IF env.fail THEN {known, FALSE} ELSE {known} :
            /\ calls' = [calls EXCEPT
                 ![c].answered = TRUE,
                 ![c].ok = ok,
                 ![c].list = IF ok /\ call.fn = "refresh" THEN node.attached ELSE {},
                 ![c].answer = IF ok /\ call.fn = "load"
                               THEN [name |-> u, vars |-> node.vars[u],
                                     live |-> node.live[u]]
                               ELSE NoDetail]
            /\ node' = IF ok /\ call.fn = "apply"
                       THEN [node EXCEPT !.vars[u][call.var] = call.value]
                       ELSE node
    /\ UNCHANGED <<state, dom, dialog, saving, hist, misdirected, acts, env>>

(* The devices: a UPS comes or goes, its telemetry changes.                *)
PlugOrUnplug(d) ==
    /\ env.unplug /\ acts > 0 /\ acts' = acts - 1
    /\ node' = [node EXCEPT !.attached = IF d \in @ THEN @ \ {d} ELSE @ \cup {d}]
    /\ UNCHANGED <<state, dom, dialog, saving, calls, hist, misdirected, env>>

TelemetryChanges(d, value) ==
    /\ acts > 0 /\ acts' = acts - 1
    /\ d \in node.attached /\ node.live[d] # value
    /\ node' = [node EXCEPT !.live[d] = value]
    /\ UNCHANGED <<state, dom, dialog, saving, calls, hist, misdirected, env>>

-----------------------------------------------------------------------------
Answered(c) ==
    \/ LoadAnswered(c)
    \/ RefreshAnswered(c)
    \/ CommandAnswered(c)
    \/ ApplyAnswered(c)
    \/ SaveAnswered(c)

Next ==
    \/ HealthEvent
    \/ \E c \in Calls :
         \/ NodeAnswers(c)
         \/ Answered(c)
         \/ \E d \in Devices : Select(d, c)
         \/ PressRun(c)
         \/ ConfirmSubmit(c)
         \/ applyDirtyVariables(c)
         \/ saveUPSMetadata(c)
    \/ \E v \in Vars, value \in Values : handleVariableInputChange(v, value)
    \/ openConfirmModal
    \/ openUPSMetadataModal
    \/ CloseDialog
    \/ \E d \in Devices : PlugOrUnplug(d) \/ \E x \in Values : TelemetryChanges(d, x)

Spec == Init /\ [][Next]_vars

(* The node answers, the page goes on after its awaits, and events keep    *)
(* arriving on a stream. Nothing is assumed of the user or the devices.    *)
Fairness ==
    /\ WF_vars(HealthEvent)
    /\ \A c \in Calls : WF_vars(NodeAnswers(c)) /\ WF_vars(Answered(c))

FairSpec == Spec /\ Fairness

-----------------------------------------------------------------------------
(* The types of the variables.                                             *)
TypeOK ==
    /\ node \in [attached : SUBSET Devices, vars : [Devices -> [Vars -> Values]],
                 live : [Devices -> Values]]
    /\ upses \in SUBSET Devices /\ selectedUPS \in MaybeUPS
    /\ detail \in MaybeDetail /\ pane \in MaybeDetail
    /\ dirtyVariables \in SUBSET Vars /\ inputs \in [Vars -> Values]
    /\ applyEnabled \in BOOLEAN /\ saving \in BOOLEAN
    /\ dialog \in [kind : {"none", "confirm", "metadata"}, ups : MaybeUPS]
    /\ calls \in [Calls -> CallType]
    /\ lastLoad \in Calls \cup {NoCall} /\ overtaken \in BOOLEAN
    /\ misdirected \in SUBSET {"command", "confirmed", "setting", "metadata"}
    /\ acts \in 0..MaxActs /\ env \in EnvType

(* state.dirtyVariables guards the edits: the prompts before another card  *)
(* is loaded and before the page is left ask only if it is not empty. As   *)
(* long as no apply is at work it holds exactly the controls that differ   *)
(* from the values they were drawn with, whatever was drawn in between.    *)
DirtyMatchesInputs ==
    (pane # NoDetail /\ \A c \in Calls : calls[c].fn # "apply" /\ calls[c].after # "apply")
      => dirtyVariables = {v \in Vars : inputs[v] # pane.vars[v]}

(* Once the newest loadUPSDetail has been answered, and unless an older    *)
(* one was answered after it, the pane shows the UPS that the grid marks   *)
(* as selected, and to which commands and settings are sent; failed calls, *)
(* unplugged UPSes and reloads after commands do not change that.          *)
ShownIsSelected ==
    (lastLoad = NoCall /\ ~overtaken /\ pane # NoDetail)
      => selectedUPS \in {pane.name, NoUPS}

(* Commands, settings and metadata go to the UPS that the pane or the      *)
(* dialog named. A confirmed command can miss it only if a UPS was         *)
(* unplugged, because a dialog keeps the user from selecting another; the  *)
(* others also if the user acted while a call was in flight.               *)
NamedIsTarget ==
    /\ "confirmed" \in misdirected => env.unplug
    /\ misdirected # {} => env.unplug \/ env.overlap

(* However the UPSes came and went, the page ends up with one of those     *)
(* that are attached selected, and with none and an empty pane if there is *)
(* none.                                                                   *)
SelectionRecovers ==
    env.sse => \A S \in SUBSET Devices :
      <>[](node.attached = S)
        => <>[](IF S = {} THEN selectedUPS = NoUPS /\ pane = NoDetail
                ELSE selectedUPS \in S)

(* Telemetry on the pane catches up with the node once the pane shows the  *)
(* selected UPS, even if a late answer had put an older value there.       *)
LiveValuesCatchUp ==
    \A d \in Devices, x \in Values :
      <>[](env.sse /\ d \in node.attached /\ node.live[d] = x /\ selectedUPS = d
           /\ pane # NoDetail /\ pane.name = d)
        => <>[](pane # NoDetail => pane.live = x)
=============================================================================
