---------------------------- MODULE FleetDialogs ----------------------------
(***************************************************************************)
(* The dialogs of the controller's fleet page                              *)
(* (controller/web/src/pages/FleetPage.tsx): the node dialog, the UPS      *)
(* dialog with its metadata editor, the confirmation App asks for, and the *)
(* browser's history, which decides what is open: the dialogs follow the   *)
(* page's search parameters, opening one pushes an entry, closing one goes *)
(* a step back.                                                            *)
(*                                                                         *)
(* A call is sent, answered by the controller, and then the function that  *)
(* awaits it goes on with the variables of the render it began in (its     *)
(* closure). Loads are guarded against a dialog that has moved on, writes  *)
(* are not. A dialog, an editor and a confirmation cover what is below.    *)
(*                                                                         *)
(* A node's record is its id and one value; the pair of node and UPS name  *)
(* that identifies a UPS is one value, and so is its metadata. Entry 1 of  *)
(* the history is outside the application: going there ends the page. The  *)
(* grid of cards is in ControllerPages.                                    *)
(***************************************************************************)
EXTENDS Integers, Sequences, FiniteSets

CONSTANTS
    Nodes,        \* nodes of the fleet
    UPSes,        \* UPSes of the fleet
    None,         \* no node, no UPS, no record
    MaxCalls,     \* bound on the calls in flight; a link may start two at once
    MaxActs,      \* bound on what the user does
    Environments  \* what the surroundings may do, see EnvType

(* An environment: whether the page was entered by a link to a dialog,     *)
(* whether the user moves on while an editor or a confirmation is open or  *)
(* a write is pending, and whether calls fail until the user rests.        *)
EnvType == [deepLink : BOOLEAN, wander : BOOLEAN, fail : BOOLEAN]

ASSUME ConstantsAssumption ==
    /\ None \notin Nodes \cup UPSes
    /\ MaxCalls \in Nat \ {0, 1} /\ MaxActs \in Nat
    /\ Environments \subseteq EnvType

VARIABLES
    known,         \* the controller: nodes it has a record of
    stored,        \* the controller: value of each node and each UPS
    history,       \* entries of the browser's history
    pos,           \* the current one
    nodeDialog,    \* state of NodeDetailDialog
    upsDialog,     \* state of UPSDetailDialog
    editor,        \* its metadata editor
    confirm,       \* the question App shows, and the closure that awaits it
    calls,         \* calls in flight
    misdirected,   \* history: what was sent to a UPS that was not shown
    leftByClose,   \* history: closing a dialog left the application
    acts,          \* what the user may still do
    env            \* the environment, fixed in a behaviour

server == <<known, stored>>
browser == <<history, pos>>
dialogs == <<nodeDialog, upsDialog>>
vars == <<server, browser, dialogs, editor, confirm, calls, misdirected, leftByClose,
          acts, env>>

-----------------------------------------------------------------------------
Value == {0, 1}
Other(v) == 1 - v
Things == Nodes \cup UPSes
Entry == [node : Nodes \cup {None}, ups : UPSes \cup {None}]
Record == [id : Things, value : Value]
Dialog == [rec : Record \cup {None}, error : BOOLEAN]
Closed == [rec |-> None, error |-> FALSE]
NoEditor == [open |-> FALSE, from |-> None, value |-> 0, saving |-> FALSE]
NoConfirm == [kind |-> "none", id |-> None, value |-> 0]

Here == history[pos]
Plain == [node |-> None, ups |-> None]

(* fn names what is awaited, id the node or UPS it is about.               *)
CallType == [slot : 1..MaxCalls,
             fn : {"node", "ups", "patch", "forget", "command", "reload", "metadata"},
             id : Things, value : Value, silent : BOOLEAN,
             answered : BOOLEAN, ok : BOOLEAN]

Writes == {"patch", "forget", "command", "reload", "metadata"}
Writing == \E c \in calls : c.fn \in Writes
FreeSlot(cs) == CHOOSE s \in 1..MaxCalls : \A c \in cs : c.slot # s
Send(cs, fn, id, value, silent) ==
    cs \cup {[slot |-> FreeSlot(cs), fn |-> fn, id |-> id, value |-> value,
              silent |-> silent, answered |-> FALSE, ok |-> FALSE]}
Room(n) == Cardinality(calls) + n <= MaxCalls

(* The load a dialog begins with when it opens.                            *)
Opened(cs, fn, was, is) ==
    IF is # None /\ is # was THEN Send(cs, fn, is, 0, FALSE) ELSE cs

Init ==
    /\ env \in Environments
    /\ known = Nodes
    /\ stored = [t \in Things |-> 0]
    /\ \E first \in IF env.deepLink THEN Entry ELSE {Plain} :
         /\ history = <<Plain, first>>
         /\ calls = Opened(Opened({}, "node", None, first.node), "ups", None, first.ups)
    /\ pos = 2
    /\ nodeDialog = Closed /\ upsDialog = Closed
    /\ editor = NoEditor /\ confirm = NoConfirm
    /\ misdirected = {} /\ leftByClose = FALSE
    /\ acts = MaxActs

-----------------------------------------------------------------------------
(* Mutant: what was shown stays until the answer comes.                    *)
Switched_KeepRecord(dialog, was, is) == [dialog EXCEPT !.error = FALSE]

(* The effect of a dialog whose parameter changed forgets what it showed.  *)
Switched(dialog, was, is) == IF was = is THEN dialog ELSE Closed

(* The browser goes to entry p of h; the effects of both dialogs follow.   *)
GoTo(h, p, cs) ==
    /\ history' = h /\ pos' = p
    /\ IF p = 1
       THEN /\ nodeDialog' = Closed /\ upsDialog' = Closed
            /\ editor' = NoEditor /\ confirm' = NoConfirm /\ calls' = {}
       ELSE LET was == IF pos = 1 THEN Plain ELSE Here
                is == h[p]
            IN /\ nodeDialog' = Switched(nodeDialog, was.node, is.node)
               /\ upsDialog' = Switched(upsDialog, was.ups, is.ups)
               /\ calls' = Opened(Opened(cs, "node", was.node, is.node),
                                  "ups", was.ups, is.ups)
               /\ UNCHANGED <<editor, confirm>>

(* setSearchParams with replace: false.                                    *)
Push(entry) == GoTo(Append(SubSeq(history, 1, pos), entry), pos + 1, calls)

(* navigate(-1).                                                           *)
Close(cs) ==
    /\ GoTo(history, pos - 1, cs)
    /\ leftByClose' = (leftByClose \/ pos = 2)

-----------------------------------------------------------------------------
(* The user. What is covered cannot be clicked.                            *)
Acts ==
    /\ acts > 0 /\ acts' = acts - 1
    /\ pos > 1
    /\ env.wander \/ ~Writing
Uncovered == ~editor.open /\ confirm = NoConfirm
AtGrid == Acts /\ Uncovered /\ Here = Plain
AtNode == Acts /\ Uncovered /\ Here.node # None /\ Here.ups = None
AtUPS == Acts /\ Uncovered /\ Here.ups # None

openDetail(n) ==
    /\ AtGrid /\ Room(1)
    /\ Push([node |-> n, ups |-> None])
    /\ UNCHANGED <<server, misdirected, leftByClose, env>>

(* Mutant: the entry of the node dialog is replaced.                       *)
openUPS_Replace(u) ==
    /\ AtGrid \/ (AtNode /\ nodeDialog.rec # None /\ ~nodeDialog.error)
    /\ Room(1)
    /\ GoTo([history EXCEPT ![pos].ups = u], pos, calls)
    /\ UNCHANGED <<server, misdirected, leftByClose, env>>

(* From an alert on a card, or from the list in the node dialog, which     *)
(* stays open below.                                                       *)
openUPS(u) ==
    /\ AtGrid \/ (AtNode /\ nodeDialog.rec # None /\ ~nodeDialog.error)
    /\ Room(1)
    /\ Push([Here EXCEPT !.ups = u])
    /\ UNCHANGED <<server, misdirected, leftByClose, env>>

closeDialog ==
    /\ AtNode \/ AtUPS
    /\ Close(calls)
    /\ UNCHANGED <<server, misdirected, env>>

(* The browser's Back and Forward.                                         *)
BackOrForward(p) ==
    /\ acts > 0 /\ acts' = acts - 1
    /\ p \in {pos - 1, pos + 1} \cap DOMAIN history
    /\ env.wander \/ (Uncovered /\ ~Writing)
    /\ Room(2)
    /\ GoTo(history, p, calls)
    /\ UNCHANGED <<server, misdirected, leftByClose, env>>

-----------------------------------------------------------------------------
(* The fields of the configuration tab are filled when it is mounted and   *)
(* are the user's from then on, whatever is loaded. Its saving flag goes   *)
(* when another tab is chosen, so a second save can be sent.               *)
Fields == Value

(* Actions on the node that is shown. Toggle and release ask first, edit   *)
(* does not; forget asks.                                                  *)
handleEdit(v) ==
    /\ AtNode /\ nodeDialog.rec # None /\ ~nodeDialog.error
    /\ Room(1)
    /\ v \in Fields
    /\ calls' = Send(calls, "patch", nodeDialog.rec.id, v, FALSE)
    /\ UNCHANGED <<server, browser, dialogs, editor, confirm, misdirected, leftByClose, env>>

requestConfirmation(kind, id, value) == confirm' = [kind |-> kind, id |-> id, value |-> value]

handleToggleLocalUIPolicy ==
    /\ AtNode /\ nodeDialog.rec # None /\ ~nodeDialog.error
    /\ requestConfirmation("patch", nodeDialog.rec.id, Other(nodeDialog.rec.value))
    /\ UNCHANGED <<server, browser, dialogs, editor, calls, misdirected, leftByClose, env>>

handleForget ==
    /\ AtNode /\ nodeDialog.rec # None
    /\ requestConfirmation("forget", nodeDialog.rec.id, 0)
    /\ UNCHANGED <<server, browser, dialogs, editor, calls, misdirected, leftByClose, env>>

(* What is sent to another UPS than the one whose data the dialog shows.   *)
Sends(kind, meant) ==
    misdirected' = IF meant \in {Here.ups, None} THEN misdirected
                   ELSE misdirected \cup {kind}

(* A command of the UPS dialog goes to the UPS of its parameters.          *)
handleCommand(destructive) ==
    /\ AtUPS /\ upsDialog.rec # None /\ ~upsDialog.error
    /\ Room(1)
    /\ Sends("command", upsDialog.rec.id)
    /\ IF destructive
       THEN requestConfirmation("command", Here.ups, 0) /\ UNCHANGED calls
       ELSE calls' = Send(calls, "command", Here.ups, 0, FALSE) /\ UNCHANGED confirm
    /\ UNCHANGED <<server, browser, dialogs, editor, leftByClose, env>>

(* The confirmation resolves the promise of the handler that asked.        *)
closeConfirmation(accepted) ==
    /\ acts > 0 /\ acts' = acts - 1
    /\ confirm # NoConfirm /\ Room(1)
    /\ confirm' = NoConfirm
    /\ calls' = IF accepted THEN Send(calls, confirm.kind, confirm.id, confirm.value, FALSE)
                ELSE calls
    /\ UNCHANGED <<server, browser, dialogs, editor, misdirected, leftByClose, env>>

-----------------------------------------------------------------------------
(* The editor keeps its fields, and stays open, when the dialog below it   *)
(* changes; it saves for the UPS of the dialog's parameters.               *)
openMetadataEditor ==
    /\ AtUPS /\ upsDialog.rec # None
    /\ editor' = [NoEditor EXCEPT !.open = TRUE, !.from = upsDialog.rec.id,
                                  !.value = Other(upsDialog.rec.value)]
    /\ UNCHANGED <<server, browser, dialogs, confirm, calls, misdirected, leftByClose, env>>

CancelEditor ==
    /\ acts > 0 /\ acts' = acts - 1
    /\ editor.open /\ ~editor.saving
    /\ editor' = NoEditor
    /\ UNCHANGED <<server, browser, dialogs, confirm, calls, misdirected, leftByClose, env>>

handleMetadataSave ==
    /\ acts > 0 /\ acts' = acts - 1
    /\ editor.open /\ ~editor.saving /\ confirm = NoConfirm
    /\ Here.ups # None /\ Room(1)
    /\ editor' = [editor EXCEPT !.saving = TRUE]
    /\ calls' = Send(calls, "metadata", Here.ups, editor.value, FALSE)
    /\ Sends("metadata", editor.from)
    /\ UNCHANGED <<server, browser, dialogs, confirm, leftByClose, env>>

-----------------------------------------------------------------------------
(* Answers.                                                                *)
Rec(c) == [id |-> c.id, value |-> c.value]

(* Mutant: the guard is missing.                                           *)
Loaded_Unguarded(dialog, open, c) ==
    IF c.ok THEN [rec |-> Rec(c), error |-> FALSE]
    ELSE IF c.silent THEN dialog
    ELSE [dialog EXCEPT !.error = TRUE]

(* The rest of load, in either dialog: an answer about another node or UPS *)
(* than the one that is open is dropped, a failed background refresh too.  *)
Loaded(dialog, open, c) ==
    IF open # c.id THEN dialog
    ELSE IF c.ok THEN [rec |-> Rec(c), error |-> FALSE]
    ELSE IF c.silent THEN dialog
    ELSE [dialog EXCEPT !.error = TRUE]

LoadAnswered(c) ==
    /\ c.answered
    /\ \/ /\ c.fn = "node"
          /\ nodeDialog' = Loaded(nodeDialog, Here.node, c)
          /\ UNCHANGED upsDialog
       \/ /\ c.fn = "ups"
          /\ upsDialog' = Loaded(upsDialog, Here.ups, c)
          /\ UNCHANGED nodeDialog
    /\ calls' = calls \ {c}
    /\ UNCHANGED <<server, browser, editor, confirm, misdirected, leftByClose, acts, env>>

(* setNode(updated).                                                       *)
PatchAnswered(c) ==
    /\ c.fn = "patch" /\ c.answered
    /\ nodeDialog' = IF c.ok THEN [nodeDialog EXCEPT !.rec = Rec(c)] ELSE nodeDialog
    /\ calls' = calls \ {c}
    /\ UNCHANGED <<server, browser, upsDialog, editor, confirm, misdirected, leftByClose,
                   acts, env>>

(* onClose() after a node was forgotten, whatever is open by then.         *)
ForgetAnswered(c) ==
    /\ c.fn = "forget" /\ c.answered
    /\ IF c.ok
       THEN Close(calls \ {c})
       ELSE /\ calls' = calls \ {c}
            /\ UNCHANGED <<browser, dialogs, editor, confirm, leftByClose>>
    /\ UNCHANGED <<server, misdirected, acts, env>>

(* After a command the UPS is read again, into whatever dialog is open.    *)
CommandAnswered(c) ==
    /\ c.answered
    /\ \/ /\ c.fn = "command"
          /\ calls' = IF c.ok THEN Send(calls \ {c}, "reload", c.id, 0, FALSE)
                      ELSE calls \ {c}
          /\ UNCHANGED upsDialog
       \/ /\ c.fn = "reload"
          /\ upsDialog' = IF c.ok THEN [upsDialog EXCEPT !.rec = Rec(c)] ELSE upsDialog
          /\ calls' = calls \ {c}
    /\ UNCHANGED <<server, browser, nodeDialog, editor, confirm, misdirected, leftByClose,
                   acts, env>>

(* The metadata of the answer goes into the detail that is shown, if any.  *)
MetadataAnswered(c) ==
    /\ c.fn = "metadata" /\ c.answered
    /\ IF c.ok
       THEN /\ editor' = NoEditor
            /\ upsDialog' = IF upsDialog.rec = None THEN upsDialog
                            ELSE [upsDialog EXCEPT !.rec.value = c.value]
       ELSE editor' = [editor EXCEPT !.saving = FALSE] /\ UNCHANGED upsDialog
    /\ calls' = calls \ {c}
    /\ UNCHANGED <<server, browser, nodeDialog, confirm, misdirected, leftByClose, acts, env>>

(* Mutant: the interval of a dialog that failed to load is not started.    *)
LiveRefresh_NoRetry ==
    /\ pos > 1 /\ Room(1)
    /\ \/ Here.node # None /\ ~nodeDialog.error
          /\ calls' = Send(calls, "node", Here.node, 0, TRUE)
       \/ Here.ups # None /\ ~upsDialog.error
          /\ calls' = Send(calls, "ups", Here.ups, 0, TRUE)
    /\ UNCHANGED <<server, browser, dialogs, editor, confirm, misdirected, leftByClose,
                   acts, env>>

(* useLiveRefresh loads again while a dialog is open.                      *)
LiveRefresh ==
    /\ pos > 1 /\ Room(1)
    /\ \/ Here.node # None /\ calls' = Send(calls, "node", Here.node, 0, TRUE)
       \/ Here.ups # None /\ calls' = Send(calls, "ups", Here.ups, 0, TRUE)
    /\ UNCHANGED <<server, browser, dialogs, editor, confirm, misdirected, leftByClose,
                   acts, env>>

Trouble == env.fail /\ acts > 0

(* The controller answers with what it has, and does what it is asked.     *)
ControllerAnswers(c) ==
    /\ c \in calls /\ ~c.answered
    /\ LET there == c.id \in known \cup UPSes
       IN \E ok \in IF Trouble THEN {there, FALSE} ELSE {there} :
            LET after == IF ok /\ c.fn \in {"patch", "metadata"}
                         THEN [stored EXCEPT ![c.id] = c.value] ELSE stored
            IN /\ stored' = after
               /\ known' = IF ok /\ c.fn = "forget" THEN known \ {c.id} ELSE known
               /\ calls' = (calls \ {c}) \cup
                             {[c EXCEPT !.answered = TRUE, !.ok = ok,
                                        !.value = IF ok THEN after[c.id] ELSE 0]}
    /\ UNCHANGED <<browser, dialogs, editor, confirm, misdirected, leftByClose, acts, env>>

-----------------------------------------------------------------------------
GoesOn(c) ==
    \/ LoadAnswered(c)
    \/ PatchAnswered(c)
    \/ ForgetAnswered(c)
    \/ CommandAnswered(c)
    \/ MetadataAnswered(c)

Next ==
    \/ \E n \in Nodes : openDetail(n)
    \/ \E u \in UPSes : openUPS(u)
    \/ closeDialog
    \/ \E p \in DOMAIN history : BackOrForward(p)
    \/ \E v \in Value : handleEdit(v)
    \/ handleToggleLocalUIPolicy \/ handleForget
    \/ \E destructive \in BOOLEAN : handleCommand(destructive)
    \/ \E accepted \in BOOLEAN : closeConfirmation(accepted)
    \/ openMetadataEditor \/ CancelEditor \/ handleMetadataSave
    \/ LiveRefresh
    \/ \E c \in calls : ControllerAnswers(c) \/ GoesOn(c)

Spec == Init /\ [][Next]_vars

(* Calls are answered, and the interval of an open dialog fires; the slots *)
(* that limit it are a bound of the model.                                 *)
Fairness ==
    /\ \A s \in 1..MaxCalls :
         /\ WF_vars(\E c \in calls : c.slot = s /\ ControllerAnswers(c))
         /\ WF_vars(\E c \in calls : c.slot = s /\ GoesOn(c))
    /\ \A t \in Things :
         SF_vars(LiveRefresh /\ \E c \in calls' \ calls : c.id = t)

FairSpec == Spec /\ Fairness

-----------------------------------------------------------------------------
(* The types of the variables.                                             *)
TypeOK ==
    /\ known \subseteq Nodes /\ stored \in [Things -> Value]
    /\ history \in Seq(Entry) /\ pos \in DOMAIN history
    /\ nodeDialog \in Dialog /\ upsDialog \in Dialog
    /\ editor \in [open : BOOLEAN, from : UPSes \cup {None}, value : Value,
                   saving : BOOLEAN]
    /\ confirm \in [kind : {"none", "patch", "forget", "command"},
                    id : Things \cup {None}, value : Value]
    /\ calls \subseteq CallType
    /\ misdirected \subseteq {"command", "metadata"} /\ leftByClose \in BOOLEAN
    /\ acts \in 0..MaxActs /\ env \in EnvType

ShowsOpen(dialog, open) == dialog.rec # None => dialog.rec.id = open

(* Whichever way the user goes from dialog to dialog, and however late the *)
(* loads are answered, a dialog shows the node or UPS that is open: the    *)
(* guards of both load functions, and the effects that forget what was     *)
(* shown. Writes have no guard, so it holds for a user who does not move   *)
(* on while one is pending.                                                *)
DialogShowsOpen ==
    ~env.wander => /\ ShowsOpen(nodeDialog, Here.node)
                   /\ ShowsOpen(upsDialog, Here.ups)

(* A command or an edit of metadata is sent to the UPS of the dialog's     *)
(* parameters, not to the one whose data it shows or whose data filled the *)
(* editor: for such a user they are the same.                              *)
ActionsHitShown == misdirected # {} => env.wander

(* Opening pushes an entry and closing pops that same entry                *)
(* (FleetPage.tsx:34-36): closing does not leave the application, unless   *)
(* it was entered by a link to the dialog, or the user had gone back       *)
(* before a forgotten node's dialog closed itself.                         *)
ClosingStaysOnPage == leftByClose => env.deepLink \/ env.wander

(* A dialog that stays open ends up showing what the controller has, also  *)
(* after loads that failed, answers that came out of order, and writes.    *)
DialogCatchesUp ==
    \A n \in Nodes :
      <>[](~Trouble /\ n \in known /\ Here.node = n)
        => <>[](nodeDialog = [rec |-> [id |-> n, value |-> stored[n]], error |-> FALSE])

(* NodeDetailDialog.tsx:287-288 of its load: "Guards against a slow        *)
(* response for a previous nodeId applying its result after the dialog has *)
(* closed or switched to a different node."                                *)
NoAnswerForPreviousNode == ShowsOpen(nodeDialog, Here.node)
=============================================================================
