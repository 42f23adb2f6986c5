--------------------------- MODULE ControllerPages --------------------------
(***************************************************************************)
(* The pages of the controller's dashboard (controller/web/src): the fleet *)
(* with its cards, the alert rules, and the settings, one of which is      *)
(* mounted at a time; the live refresh of the fleet, which pauses while    *)
(* the tab is hidden; the confirmation App asks for; and the colour theme, *)
(* which App keeps in the browser's storage. The dialogs of the fleet page *)
(* are in FleetDialogs.                                                    *)
(*                                                                         *)
(* What a page shows is the number of changes the controller had made to   *)
(* it when it answered. React drops what a page that is no longer mounted  *)
(* does to its state; its calls go on. A call fails with or without having *)
(* been carried out. The theme of the system and the contents of the forms *)
(* are not modelled.                                                       *)
(***************************************************************************)
EXTENDS Integers, FiniteSets

CONSTANTS
    Preferences,  \* themes one can choose
    System,       \* the one App begins with
    MaxVersion,   \* bound on the changes of what a page shows
    MaxCalls,     \* bound on the calls in flight
    MaxActs,      \* bound on what the user does
    Environments  \* what the surroundings may do, see EnvType

(* An environment: whether the user acts while calls of the page are       *)
(* pending, whether calls fail until the user rests, whether the nodes and *)
(* other users change things, whether it is a development build, whose     *)
(* StrictMode runs every effect twice, and whether the tab may be closed   *)
(* while App is being mounted.                                             *)
EnvType == [overlap : BOOLEAN, fail : BOOLEAN, others : BOOLEAN, strict : BOOLEAN,
            abrupt : BOOLEAN]

ASSUME ConstantsAssumption ==
    /\ System \in Preferences /\ "none" \notin Preferences
    /\ MaxVersion \in Nat /\ MaxCalls \in Nat \ {0, 1} /\ MaxActs \in Nat
    /\ Environments \subseteq EnvType

VARIABLES
    version,     \* the controller: changes made to what each page shows
    route,       \* the page that is mounted
    hidden,      \* the tab is hidden
    intervals,   \* intervals of useLiveRefresh that run
    page,        \* state of the mounted page
    confirm,     \* the question App shows, and the page that awaits it
    calls,       \* calls in flight
    told,        \* history: the user saw an error since the page was mounted
    storage,     \* strom-theme-preference in the browser's storage
    preference,  \* themePreference
    next,        \* the preference the next render of App will have
    chosen,      \* history: the theme that was chosen last
    acts,        \* what the user may still do
    env          \* the environment, fixed in a behaviour

mounted == <<route, hidden, intervals, page>>
theme == <<storage, preference, next, chosen>>
vars == <<version, mounted, confirm, calls, told, theme, acts, env>>

-----------------------------------------------------------------------------
Pages == {"fleet", "alerts", "settings"}
NotShown == -1
Version == 0..MaxVersion
PageType == [shown : Version \cup {NotShown}, loading : BOOLEAN, error : BOOLEAN,
             saving : BOOLEAN]
Fresh(p) == [shown |-> NotShown, loading |-> p = "fleet", error |-> FALSE, saving |-> FALSE]

(* mine tells whether the page that sent it is still mounted.              *)
CallType == [slot : 1..MaxCalls, fn : {"load", "write"}, page : Pages, silent : BOOLEAN,
             mine : BOOLEAN, answered : BOOLEAN, ok : BOOLEAN, data : Version]
FreeSlot(cs) == CHOOSE s \in 1..MaxCalls : \A c \in cs : c.slot # s
Send(cs, fn, p, silent, mine) ==
    cs \cup {[slot |-> FreeSlot(cs), fn |-> fn, page |-> p, silent |-> silent,
              mine |-> mine, answered |-> FALSE, ok |-> FALSE, data |-> 0]}
Load(cs, p, silent) == Send(cs, "load", p, silent, TRUE)
Room(n) == Cardinality(calls) + n <= MaxCalls

NoQuestion == [page |-> "none", mine |-> FALSE]
NothingNext == "none"

(* The effects of a page that is mounted: the first load, and the interval *)
(* of the fleet. StrictMode cleans up and runs them again.                 *)
MountLoads(cs, p) ==
    IF env.strict THEN Load(Load(cs, p, FALSE), p, FALSE) ELSE Load(cs, p, FALSE)
MountIntervals(p, hid) == IF p = "fleet" /\ ~hid THEN 1 ELSE 0
MountRoom == Room(IF env.strict THEN 2 ELSE 1)
Orphaned(cs) == {[c EXCEPT !.mine = FALSE] : c \in cs}

(* Mutant: the preference is stored before it is read.                     *)
ReadPreference_AfterWrite(stored) == System

(* App's first effect reads the preference, its third stores what the      *)
(* first render had; the second run of StrictMode reads that.              *)
ReadPreference(stored) == IF env.strict THEN System ELSE stored

AppMounts(stored) ==
    /\ preference' = System
    /\ next' = ReadPreference(stored)
    /\ storage' = System

Init ==
    /\ env \in Environments
    /\ version = [p \in Pages |-> 0]
    /\ route \in Pages /\ hidden = FALSE
    /\ intervals = MountIntervals(route, FALSE)
    /\ page = Fresh(route)
    /\ confirm = NoQuestion
    /\ calls = MountLoads({}, route)
    /\ told = FALSE
    /\ storage = System /\ preference = System /\ next = System
    /\ chosen = System
    /\ acts = MaxActs

-----------------------------------------------------------------------------
(* The user, who sees the tab, and waits for what has no background.       *)
Pending == \E c \in calls : ~c.silent
Acts ==
    /\ acts > 0 /\ acts' = acts - 1
    /\ ~hidden
    /\ env.overlap \/ ~Pending
Uncovered == confirm = NoQuestion

(* Another page is mounted, by the menu or by Back and Forward, which work *)
(* under a confirmation too.                                               *)
Navigate(p) ==
    /\ Acts /\ p # route
    /\ env.overlap \/ Uncovered
    /\ MountRoom
    /\ route' = p
    /\ page' = Fresh(p)
    /\ intervals' = MountIntervals(p, hidden)
    /\ calls' = MountLoads(Orphaned(calls), p)
    /\ confirm' = [confirm EXCEPT !.mine = FALSE]
    /\ told' = FALSE
    /\ UNCHANGED <<version, hidden, theme, env>>

(* The menu's Fleet on the fleet page raises fleetRefreshSignal.           *)
handleNavigate ==
    /\ Acts /\ Uncovered /\ route = "fleet"
    /\ Room(1)
    /\ page' = [page EXCEPT !.loading = TRUE]
    /\ calls' = Load(calls, "fleet", FALSE)
    /\ UNCHANGED <<version, route, hidden, intervals, confirm, told, theme, env>>

Hide ==
    /\ Acts
    /\ hidden' = TRUE
    /\ intervals' = 0
    /\ UNCHANGED <<version, route, page, confirm, calls, told, theme, env>>

(* Mutant: the interval is not started again.                              *)
Show_NoStart ==
    /\ hidden /\ Room(1)
    /\ hidden' = FALSE
    /\ calls' = IF route = "fleet" THEN Load(calls, "fleet", TRUE) ELSE calls
    /\ UNCHANGED <<version, route, intervals, page, confirm, told, theme, acts, env>>

(* handleVisibilityChange: refresh at once, and start the interval.        *)
Show ==
    /\ hidden /\ Room(1)
    /\ hidden' = FALSE
    /\ IF route = "fleet"
       THEN calls' = Load(calls, "fleet", TRUE) /\ intervals' = 1
       ELSE UNCHANGED <<calls, intervals>>
    /\ UNCHANGED <<version, route, page, confirm, told, theme, acts, env>>

IntervalFires ==
    /\ intervals > 0 /\ Room(1)
    /\ calls' = Load(calls, "fleet", TRUE)
    /\ UNCHANGED <<version, mounted, confirm, told, theme, acts, env>>

(* What a page offers: the cards are there without a notice, the rules     *)
(* beside one, the settings unless they are being saved.                   *)
CardsAreListed == page.shown # NotShown /\ ~page.error /\ ~page.loading
RulesAreListed == page.shown # NotShown
SettingsAreEditable == page.shown # NotShown /\ ~page.saving

(* Adopt; create or test a rule; toggle the listener or save its address.  *)
CanWrite ==
    CASE route = "fleet" -> CardsAreListed
      [] route = "alerts" -> TRUE
      [] route = "settings" -> SettingsAreEditable

Write ==
    /\ Acts /\ Uncovered /\ CanWrite /\ Room(1)
    /\ page' = [page EXCEPT !.saving = route = "settings"]
    /\ calls' = Send(calls, "write", route, FALSE, TRUE)
    /\ UNCHANGED <<version, route, hidden, intervals, confirm, told, theme, env>>

(* Forget a node, delete a rule.                                           *)
requestConfirmation ==
    /\ Acts /\ Uncovered
    /\ \/ route = "fleet" /\ CardsAreListed
       \/ route = "alerts" /\ RulesAreListed
    /\ confirm' = [page |-> route, mine |-> TRUE]
    /\ UNCHANGED <<version, mounted, calls, told, theme, env>>

closeConfirmation(accepted) ==
    /\ Acts /\ ~Uncovered /\ Room(1)
    /\ confirm' = NoQuestion
    /\ calls' = IF accepted THEN Send(calls, "write", confirm.page, FALSE, confirm.mine)
                ELSE calls
    /\ UNCHANGED <<version, mounted, told, theme, env>>

-----------------------------------------------------------------------------
(* Answers.                                                                *)

(* The rest of the load functions: a background refresh of the fleet fails *)
(* quietly.                                                                *)
Loaded(c) ==
    IF c.ok
    THEN [page EXCEPT !.shown = c.data, !.error = FALSE, !.loading = FALSE]
    ELSE [page EXCEPT !.error = @ \/ ~c.silent, !.loading = FALSE]

LoadAnswered(c) ==
    /\ c.fn = "load" /\ c.answered
    /\ page' = IF c.mine THEN Loaded(c) ELSE page
    /\ told' = (told \/ page'.error)
    /\ calls' = calls \ {c}
    /\ UNCHANGED <<version, route, hidden, intervals, confirm, theme, acts, env>>

(* Error toasts stay until they are closed or replaced.                    *)
showToast(severity) == told' = (told \/ severity = "error")

(* Mutant: the page is not loaded again.                                   *)
ListWritten_NoLoad(c) ==
    /\ c.page \in {"fleet", "alerts"}
    /\ showToast(IF c.ok THEN "success" ELSE "error")
    /\ calls' = calls \ {c}
    /\ UNCHANGED page

(* After a change of the fleet or the rules they are loaded again.         *)
ListWritten(c) ==
    /\ c.page \in {"fleet", "alerts"}
    /\ showToast(IF c.ok THEN "success" ELSE "error")
    /\ calls' = IF c.ok /\ c.mine THEN Load(calls \ {c}, c.page, c.page = "fleet")
                ELSE calls \ {c}
    /\ UNCHANGED page

(* The answer to a change of the settings is the settings.                 *)
SettingsWritten(c) ==
    /\ c.page = "settings"
    /\ showToast(IF c.ok THEN "success" ELSE "error")
    /\ calls' = calls \ {c}
    /\ page' = IF ~c.mine THEN page
               ELSE IF c.ok
               THEN [page EXCEPT !.shown = c.data, !.error = FALSE, !.saving = FALSE]
               ELSE [page EXCEPT !.error = TRUE, !.saving = FALSE]

WriteAnswered(c) ==
    /\ c.fn = "write" /\ c.answered
    /\ ListWritten(c) \/ SettingsWritten(c)
    /\ UNCHANGED <<version, route, hidden, intervals, confirm, theme, acts, env>>

Trouble == env.fail /\ acts > 0
Bump(p) == IF version[p] < MaxVersion THEN [version EXCEPT ![p] = @ + 1] ELSE version

ControllerAnswers(c) ==
    /\ c \in calls /\ ~c.answered
    /\ \E ok \in IF Trouble THEN BOOLEAN ELSE {TRUE} :
       \E done \in IF c.fn = "load" THEN {FALSE} ELSE IF ok THEN {TRUE} ELSE BOOLEAN :
         /\ version' = IF done THEN Bump(c.page) ELSE version
         /\ calls' = (calls \ {c}) \cup
              {[c EXCEPT !.answered = TRUE, !.ok = ok,
                         !.data = IF ok THEN version'[c.page] ELSE 0]}
    /\ UNCHANGED <<mounted, confirm, told, theme, acts, env>>

(* Discovery, the poller, an alert, another user.                          *)
OthersChange(p) ==
    /\ env.others /\ version[p] < MaxVersion
    /\ version' = Bump(p)
    /\ UNCHANGED <<mounted, confirm, calls, told, theme, acts, env>>

-----------------------------------------------------------------------------
(* The theme.                                                              *)
Settled == next = NothingNext

(* App renders with the preference that was read, and stores it.           *)
AppRendersAgain ==
    /\ ~Settled
    /\ preference' = next /\ storage' = next
    /\ next' = NothingNext
    /\ UNCHANGED <<version, mounted, confirm, calls, told, chosen, acts, env>>

onThemePreferenceChange(t) ==
    /\ Acts /\ Uncovered /\ Settled
    /\ chosen' = t /\ preference' = t /\ storage' = t
    /\ UNCHANGED <<version, mounted, confirm, calls, told, next, env>>

(* The browser loads the application again.                                *)
Reload ==
    /\ Acts /\ MountRoom
    /\ Settled \/ env.abrupt
    /\ AppMounts(storage)
    /\ page' = Fresh(route)
    /\ intervals' = MountIntervals(route, hidden)
    /\ confirm' = NoQuestion
    /\ calls' = MountLoads(Orphaned(calls), route)
    /\ told' = FALSE
    /\ UNCHANGED <<version, route, hidden, chosen, env>>

-----------------------------------------------------------------------------
GoesOn(c) == LoadAnswered(c) \/ WriteAnswered(c)

Next ==
    \/ \E p \in Pages : Navigate(p)
    \/ handleNavigate
    \/ Hide \/ Show \/ IntervalFires
    \/ Write \/ requestConfirmation
    \/ \E accepted \in BOOLEAN : closeConfirmation(accepted)
    \/ \E c \in calls : ControllerAnswers(c) \/ GoesOn(c)
    \/ \E p \in Pages : OthersChange(p)
    \/ AppRendersAgain
    \/ \E t \in Preferences : onThemePreferenceChange(t)
    \/ Reload

Spec == Init /\ [][Next]_vars

(* Calls are answered, and a running interval fires; the slots that limit  *)
(* it are a bound of the model.                                            *)
Fairness ==
    /\ \A s \in 1..MaxCalls :
         /\ WF_vars(\E c \in calls : c.slot = s /\ ControllerAnswers(c))
         /\ WF_vars(\E c \in calls : c.slot = s /\ GoesOn(c))
    /\ SF_vars(IntervalFires)

FairSpec == Spec /\ Fairness

-----------------------------------------------------------------------------
(* The types of the variables.                                             *)
TypeOK ==
    /\ version \in [Pages -> Version]
    /\ route \in Pages /\ hidden \in BOOLEAN /\ intervals \in {0, 1}
    /\ page \in PageType
    /\ confirm \in [page : Pages \cup {"none"}, mine : BOOLEAN]
    /\ calls \subseteq CallType
    /\ told \in BOOLEAN
    /\ storage \in Preferences /\ preference \in Preferences
    /\ next \in Preferences \cup {NothingNext} /\ chosen \in Preferences
    /\ acts \in 0..MaxActs /\ env \in EnvType

(* "so data is never stale-but-silent for longer than necessary"           *)
(* (useLiveRefresh.ts:8-9): a fleet page that stays visible ends up with   *)
(* what the controller has, without notice or spinner, after loads that    *)
(* failed, answers that overtook each other and tabs that were hidden.     *)
PageCatchesUp ==
    <>[](route = "fleet" /\ ~hidden /\ ~Trouble)
      => <>[](/\ page.shown = version["fleet"]
              /\ ~page.error /\ ~page.loading)

(* The other pages are not refreshed. When their calls have ended, they    *)
(* show what the controller has, or an error was shown since they were     *)
(* opened: after a change that was carried out but not answered, or a      *)
(* load after it that failed. It takes a user who waits for answers, and   *)
(* nobody else who changes things.                                         *)
RestingPageIsCurrent ==
    (calls = {} /\ route # "fleet" /\ ~env.overlap /\ ~env.others)
      => page.shown = version[route] \/ told

(* The theme that was chosen last is still there after a reload, although  *)
(* every mount of App overwrites it in storage before it is applied. In    *)
(* development builds, and in a tab closed in between, it is lost.         *)
ThemeSurvivesReload ==
    (Settled /\ ~env.strict /\ ~env.abrupt) => preference = chosen
=============================================================================
