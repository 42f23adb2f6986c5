-------------------------- MODULE DashboardProofs --------------------------
(***************************************************************************)
(* Proofs about what the dashboards do and show. The UPS part of the       *)
(* node's page (NodeDashboard), for every set of UPSes, variables, values  *)
(* and call slots, every bound on the user and every environment: the      *)
(* dirty marks, the pane and what is sent, however calls, events and the   *)
(* user interleave. And what both dashboards compute (DashboardRules), for *)
(* every fleet, every classification of tokens and every set of samples:   *)
(* severities, the alert count, the ends of the charts and the marker.     *)
(***************************************************************************)
EXTENDS NodeDashboard, DashboardRules, FiniteSetTheorems, WellFoundedInduction,
        TLAPS

(* The least-number principle, for facts about data of every length.       *)
LEMMA SmallestExists ==
  ASSUME NEW S \in SUBSET Nat, S # {}
  PROVE  \E m \in S : \A k \in S : m <= k
<1> DEFINE R == {ss \in Nat \X Nat : ss[1] < ss[2]}
<1>1. IsWellFoundedOn(R, Nat)
  BY NatLessThanWellFounded, Zenon DEF OpToRel
<1>2. \A m, k \in S : <<k, m>> \notin R => m <= k
  OBVIOUS
<1> HIDE DEF R
<1>3. PICK m \in S : \A k \in S : <<k, m>> \notin R
  BY <1>1, WFMin, Zenon
<1>4. QED
  BY <1>2, <1>3, Zenon

-----------------------------------------------------------------------------
(* NodeDashboard.                                                          *)

(* Only a load remembers what called it, an apply knows its variable, and  *)
(* a load brings the UPS it was sent for.                                  *)
CallShape(r) ==
    /\ r.after # "page" => r.fn = "load"
    /\ r.fn = "apply" => r.var \in Vars
    /\ r.fn = "load" /\ r.answered /\ r.ok =>
         r.answer \in Details /\ r.answer.name = r.ups

Typed == TypeOK /\ \A c \in Calls : CallShape(calls[c])

(* What is drawn has been put into state.detail before.                    *)
DirtyInv == DirtyMatchesInputs /\ (pane # NoDetail => detail # NoDetail)

(* The newest load is for the selected UPS, unless there is none any more. *)
ShownInv ==
    /\ ShownIsSelected
    /\ lastLoad # NoCall =>
         /\ calls[lastLoad].fn = "load"
         /\ selectedUPS \in {calls[lastLoad].ups, NoUPS}

(* While no UPS is unplugged a selection lasts: it is among those that are *)
(* attached, and there is one as soon as there is anything to act on.      *)
Acting(r) == r.fn \notin {"idle", "refresh"}

SteadyInv ==
    /\ upses \subseteq node.attached
    /\ selectedUPS \in node.attached \cup {NoUPS}
    /\ \A c \in Calls :
         calls[c].fn = "refresh" /\ calls[c].answered /\ calls[c].ok =>
           calls[c].list = node.attached
    /\ pane # NoDetail => selectedUPS # NoUPS
    /\ dialog.kind # "none" => selectedUPS # NoUPS
    /\ \A c \in Calls : Acting(calls[c]) => selectedUPS # NoUPS
    /\ dialog.kind = "confirm" => dialog.ups = selectedUPS
    /\ "confirmed" \notin misdirected

(* A user who waits besides has at most one call in flight.                *)
AloneInv ==
    /\ \A c, d \in Calls : calls[c].fn # "idle" /\ calls[d].fn # "idle" => c = d
    /\ \A c \in Calls : calls[c].fn = "load" => lastLoad = c
    /\ env.sse => \A c \in Calls : calls[c].fn # "refresh"
    /\ ~overtaken
    /\ dialog.kind = "metadata" => dialog.ups = selectedUPS
    /\ misdirected = {}

Inv ==
    /\ Typed /\ DirtyInv /\ ShownInv
    /\ ~env.unplug => SteadyInv
    /\ ~env.unplug /\ ~env.overlap => AloneInv

-----------------------------------------------------------------------------
(* Values, and the smallest UPS of a list.                                 *)
LEMMA IdleIsTyped ==
  /\ Idle \in CallType /\ CallShape(Idle)
  /\ Idle.fn = "idle" /\ Idle.after = "page"
  BY ConstantsAssumption
  DEF ConstantsAssumption, Idle, CallType, CallShape, MaybeUPS, MaybeDetail

LEMMA NullsAreNone ==
  /\ NoUPS \notin Devices /\ NoCall \notin Calls /\ NoDetail \notin Details
  BY ConstantsAssumption DEF ConstantsAssumption, Details

LEMMA FirstIsListed ==
  ASSUME NEW S \in SUBSET Devices, S # {}
  PROVE  First(S) \in S
<1>1. S \in SUBSET Nat
  BY ConstantsAssumption DEF ConstantsAssumption
<1>2. \E d \in S : \A e \in S : d <= e
  BY <1>1, SmallestExists
<1>3. QED
  BY <1>2, Zenon DEF First

(* A step that changes one call.                                           *)
LEMMA OneCallChanges ==
  ASSUME Typed, NEW c \in Calls, NEW r \in CallType, CallShape(r),
         calls' = [calls EXCEPT ![c] = r]
  PROVE  /\ calls' \in [Calls -> CallType] /\ calls'[c] = r
         /\ \A x \in Calls \ {c} : calls'[x] = calls[x]
         /\ \A x \in Calls : CallShape(calls'[x])
<1>1. /\ calls' \in [Calls -> CallType] /\ calls'[c] = r
      /\ \A x \in Calls \ {c} : calls'[x] = calls[x]
  BY DEF Typed, TypeOK
<1>2. QED
  BY <1>1, Zenon DEF Typed

LEMMA ReturnEnds ==
  ASSUME Typed, NEW c \in Calls, Return(c)
  PROVE  /\ calls' \in [Calls -> CallType] /\ calls'[c] = Idle
         /\ \A x \in Calls \ {c} : calls'[x] = calls[x]
         /\ \A x \in Calls : CallShape(calls'[x])
  BY IdleIsTyped, OneCallChanges DEF Return

LEMMA LoadStarts ==
  ASSUME Typed, NEW c \in Calls, NEW name \in MaybeUPS,
         NEW after \in {"page", "apply", "save"}, loadUPSDetail(c, name, after)
  PROVE  /\ calls' \in [Calls -> CallType]
         /\ calls'[c].fn = "load" /\ calls'[c].ups = name
         /\ calls'[c].after = after
         /\ \A x \in Calls \ {c} : calls'[x] = calls[x]
         /\ \A x \in Calls : CallShape(calls'[x])
         /\ selectedUPS' = name /\ lastLoad' = c /\ overtaken' = overtaken
<1> DEFINE r == [Idle EXCEPT !.fn = "load", !.ups = name, !.after = after]
<1>1. /\ r \in CallType /\ CallShape(r)
      /\ r.fn = "load" /\ r.ups = name /\ r.after = after
  BY IdleIsTyped DEF Idle, CallType, CallShape
<1>2. calls' = [calls EXCEPT ![c] = r]
  BY DEF loadUPSDetail
<1> HIDE DEF r
<1>3. QED
  BY <1>1, <1>2, OneCallChanges DEF loadUPSDetail

(* A command or a save that is sent.                                       *)
LEMMA CallStarts ==
  ASSUME Typed, NEW c \in Calls, NEW fn \in {"command", "save"},
         calls' = [calls EXCEPT ![c] = [Idle EXCEPT !.fn = fn, !.ups = selectedUPS]]
  PROVE  /\ calls' \in [Calls -> CallType]
         /\ calls'[c].fn = fn /\ calls'[c].after = "page"
         /\ \A x \in Calls \ {c} : calls'[x] = calls[x]
         /\ \A x \in Calls : CallShape(calls'[x])
<1> DEFINE r == [Idle EXCEPT !.fn = fn, !.ups = selectedUPS]
<1>1. /\ r \in CallType /\ CallShape(r)
      /\ r.fn = fn /\ r.after = "page"
  BY IdleIsTyped DEF Idle, CallType, CallShape, Typed, TypeOK
<1>2. calls' = [calls EXCEPT ![c] = r]
  OBVIOUS
<1> HIDE DEF r
<1>3. QED
  BY <1>1, <1>2, OneCallChanges

LEMMA ApplyStarts ==
  ASSUME Typed, NEW c \in Calls, NEW left \in SUBSET Vars, NEW v \in left,
         NEW dirty, setWritableVariable(c, v, left, dirty)
  PROVE  /\ calls' \in [Calls -> CallType]
         /\ calls'[c].fn = "apply" /\ calls'[c].after = "page"
         /\ \A x \in Calls \ {c} : calls'[x] = calls[x]
         /\ \A x \in Calls : CallShape(calls'[x])
<1> DEFINE r == [Idle EXCEPT !.fn = "apply", !.ups = selectedUPS, !.var = v,
                             !.value = inputs[v], !.left = left \ {v}]
<1>1. selectedUPS \in MaybeUPS /\ inputs[v] \in Values /\ v \in Vars
      /\ left \ {v} \in SUBSET Vars
  BY DEF Typed, TypeOK
<1>2. /\ r \in CallType /\ CallShape(r)
      /\ r.fn = "apply" /\ r.after = "page"
  BY <1>1, IdleIsTyped DEF Idle, CallType, CallShape
<1>3. calls' = [calls EXCEPT ![c] = r]
  BY DEF setWritableVariable
<1> HIDE DEF r
<1>4. QED
  BY <1>2, <1>3, OneCallChanges

-----------------------------------------------------------------------------
LEMMA InitInv == Init => Inv
<1> SUFFICES ASSUME Init PROVE Inv
  OBVIOUS
<1> USE NullsAreNone
<1>1. \A c \in Calls : /\ calls[c] \in CallType /\ CallShape(calls[c])
                       /\ calls[c].fn \in {"idle", "refresh"}
                       /\ calls[c].after = "page" /\ ~calls[c].answered
  <2>0. ~Idle.answered
    BY DEF Idle
  <2>1. CASE env.sse
    <3>1. calls = [c \in Calls |-> Idle]
      BY <2>1 DEF Init
    <3>2. QED
      BY <3>1, <2>0, IdleIsTyped
  <2>2. CASE ~env.sse
    <3> DEFINE r == [Idle EXCEPT !.fn = "refresh"]
    <3>1. /\ r \in CallType /\ CallShape(r) /\ ~r.answered
          /\ r.fn = "refresh" /\ r.after = "page"
      BY IdleIsTyped DEF Idle, CallType, CallShape
    <3>3. PICK c \in Calls : calls = [x \in Calls |-> IF x = c THEN r ELSE Idle]
      BY <2>2 DEF Init
    <3> HIDE DEF r
    <3>4. QED
      BY <3>1, <2>0, <3>3, IdleIsTyped
  <2>3. QED
    BY <2>1, <2>2
<1>2. calls \in [Calls -> CallType]
  <2>1. calls = [c \in Calls |-> calls[c]]
    BY DEF Init
  <2>2. QED
    BY <1>1, <2>1, Zenon
<1>3. TypeOK
  <2>1. Blank \in [Vars -> Values] /\ [d \in Devices |-> Initial] \in [Devices -> Values]
    BY ConstantsAssumption DEF ConstantsAssumption, Blank
  <2>2. [d \in Devices |-> Blank] \in [Devices -> [Vars -> Values]]
    BY <2>1
  <2>3. node \in [attached : SUBSET Devices, vars : [Devices -> [Vars -> Values]],
                  live : [Devices -> Values]]
    BY <2>1, <2>2 DEF Init
  <2>4. env \in EnvType /\ acts \in 0..MaxActs
    BY ConstantsAssumption DEF ConstantsAssumption, Init
  <2>5. dialog \in [kind : {"none", "confirm", "metadata"}, ups : MaybeUPS]
    BY DEF Init, NoDialog, MaybeUPS
  <2>6. QED
    BY <1>2, <2>1, <2>3, <2>4, <2>5 DEF Init, TypeOK, MaybeUPS, MaybeDetail
<1>4. Typed
  BY <1>1, <1>3, Zenon DEF Typed
<1>5. DirtyInv /\ ShownInv
  BY DEF DirtyInv, DirtyMatchesInputs, ShownInv, ShownIsSelected, Init
<1>6. SteadyInv
  BY <1>1 DEF SteadyInv, Init, NoDialog, Acting
<1>7. AloneInv
  <2>1. \A c \in Calls : calls[c].fn # "load"
    BY <1>1
  <2>2. \A c, d \in Calls : calls[c].fn # "idle" /\ calls[d].fn # "idle" => c = d
    <3>1. CASE env.sse
      BY <3>1, IdleIsTyped DEF Init
    <3>2. CASE ~env.sse
      <4>1. PICK c \in Calls : calls = [x \in Calls |->
                 IF x = c THEN [Idle EXCEPT !.fn = "refresh"] ELSE Idle]
        BY <3>2 DEF Init
      <4>2. \A x \in Calls \ {c} : calls[x] = Idle
        BY <4>1
      <4>3. QED
        BY <4>2, IdleIsTyped
    <3>3. QED
      BY <3>1, <3>2
  <2>3. env.sse => \A c \in Calls : calls[c].fn # "refresh"
    BY IdleIsTyped DEF Init
  <2>4. ~overtaken /\ dialog.kind # "metadata" /\ misdirected = {}
    BY DEF Init, NoDialog
  <2>5. QED
    BY <2>1, <2>2, <2>3, <2>4 DEF AloneInv
<1>8. QED
  BY <1>4, <1>5, <1>6, <1>7 DEF Inv

-----------------------------------------------------------------------------
(* A step that draws nothing and touches no setting keeps the marks right, *)
(* unless it ends an apply.                                                *)
LEMMA DirtyKept ==
  ASSUME Inv, UNCHANGED <<dirtyVariables, pane, inputs>>,
         detail # NoDetail => detail' # NoDetail,
         \A c \in Calls : calls[c].fn = "apply" \/ calls[c].after = "apply" =>
           calls'[c].fn = "apply" \/ calls'[c].after = "apply"
  PROVE  DirtyInv'
  BY DEF Inv, DirtyInv, DirtyMatchesInputs

(* An empty pane shows nothing that could be wrong.                        *)
LEMMA DirtyWhenEmpty ==
  ASSUME pane' = NoDetail
  PROVE  DirtyInv'
  BY DEF DirtyInv, DirtyMatchesInputs

(* The start of a load keeps what concerns the pane.                       *)
LEMMA ShownByLoad ==
  ASSUME Inv, NEW c \in Calls, NEW name \in MaybeUPS,
         NEW after \in {"page", "apply", "save"}, loadUPSDetail(c, name, after)
  PROVE  ShownInv'
  BY LoadStarts, NullsAreNone DEF Inv, ShownInv, ShownIsSelected

(* So does a step that leaves the pane, the selection and loads alone.     *)
LEMMA ShownKept ==
  ASSUME Inv, UNCHANGED <<pane, selectedUPS, hist>>,
         \A c \in Calls : calls[c].fn = "load" =>
           calls'[c].fn = "load" /\ calls'[c].ups = calls[c].ups
  PROVE  ShownInv'
<1>1. lastLoad # NoCall => lastLoad \in Calls
  BY DEF Inv, Typed, TypeOK
<1>2. QED
  BY <1>1 DEF Inv, ShownInv, ShownIsSelected, hist

(* What a step of call c has to show about a page whose UPSes stay.        *)
LEMMA SteadyKept ==
  ASSUME Inv, NEW c \in Calls, UNCHANGED <<node, upses, env>>,
         \A x \in Calls \ {c} : calls'[x] = calls[x],
         calls'[c].fn # "refresh",
         selectedUPS' = selectedUPS,
         ~env.unplug /\ (Acting(calls'[c]) \/ pane' # NoDetail \/ dialog'.kind # "none") =>
           selectedUPS # NoUPS,
         ~env.unplug /\ dialog'.kind = "confirm" => dialog'.ups = selectedUPS,
         ~env.unplug => "confirmed" \notin misdirected'
  PROVE  ~env'.unplug => SteadyInv'
<1> SUFFICES ASSUME ~env.unplug PROVE SteadyInv'
  OBVIOUS
<1>1. SteadyInv
  BY DEF Inv
<1>2. \A x \in Calls : calls'[x].fn = "refresh" => calls'[x] = calls[x]
  OBVIOUS
<1>3. \A x \in Calls : calls'[x].fn = "refresh" /\ calls'[x].answered /\ calls'[x].ok =>
                         calls'[x].list = node'.attached
  BY <1>1, <1>2 DEF SteadyInv
<1>4. \A x \in Calls : Acting(calls'[x]) => selectedUPS' # NoUPS
  BY <1>1 DEF SteadyInv
<1>5. QED
  BY <1>1, <1>3, <1>4 DEF SteadyInv

(* A user who waits finds every call idle, and a call finds the others so. *)
Waiting == ~env.unplug /\ ~env.overlap

LEMMA OthersAreIdle ==
  ASSUME Inv, NEW c \in Calls, Waiting, calls[c].fn # "idle" \/ AllIdle
  PROVE  \A x \in Calls \ {c} : calls[x].fn = "idle"
  BY IdleIsTyped DEF Inv, AloneInv, AllIdle, Waiting

LEMMA AloneKept ==
  ASSUME Inv, NEW c \in Calls, env' = env,
         \A x \in Calls \ {c} : calls'[x] = calls[x],
         Waiting => calls[c].fn # "idle" \/ AllIdle,
         calls'[c].fn = "load" => lastLoad' = c,
         calls'[c].fn # "refresh",
         Waiting => /\ ~overtaken'
                    /\ dialog'.kind = "metadata" => dialog'.ups = selectedUPS'
                    /\ misdirected' = {}
  PROVE  ~env'.unplug /\ ~env'.overlap => AloneInv'
<1> SUFFICES ASSUME Waiting PROVE AloneInv'
  BY DEF Waiting
<1>1. \A x \in Calls \ {c} : calls'[x].fn = "idle"
  BY OthersAreIdle
<1>2. QED
  BY <1>1 DEF AloneInv

(* Then nothing is loading, and the pane shows the selected UPS.           *)
LEMMA PaneIsSelected ==
  ASSUME Inv, Waiting, pane # NoDetail,
         AllIdle \/ \E c \in Calls : calls[c].fn \notin {"idle", "load"}
  PROVE  selectedUPS = pane.name
<1>1. lastLoad = NoCall
  <2>1. SUFFICES ASSUME lastLoad # NoCall PROVE FALSE
    OBVIOUS
  <2>2. lastLoad \in Calls /\ calls[lastLoad].fn = "load"
    BY <2>1 DEF Inv, Typed, TypeOK, ShownInv
  <2>3. CASE AllIdle
    BY <2>2, <2>3, IdleIsTyped DEF AllIdle
  <2>4. CASE \E c \in Calls : calls[c].fn \notin {"idle", "load"}
    BY <2>2, <2>4, OthersAreIdle
  <2>5. QED
    BY <2>3, <2>4
<1>2. QED
  BY <1>1 DEF Inv, ShownInv, ShownIsSelected, AloneInv, SteadyInv, Waiting

-----------------------------------------------------------------------------
LEMMA LoadAnsweredKeeps ==
  ASSUME Inv, NEW c \in Calls, LoadAnswered(c)
  PROVE  Inv'
<1> USE NullsAreNone
<1>1. /\ calls' \in [Calls -> CallType] /\ calls'[c] = Idle
      /\ \A x \in Calls \ {c} : calls'[x] = calls[x]
      /\ \A x \in Calls : CallShape(calls'[x])
  BY ReturnEnds DEF Inv, LoadAnswered
<1>2. /\ calls[c].fn = "load"
      /\ calls[c].ok => calls[c].answer \in Details /\ calls[c].answer.name = calls[c].ups
  BY DEF Inv, Typed, LoadAnswered, Pending, CallShape
<1>3. calls[c].ok => /\ pane' = calls[c].answer /\ detail' = calls[c].answer
                     /\ inputs' = calls[c].answer.vars /\ dirtyVariables' = {}
                     /\ applyEnabled' = FALSE
  BY DEF LoadAnswered, renderDetail, renderWritable
<1>4. ~calls[c].ok => /\ pane' = NoDetail /\ detail' = detail
                      /\ inputs' = Blank /\ dirtyVariables' = dirtyVariables
                      /\ applyEnabled' = FALSE
  BY DEF LoadAnswered, renderEmptyDetail
<1>5. TypeOK'
  <2>1. Blank \in [Vars -> Values]
    BY ConstantsAssumption DEF ConstantsAssumption, Blank
  <2>2. /\ pane' \in MaybeDetail /\ detail' \in MaybeDetail
        /\ inputs' \in [Vars -> Values] /\ dirtyVariables' \in SUBSET Vars
        /\ applyEnabled' \in BOOLEAN
    BY <1>2, <1>3, <1>4, <2>1 DEF Inv, Typed, TypeOK, MaybeDetail, Details
  <2>3. /\ lastLoad' \in Calls \cup {NoCall}
        /\ overtaken' \in BOOLEAN /\ saving' \in BOOLEAN
    BY DEF LoadAnswered, Inv, Typed, TypeOK, CallType
  <2>4. QED
    BY <1>1, <2>2, <2>3 DEF Inv, Typed, TypeOK, LoadAnswered
<1>6. Typed'
  BY <1>1, <1>5 DEF Typed
<1>7. DirtyInv'
  <2>1. CASE calls[c].ok
    BY <1>2, <1>3, <2>1 DEF DirtyInv, DirtyMatchesInputs
  <2>2. CASE ~calls[c].ok
    BY <1>4, <2>2, DirtyWhenEmpty
  <2>3. QED
    BY <2>1, <2>2
<1>8. ShownInv'
  <2>1. lastLoad' # NoCall => lastLoad \in Calls \ {c} /\ lastLoad' = lastLoad
    BY DEF LoadAnswered, Inv, Typed, TypeOK
  <2>2. lastLoad' # NoCall => /\ calls'[lastLoad'].fn = "load"
                              /\ selectedUPS' \in {calls'[lastLoad'].ups, NoUPS}
    BY <1>1, <2>1 DEF Inv, ShownInv, LoadAnswered
  <2>3. ShownIsSelected'
    <3>1. SUFFICES ASSUME lastLoad' = NoCall, ~overtaken', pane' # NoDetail
                   PROVE  selectedUPS' \in {pane'.name, NoUPS}
      BY DEF ShownIsSelected
    <3>2. calls[c].ok
      BY <1>4, <3>1
    <3>3. lastLoad = c
      BY <3>1, <3>2 DEF LoadAnswered
    <3>4. selectedUPS \in {calls[c].ups, NoUPS}
      BY <3>3 DEF Inv, ShownInv
    <3>5. QED
      BY <1>2, <1>3, <3>2, <3>4 DEF LoadAnswered
  <2>4. QED
    BY <2>2, <2>3 DEF ShownInv
<1>9. ~env'.unplug => SteadyInv'
  <2>1. ~env.unplug => selectedUPS # NoUPS /\ "confirmed" \notin misdirected
                       /\ (dialog.kind = "confirm" => dialog.ups = selectedUPS)
    BY <1>2 DEF Inv, SteadyInv, Acting
  <2>2. QED
    BY <1>1, <2>1, IdleIsTyped, SteadyKept DEF LoadAnswered
<1>10. ~env'.unplug /\ ~env'.overlap => AloneInv'
  <2>1. Waiting => lastLoad = c /\ misdirected = {}
                   /\ (dialog.kind = "metadata" => dialog.ups = selectedUPS)
    BY <1>2 DEF Inv, AloneInv, Waiting
  <2>2. Waiting => ~overtaken'
    BY <2>1 DEF LoadAnswered
  <2>3. QED
    BY <1>1, <1>2, <2>1, <2>2, IdleIsTyped, AloneKept DEF LoadAnswered
<1>11. QED
  BY <1>6, <1>7, <1>8, <1>9, <1>10 DEF Inv

LEMMA CommandAnsweredKeeps ==
  ASSUME Inv, NEW c \in Calls, CommandAnswered(c)
  PROVE  Inv'
<1>0. selectedUPS \in MaybeUPS /\ calls[c].fn = "command" /\ calls[c].ok \in BOOLEAN
      /\ calls[c].after # "apply"
  BY DEF Inv, Typed, TypeOK, CallType, CallShape, CommandAnswered, Pending
<1>1. /\ calls' \in [Calls -> CallType] /\ calls'[c].fn \in {"idle", "load"}
      /\ \A x \in Calls \ {c} : calls'[x] = calls[x]
      /\ \A x \in Calls : CallShape(calls'[x])
      /\ selectedUPS' = selectedUPS /\ overtaken' = overtaken
      /\ lastLoad' \in Calls \cup {NoCall}
      /\ calls'[c].fn = "load" => lastLoad' = c
  <2>1. CASE calls[c].ok
    BY <1>0, <2>1, LoadStarts DEF Inv, CommandAnswered
  <2>2. CASE ~calls[c].ok
    BY <2>2, ReturnEnds, IdleIsTyped DEF Inv, Typed, TypeOK, CommandAnswered, hist
  <2>3. QED
    BY <2>1, <2>2
<1>2. Typed'
  BY <1>1 DEF Inv, Typed, TypeOK, CommandAnswered, dom
<1>3. DirtyInv'
  BY <1>0, <1>1, DirtyKept DEF CommandAnswered, dom
<1>4. ShownInv'
  <2>1. CASE calls[c].ok
    BY <1>0, <2>1, ShownByLoad DEF CommandAnswered
  <2>2. CASE ~calls[c].ok
    BY <1>0, <1>1, <2>2, ShownKept DEF CommandAnswered, dom
  <2>3. QED
    BY <2>1, <2>2
<1>5. ~env'.unplug => SteadyInv'
  BY <1>0, <1>1, SteadyKept DEF Inv, SteadyInv, Acting, CommandAnswered
<1>6. ~env'.unplug /\ ~env'.overlap => AloneInv'
  BY <1>0, <1>1, AloneKept DEF Inv, AloneInv, Waiting, CommandAnswered
<1>7. QED
  BY <1>2, <1>3, <1>4, <1>5, <1>6 DEF Inv

LEMMA SaveAnsweredKeeps ==
  ASSUME Inv, NEW c \in Calls, SaveAnswered(c)
  PROVE  Inv'
<1>0. selectedUPS \in MaybeUPS /\ calls[c].fn = "save" /\ calls[c].ok \in BOOLEAN
      /\ calls[c].after # "apply"
  BY DEF Inv, Typed, TypeOK, CallType, CallShape, SaveAnswered, Pending
<1>1. /\ calls' \in [Calls -> CallType] /\ calls'[c].fn \in {"idle", "load"}
      /\ \A x \in Calls \ {c} : calls'[x] = calls[x]
      /\ \A x \in Calls : CallShape(calls'[x])
      /\ selectedUPS' = selectedUPS /\ overtaken' = overtaken
      /\ lastLoad' \in Calls \cup {NoCall}
      /\ calls'[c].fn = "load" => lastLoad' = c
  <2>1. CASE calls[c].ok
    BY <1>0, <2>1, LoadStarts DEF Inv, SaveAnswered
  <2>2. CASE ~calls[c].ok
    BY <2>2, ReturnEnds, IdleIsTyped DEF Inv, Typed, TypeOK, SaveAnswered, hist
  <2>3. QED
    BY <2>1, <2>2
<1>2. /\ dialog' \in {dialog, NoDialog} /\ saving' \in BOOLEAN
      /\ NoDialog \in [kind : {"none", "confirm", "metadata"}, ups : MaybeUPS]
      /\ NoDialog.kind = "none"
  BY DEF Inv, Typed, TypeOK, SaveAnswered, NoDialog, MaybeUPS
<1>3. Typed'
  BY <1>1, <1>2 DEF Inv, Typed, TypeOK, SaveAnswered, dom
<1>4. DirtyInv'
  BY <1>0, <1>1, DirtyKept DEF SaveAnswered, dom
<1>5. ShownInv'
  <2>1. CASE calls[c].ok
    BY <1>0, <2>1, ShownByLoad DEF SaveAnswered
  <2>2. CASE ~calls[c].ok
    BY <1>0, <1>1, <2>2, ShownKept DEF SaveAnswered, dom
  <2>3. QED
    BY <2>1, <2>2
<1>6. ~env'.unplug => SteadyInv'
  BY <1>0, <1>1, <1>2, SteadyKept DEF Inv, SteadyInv, Acting, SaveAnswered
<1>7. ~env'.unplug /\ ~env'.overlap => AloneInv'
  BY <1>0, <1>1, <1>2, AloneKept DEF Inv, AloneInv, Waiting, SaveAnswered
<1>8. QED
  BY <1>3, <1>4, <1>5, <1>6, <1>7 DEF Inv

LEMMA RefreshAnsweredKeeps ==
  ASSUME Inv, NEW c \in Calls, RefreshAnswered(c)
  PROVE  Inv'
<1> USE NullsAreNone
<1> DEFINE list == calls[c].list
           kept == IF selectedUPS \in list THEN selectedUPS
                   ELSE IF list = {} THEN NoUPS ELSE First(list)
<1>0. /\ calls[c].fn = "refresh" /\ calls[c].ok \in BOOLEAN /\ calls[c].answered
      /\ calls[c].after # "apply" /\ list \in SUBSET Devices
  BY DEF Inv, Typed, TypeOK, CallType, CallShape, RefreshAnswered, Pending
<1>1. kept \in list \cup {NoUPS} /\ (kept = NoUPS => list = {})
  BY <1>0, FirstIsListed
<1>2. /\ ~calls[c].ok => /\ Return(c)
                         /\ UNCHANGED <<upses, selectedUPS, hist, dom>>
      /\ calls[c].ok =>
           /\ upses' = list
           /\ kept = NoUPS => /\ selectedUPS' = NoUPS /\ Return(c) /\ renderEmptyDetail
                              /\ UNCHANGED hist
           /\ kept # NoUPS => loadUPSDetail(c, kept, "page") /\ UNCHANGED dom
  BY DEF RefreshAnswered
<1> HIDE DEF kept
<1>3. /\ calls' \in [Calls -> CallType] /\ calls'[c].fn \in {"idle", "load"}
      /\ \A x \in Calls \ {c} : calls'[x] = calls[x]
      /\ \A x \in Calls : CallShape(calls'[x])
      /\ selectedUPS' = (IF calls[c].ok THEN kept ELSE selectedUPS)
      /\ upses' = (IF calls[c].ok THEN list ELSE upses)
      /\ overtaken' = overtaken
      /\ lastLoad' \in Calls \cup {NoCall}
      /\ calls'[c].fn = "load" => /\ lastLoad' = c
                                  /\ selectedUPS' # NoUPS
  <2>1. CASE calls[c].ok /\ kept # NoUPS
    BY <1>0, <1>1, <1>2, <2>1, LoadStarts DEF Inv, MaybeUPS
  <2>2. CASE ~(calls[c].ok /\ kept # NoUPS)
    BY <1>0, <1>2, <2>2, ReturnEnds, IdleIsTyped DEF Inv, Typed, TypeOK, hist
  <2>3. QED
    BY <2>1, <2>2
<1>4. \/ pane' = NoDetail /\ inputs' = Blank /\ applyEnabled' = FALSE
      \/ UNCHANGED <<pane, inputs, applyEnabled>>
  BY <1>0, <1>2 DEF renderEmptyDetail, dom
<1>5. Typed'
  <2>1. Blank \in [Vars -> Values]
    BY ConstantsAssumption DEF ConstantsAssumption, Blank
  <2>2. /\ pane' \in MaybeDetail /\ inputs' \in [Vars -> Values]
        /\ applyEnabled' \in BOOLEAN
    BY <1>4, <2>1 DEF Inv, Typed, TypeOK, MaybeDetail
  <2>3. selectedUPS' \in MaybeUPS /\ upses' \in SUBSET Devices
    BY <1>0, <1>1, <1>3 DEF Inv, Typed, TypeOK, MaybeUPS
  <2>4. QED
    BY <1>3, <2>2, <2>3 DEF Inv, Typed, TypeOK, RefreshAnswered
<1>6. DirtyInv'
  BY <1>0, <1>3, <1>4, DirtyKept, DirtyWhenEmpty DEF RefreshAnswered
<1>7. ShownInv'
  <2>1. CASE calls[c].ok /\ kept # NoUPS
    BY <1>0, <1>1, <1>2, <2>1, ShownByLoad DEF MaybeUPS
  <2>2. CASE calls[c].ok /\ kept = NoUPS
    <3>1. pane' = NoDetail /\ selectedUPS' = NoUPS /\ lastLoad' = lastLoad
      BY <1>2, <2>2 DEF renderEmptyDetail, hist
    <3>2. QED
      BY <1>0, <1>3, <3>1 DEF Inv, Typed, TypeOK, ShownInv, ShownIsSelected
  <2>3. CASE ~calls[c].ok
    BY <1>0, <1>2, <1>3, <2>3, ShownKept DEF dom
  <2>4. QED
    BY <2>1, <2>2, <2>3
<1>8. ~env'.unplug => SteadyInv'
  <2>1. SUFFICES ASSUME ~env.unplug PROVE SteadyInv'
    BY DEF RefreshAnswered
  <2>2. SteadyInv /\ UNCHANGED <<node, dialog, misdirected>>
    BY <2>1 DEF Inv, RefreshAnswered
  <2>3. calls[c].ok => list = node.attached
    BY <1>0, <2>2 DEF SteadyInv
  <2>4. selectedUPS # NoUPS => selectedUPS' = selectedUPS
    BY <1>3, <2>2, <2>3 DEF SteadyInv, kept
  <2>5. upses' \subseteq node'.attached /\ selectedUPS' \in node'.attached \cup {NoUPS}
    BY <1>1, <1>3, <2>2, <2>3 DEF SteadyInv
  <2>6. \A x \in Calls : Acting(calls'[x]) => selectedUPS' # NoUPS
    BY <1>3, <2>2, <2>4 DEF SteadyInv, Acting
  <2>7. \A x \in Calls :
          calls'[x].fn = "refresh" /\ calls'[x].answered /\ calls'[x].ok =>
            calls'[x].list = node'.attached
    <3>1. \A x \in Calls : calls'[x].fn = "refresh" => calls'[x] = calls[x]
      BY <1>3
    <3>2. QED
      BY <2>2, <3>1 DEF SteadyInv
  <2>8. /\ pane' # NoDetail => selectedUPS' # NoUPS
        /\ dialog'.kind # "none" => selectedUPS' # NoUPS
        /\ dialog'.kind = "confirm" => dialog'.ups = selectedUPS'
    BY <1>4, <2>2, <2>4 DEF SteadyInv
  <2>9. QED
    BY <2>2, <2>5, <2>6, <2>7, <2>8 DEF SteadyInv
<1>9. ~env'.unplug /\ ~env'.overlap => AloneInv'
  <2>1. Waiting /\ dialog.kind # "none" => selectedUPS' = selectedUPS
    <3>1. SUFFICES ASSUME Waiting, dialog.kind # "none" PROVE selectedUPS' = selectedUPS
      OBVIOUS
    <3>2. SteadyInv
      BY <3>1 DEF Inv, Waiting
    <3>3. calls[c].ok => list = node.attached
      BY <1>0, <3>2 DEF SteadyInv
    <3>4. QED
      BY <1>3, <3>1, <3>2, <3>3 DEF SteadyInv, kept
  <2>2. QED
    BY <1>0, <1>3, <2>1, AloneKept DEF Inv, AloneInv, Waiting, RefreshAnswered
<1>10. QED
  BY <1>5, <1>6, <1>7, <1>8, <1>9 DEF Inv

-----------------------------------------------------------------------------
LEMMA ActsAreCounted ==
  ASSUME TypeOK, acts > 0, acts' = acts - 1
  PROVE  acts' \in 0..MaxActs
  BY ConstantsAssumption DEF TypeOK, ConstantsAssumption

(* The loop of an apply, in its first round and after an answer.           *)
LEMMA ApplyGoesOn ==
  ASSUME Inv, NEW c \in Calls, NEW left \in SUBSET Vars, NEW dirty \in SUBSET Vars,
         applyNext(c, left, dirty)
  PROVE  /\ calls' \in [Calls -> CallType]
         /\ \A x \in Calls \ {c} : calls'[x] = calls[x]
         /\ \A x \in Calls : CallShape(calls'[x])
         /\ selectedUPS' = selectedUPS /\ overtaken' = overtaken
         /\ lastLoad' \in Calls \cup {NoCall}
         /\ dirtyVariables' \in SUBSET Vars
         /\ misdirected' \in {misdirected, misdirected \cup {"setting"}}
         /\ \/ /\ calls'[c].fn = "apply" /\ lastLoad' = lastLoad /\ pane # NoDetail
               /\ selectedUPS \in {pane.name, NoUPS} => misdirected' = misdirected
            \/ /\ calls'[c].fn = "idle" /\ lastLoad' = lastLoad
               /\ detail = NoDetail /\ misdirected' = misdirected
            \/ /\ calls'[c].fn = "load" /\ calls'[c].after = "apply"
               /\ loadUPSDetail(c, selectedUPS, "apply") /\ misdirected' = misdirected
<1>0. selectedUPS \in MaybeUPS /\ lastLoad \in Calls \cup {NoCall} /\ Typed
  BY DEF Inv, Typed, TypeOK
<1>1. CASE /\ left # {} /\ detail # NoDetail /\ pane # NoDetail
           /\ \E v \in left : setWritableVariable(c, v, left, dirty)
  <2>1. PICK v \in left : setWritableVariable(c, v, left, dirty)
    BY <1>1
  <2>2. /\ misdirected' \in {misdirected, misdirected \cup {"setting"}}
        /\ selectedUPS \in {pane.name, NoUPS} => misdirected' = misdirected
        /\ dirtyVariables' = dirty
        /\ selectedUPS' = selectedUPS /\ overtaken' = overtaken /\ lastLoad' = lastLoad
    BY <2>1 DEF setWritableVariable, Sends, hist
  <2>3. QED
    BY <1>0, <1>1, <2>1, <2>2, ApplyStarts
<1>2. CASE /\ left # {} /\ detail = NoDetail
           /\ Return(c)
           /\ dirtyVariables' = dirty
           /\ UNCHANGED <<selectedUPS, hist, misdirected>>
  BY <1>0, <1>2, ReturnEnds, IdleIsTyped DEF hist
<1>3. CASE /\ left = {} \/ (detail # NoDetail /\ pane = NoDetail)
           /\ dirtyVariables' = dirty \ left
           /\ loadUPSDetail(c, selectedUPS, "apply")
           /\ UNCHANGED misdirected
  BY <1>0, <1>3, LoadStarts
<1>4. QED
  BY <1>1, <1>2, <1>3 DEF applyNext

(* What both callers of the loop have to show.                             *)
LEMMA ApplyKeeps ==
  ASSUME Inv, NEW c \in Calls, NEW left \in SUBSET Vars, NEW dirty \in SUBSET Vars,
         applyNext(c, left, dirty), TypeOK',
         calls[c].fn = "apply" \/ (calls[c] = Idle /\ selectedUPS # NoUPS /\ detail # NoDetail),
         Waiting => calls[c].fn = "apply" \/ AllIdle,
         UNCHANGED <<node, upses, detail, pane, inputs, dialog, saving, env>>
  PROVE  Inv'
<1> USE NullsAreNone
<1>0. /\ calls[c].after # "apply" /\ calls[c].fn # "load"
      /\ calls[c].fn # "apply" => detail # NoDetail
  BY IdleIsTyped DEF Inv, Typed, CallShape
<1>1. Typed'
  BY ApplyGoesOn DEF Typed
<1>2. DirtyInv'
  <2>1. CASE calls'[c].fn = "idle"
    <3>1. detail = NoDetail /\ pane' = NoDetail
      BY <2>1, ApplyGoesOn DEF Inv, DirtyInv
    <3>2. QED
      BY <3>1, DirtyWhenEmpty
  <2>2. CASE calls'[c].fn # "idle"
    <3>1. calls'[c].fn = "apply" \/ calls'[c].after = "apply"
      BY <2>2, ApplyGoesOn
    <3>2. QED
      BY <3>1 DEF Inv, DirtyInv, DirtyMatchesInputs
  <2>3. QED
    BY <2>1, <2>2
<1>3. ShownInv'
  <2>1. CASE calls'[c].fn = "load"
    <3>1. selectedUPS \in MaybeUPS /\ loadUPSDetail(c, selectedUPS, "apply")
      BY <2>1, ApplyGoesOn DEF Inv, Typed, TypeOK
    <3>2. QED
      BY <3>1, ShownByLoad
  <2>2. CASE calls'[c].fn # "load"
    <3>1. UNCHANGED <<pane, selectedUPS, hist>>
      BY <2>2, ApplyGoesOn DEF hist
    <3>2. \A x \in Calls : calls[x].fn = "load" =>
             calls'[x].fn = "load" /\ calls'[x].ups = calls[x].ups
      BY <1>0, ApplyGoesOn
    <3>3. QED
      BY <3>1, <3>2, ShownKept
  <2>3. QED
    BY <2>1, <2>2
<1>4. ~env.unplug => /\ selectedUPS # NoUPS /\ "confirmed" \notin misdirected
                     /\ dialog.kind = "confirm" => dialog.ups = selectedUPS
  BY DEF Inv, SteadyInv, Acting
<1>5. ~env'.unplug => SteadyInv'
  BY <1>4, ApplyGoesOn, SteadyKept
<1>6. Waiting => misdirected' = misdirected
  <2>1. Waiting /\ pane # NoDetail => selectedUPS = pane.name
    BY <1>0, PaneIsSelected
  <2>2. QED
    BY <2>1, ApplyGoesOn
<1>7. ~env'.unplug /\ ~env'.overlap => AloneInv'
  <2>1. Waiting => ~overtaken /\ misdirected = {}
                   /\ (dialog.kind = "metadata" => dialog.ups = selectedUPS)
    BY DEF Inv, AloneInv, Waiting
  <2>2. /\ \A x \in Calls \ {c} : calls'[x] = calls[x]
        /\ selectedUPS' = selectedUPS /\ overtaken' = overtaken
        /\ calls'[c].fn \in {"apply", "idle", "load"}
    BY ApplyGoesOn
  <2>3. calls'[c].fn = "load" => lastLoad' = c
    BY ApplyGoesOn DEF loadUPSDetail
  <2>4. Waiting => calls[c].fn # "idle" \/ AllIdle
    OBVIOUS
  <2>5. QED
    BY <1>6, <2>1, <2>2, <2>3, <2>4, AloneKept
<1>8. QED
  BY <1>1, <1>2, <1>3, <1>5, <1>7 DEF Inv

LEMMA applyDirtyVariablesKeeps ==
  ASSUME Inv, NEW c \in Calls, applyDirtyVariables(c)
  PROVE  Inv'
<1>1. dirtyVariables \in SUBSET Vars /\ acts' \in 0..MaxActs
  BY ActsAreCounted DEF Inv, Typed, TypeOK, applyDirtyVariables, OnPage, UserActs
<1>2. applyNext(c, dirtyVariables, dirtyVariables)
  BY DEF applyDirtyVariables
<1>3. TypeOK'
  <2>1. misdirected' \in SUBSET {"command", "confirmed", "setting", "metadata"}
    BY <1>1, <1>2, ApplyGoesOn DEF Inv, Typed, TypeOK
  <2>2. QED
    BY <1>1, <1>2, <2>1, ApplyGoesOn DEF Inv, Typed, TypeOK, applyDirtyVariables
<1>4. Waiting => AllIdle
  BY DEF applyDirtyVariables, OnPage, UserActs, Waiting
<1>5. QED
  BY <1>1, <1>2, <1>3, <1>4, ApplyKeeps DEF applyDirtyVariables

LEMMA ApplyAnsweredKeeps ==
  ASSUME Inv, NEW c \in Calls, ApplyAnswered(c)
  PROVE  Inv'
<1> DEFINE left == calls[c].left
           dirty == IF calls[c].ok THEN dirtyVariables \ {calls[c].var} ELSE dirtyVariables
<1>1. left \in SUBSET Vars /\ dirty \in SUBSET Vars
  BY DEF Inv, Typed, TypeOK, CallType
<1>2. applyNext(c, left, dirty) /\ calls[c].fn = "apply"
  BY DEF ApplyAnswered, Pending
<1> HIDE DEF left, dirty
<1>3. TypeOK'
  <2>1. misdirected' \in SUBSET {"command", "confirmed", "setting", "metadata"}
    BY <1>1, <1>2, ApplyGoesOn DEF Inv, Typed, TypeOK
  <2>2. QED
    BY <1>1, <1>2, <2>1, ApplyGoesOn DEF Inv, Typed, TypeOK, ApplyAnswered, dom
<1>4. QED
  BY <1>1, <1>2, <1>3, ApplyKeeps DEF ApplyAnswered, dom

-----------------------------------------------------------------------------
(* The telemetry of an event changes nothing else on the pane.             *)
LEMMA MetricsPatch ==
  ASSUME Inv, selectedUPS \in node.attached, updateDetailMetrics
  PROVE  /\ detail' \in MaybeDetail /\ pane' \in MaybeDetail
         /\ detail' # NoDetail <=> detail # NoDetail
         /\ pane' # NoDetail <=> pane # NoDetail
         /\ pane # NoDetail => pane'.name = pane.name /\ pane'.vars = pane.vars
<1> USE NullsAreNone
<1>1. /\ detail \in MaybeDetail /\ pane \in MaybeDetail
      /\ node.live[selectedUPS] \in Values
  BY DEF Inv, Typed, TypeOK
<1>2. \A d \in Details : LET p == [d EXCEPT !.live = node.live[selectedUPS]] IN
        p \in Details /\ p.name = d.name /\ p.vars = d.vars
  BY <1>1 DEF Details
<1>3. QED
  BY <1>1, <1>2 DEF updateDetailMetrics, MaybeDetail

LEMMA HealthEventKeeps ==
  ASSUME Inv, HealthEvent
  PROVE  Inv'
<1> USE NullsAreNone
<1>0. node.attached \in SUBSET Devices /\ Typed /\ upses' = node.attached
  BY DEF Inv, Typed, TypeOK, HealthEvent
<1>1. CASE selectedUPS \in node.attached
  <2>1. /\ updateDetailMetrics
        /\ UNCHANGED <<selectedUPS, dirtyVariables, inputs, applyEnabled, calls, hist>>
    BY <1>1 DEF HealthEvent, updateLiveUPSData
  <2>2. Typed'
    BY <1>0, <1>1, <2>1, MetricsPatch DEF HealthEvent, Typed, TypeOK, hist
  <2>3. DirtyInv' /\ ShownInv'
    BY <1>1, <2>1, MetricsPatch
    DEF Inv, DirtyInv, DirtyMatchesInputs, ShownInv, ShownIsSelected, hist
  <2>4. ~env'.unplug => SteadyInv'
    BY <1>1, <2>1, MetricsPatch DEF Inv, SteadyInv, HealthEvent
  <2>5. ~env'.unplug /\ ~env'.overlap => AloneInv'
    BY <2>1 DEF Inv, AloneInv, HealthEvent, hist
  <2>6. QED
    BY <2>2, <2>3, <2>4, <2>5 DEF Inv
<1>2. CASE selectedUPS \notin node.attached /\ node.attached = {}
  <2>1. /\ selectedUPS' = NoUPS /\ detail' = NoDetail
        /\ pane' = NoDetail /\ inputs' = Blank /\ applyEnabled' = FALSE
        /\ UNCHANGED <<dirtyVariables, calls, hist>>
    BY <1>2 DEF HealthEvent, updateLiveUPSData, renderEmptyDetail
  <2>2. Blank \in [Vars -> Values]
    BY ConstantsAssumption DEF ConstantsAssumption, Blank
  <2>3. Typed'
    BY <1>0, <2>1, <2>2 DEF HealthEvent, Typed, TypeOK, hist, MaybeUPS, MaybeDetail
  <2>4. DirtyInv' /\ ShownInv'
    BY <2>1, DirtyWhenEmpty DEF Inv, ShownInv, ShownIsSelected, hist
  <2>5. ~env.unplug => selectedUPS = NoUPS
    BY <1>2 DEF Inv, SteadyInv
  <2>6. ~env'.unplug => SteadyInv'
    BY <1>2, <2>1, <2>5 DEF Inv, SteadyInv, HealthEvent
  <2>7. ~env'.unplug /\ ~env'.overlap => AloneInv'
    BY <2>1, <2>5 DEF Inv, AloneInv, HealthEvent, hist
  <2>8. QED
    BY <2>3, <2>4, <2>6, <2>7 DEF Inv
<1>3. CASE selectedUPS \notin node.attached /\ node.attached # {}
  <2> DEFINE first == First(node.attached)
  <2>0. first \in node.attached /\ first \in MaybeUPS
    BY <1>0, <1>3, FirstIsListed DEF MaybeUPS
  <2>1. PICK c \in Calls : calls[c] = Idle /\ loadUPSDetail(c, first, "page")
    BY <1>3 DEF HealthEvent, updateLiveUPSData
  <2>2. UNCHANGED <<detail, dirtyVariables, dom>>
    BY <1>3 DEF HealthEvent, updateLiveUPSData
  <2> HIDE DEF first
  <2>3. /\ calls' \in [Calls -> CallType]
        /\ calls'[c].fn = "load"
        /\ \A x \in Calls \ {c} : calls'[x] = calls[x]
        /\ \A x \in Calls : CallShape(calls'[x])
        /\ selectedUPS' = first /\ lastLoad' = c /\ overtaken' = overtaken
    BY <1>0, <2>0, <2>1, LoadStarts
  <2>4. Typed'
    BY <1>0, <2>0, <2>2, <2>3 DEF HealthEvent, Typed, TypeOK, dom
  <2>5. DirtyInv'
    BY <2>1, <2>2, <2>3, DirtyKept, IdleIsTyped DEF dom
  <2>6. ShownInv'
    BY <2>0, <2>1, ShownByLoad
  <2>7. ~env.unplug => /\ selectedUPS = NoUPS /\ dialog.kind = "none"
                       /\ \A x \in Calls : ~Acting(calls[x])
    BY <1>3, <2>0 DEF Inv, SteadyInv, Typed, TypeOK
  <2>8. ~env'.unplug => SteadyInv'
    <3>1. \A x \in Calls : calls'[x].fn = "refresh" => calls'[x] = calls[x]
      BY <2>3
    <3>2. first # NoUPS
      BY <1>0, <2>0
    <3>3. QED
      BY <1>0, <2>0, <2>3, <2>7, <3>1, <3>2 DEF Inv, SteadyInv, HealthEvent
  <2>9. ~env'.unplug /\ ~env'.overlap => AloneInv'
    <3>1. SUFFICES ASSUME Waiting PROVE AloneInv'
      BY DEF Waiting, HealthEvent
    <3>2. \A x \in Calls \ {c} : calls'[x].fn = "idle"
      BY <2>3, <2>7, <3>1 DEF Inv, AloneInv, HealthEvent, Waiting, Acting
    <3>3. ~overtaken' /\ misdirected' = {} /\ dialog'.kind = "none"
      BY <2>3, <2>7, <3>1 DEF Inv, AloneInv, HealthEvent, Waiting
    <3>4. QED
      BY <2>3, <3>2, <3>3 DEF AloneInv
  <2>10. QED
    BY <2>4, <2>5, <2>6, <2>8, <2>9 DEF Inv
<1>4. QED
  BY <1>1, <1>2, <1>3

LEMMA SelectKeeps ==
  ASSUME Inv, NEW c \in Calls, NEW d \in Devices, Select(d, c)
  PROVE  Inv'
<1> USE NullsAreNone
<1>0. /\ loadUPSDetail(c, d, "page") /\ d \in MaybeUPS /\ calls[c] = Idle
      /\ acts' \in 0..MaxActs /\ dialog = NoDialog /\ Typed
      /\ UNCHANGED <<node, upses, detail, dirtyVariables, pane, inputs, applyEnabled,
                     dialog, saving, misdirected, env>>
  BY ActsAreCounted DEF Inv, Typed, Select, OnPage, UserActs, MaybeUPS, dom
<1>1. /\ calls' \in [Calls -> CallType]
      /\ calls'[c].fn = "load"
      /\ \A x \in Calls \ {c} : calls'[x] = calls[x]
      /\ \A x \in Calls : CallShape(calls'[x])
      /\ selectedUPS' = d /\ lastLoad' = c /\ overtaken' = overtaken
  BY <1>0, LoadStarts
<1>2. Typed'
  BY <1>0, <1>1 DEF Typed, TypeOK
<1>3. DirtyInv'
  BY <1>0, <1>1, DirtyKept, IdleIsTyped
<1>4. ShownInv'
  BY <1>0, ShownByLoad
<1>5. ~env'.unplug => SteadyInv'
  <2>1. \A x \in Calls : calls'[x].fn = "refresh" => calls'[x] = calls[x]
    BY <1>1
  <2>2. ~env.unplug => d \in node.attached
    BY DEF Inv, SteadyInv, Select
  <2>3. dialog'.kind = "none" /\ d # NoUPS
    BY <1>0 DEF NoDialog
  <2>4. QED
    BY <1>0, <1>1, <2>1, <2>2, <2>3 DEF Inv, SteadyInv
<1>6. ~env'.unplug /\ ~env'.overlap => AloneInv'
  <2>1. Waiting => AllIdle /\ ~overtaken /\ misdirected = {}
    BY DEF Select, OnPage, UserActs, Waiting, Inv, AloneInv
  <2>2. dialog'.kind = "none"
    BY <1>0 DEF NoDialog
  <2>3. QED
    BY <1>0, <1>1, <2>1, <2>2, AloneKept
<1>7. QED
  BY <1>2, <1>3, <1>4, <1>5, <1>6 DEF Inv

-----------------------------------------------------------------------------
(* What is sent with a target in mind.                                     *)
LEMMA CommandRuns ==
  ASSUME Inv, NEW c \in Calls, NEW kind \in {"command", "confirmed"}, NEW meant,
         runCommand(c, kind, meant)
  PROVE  /\ calls' \in [Calls -> CallType]
         /\ \A x \in Calls \ {c} : calls'[x] = calls[x]
         /\ \A x \in Calls : CallShape(calls'[x])
         /\ \/ calls' = calls
            \/ /\ calls[c] = Idle /\ calls'[c].fn = "command"
               /\ calls'[c].after = "page" /\ selectedUPS # NoUPS
         /\ misdirected' \in {misdirected, misdirected \cup {kind}}
         /\ selectedUPS = meant => misdirected' = misdirected
<1>1. CASE selectedUPS = NoUPS
  BY <1>1 DEF Inv, Typed, TypeOK, runCommand
<1>2. CASE selectedUPS # NoUPS
  BY <1>2, CallStarts DEF Inv, runCommand, Sends
<1>3. QED
  BY <1>1, <1>2

LEMMA PressRunKeeps ==
  ASSUME Inv, NEW c \in Calls, PressRun(c)
  PROVE  Inv'
<1> DEFINE meant == pane.name
<1>0. /\ runCommand(c, "command", meant) /\ acts' \in 0..MaxActs
      /\ pane # NoDetail /\ dialog.kind = "none"
      /\ Waiting => AllIdle
      /\ UNCHANGED <<node, upses, selectedUPS, detail, dirtyVariables, pane, inputs,
                     applyEnabled, dialog, saving, lastLoad, overtaken, env>>
  BY ActsAreCounted
  DEF Inv, Typed, PressRun, OnPage, UserActs, Waiting, NoDialog, dom, hist
<1>1. Waiting => selectedUPS = meant
  BY <1>0, PaneIsSelected
<1> HIDE DEF meant
<1>2. Typed'
  BY <1>0, CommandRuns DEF Inv, Typed, TypeOK
<1>3. DirtyInv'
  BY <1>0, CommandRuns, DirtyKept, IdleIsTyped
<1>4. ShownInv'
  BY <1>0, CommandRuns, ShownKept, IdleIsTyped DEF hist
<1>5. ~env'.unplug => SteadyInv'
  <2>1. CASE calls' = calls
    BY <1>0, <2>1, CommandRuns DEF Inv, SteadyInv
  <2>2. CASE calls'[c].fn = "command"
    BY <1>0, <2>2, CommandRuns, SteadyKept DEF Inv, SteadyInv
  <2>3. QED
    BY <1>0, <2>1, <2>2, CommandRuns
<1>6. ~env'.unplug /\ ~env'.overlap => AloneInv'
  <2>1. Waiting => misdirected' = {} /\ ~overtaken'
    BY <1>0, <1>1, CommandRuns DEF Inv, AloneInv, Waiting
  <2>2. CASE calls' = calls
    BY <1>0, <2>1, <2>2 DEF Inv, AloneInv, Waiting
  <2>3. CASE calls'[c].fn = "command"
    BY <1>0, <2>1, <2>3, CommandRuns, AloneKept
  <2>4. QED
    BY <1>0, <2>2, <2>3, CommandRuns
<1>7. QED
  BY <1>2, <1>3, <1>4, <1>5, <1>6 DEF Inv

LEMMA ConfirmSubmitKeeps ==
  ASSUME Inv, NEW c \in Calls, ConfirmSubmit(c)
  PROVE  Inv'
<1> DEFINE meant == dialog.ups
<1>0. /\ runCommand(c, "confirmed", meant) /\ acts' \in 0..MaxActs
      /\ dialog' = NoDialog /\ dialog'.kind = "none"
      /\ Waiting => AllIdle
      /\ UNCHANGED <<node, upses, selectedUPS, detail, dirtyVariables, pane, inputs,
                     applyEnabled, saving, lastLoad, overtaken, env>>
  BY ActsAreCounted
  DEF Inv, Typed, ConfirmSubmit, UserActs, Waiting, NoDialog, state, dom, hist
<1>1. ~env.unplug => selectedUPS = meant /\ selectedUPS # NoUPS
  BY DEF Inv, SteadyInv, ConfirmSubmit
<1> HIDE DEF meant
<1>2. Typed'
  <2>1. NoDialog \in [kind : {"none", "confirm", "metadata"}, ups : MaybeUPS]
    BY DEF NoDialog, MaybeUPS
  <2>2. QED
    BY <1>0, <2>1, CommandRuns DEF Inv, Typed, TypeOK
<1>3. DirtyInv'
  BY <1>0, CommandRuns, DirtyKept, IdleIsTyped
<1>4. ShownInv'
  BY <1>0, CommandRuns, ShownKept, IdleIsTyped DEF hist
<1>5. ~env'.unplug => SteadyInv'
  <2>1. ~env.unplug => misdirected' = misdirected
    BY <1>0, <1>1, CommandRuns
  <2>2. CASE calls' = calls
    BY <1>0, <2>1, <2>2 DEF Inv, SteadyInv
  <2>3. CASE calls'[c].fn = "command"
    BY <1>0, <1>1, <2>1, <2>3, CommandRuns, SteadyKept DEF Inv, SteadyInv
  <2>4. QED
    BY <1>0, <2>2, <2>3, CommandRuns
<1>6. ~env'.unplug /\ ~env'.overlap => AloneInv'
  <2>1. Waiting => misdirected' = {} /\ ~overtaken'
    BY <1>0, <1>1, CommandRuns DEF Inv, AloneInv, Waiting
  <2>2. CASE calls' = calls
    BY <1>0, <2>1, <2>2 DEF Inv, AloneInv, Waiting
  <2>3. CASE calls'[c].fn = "command"
    BY <1>0, <2>1, <2>3, CommandRuns, AloneKept
  <2>4. QED
    BY <1>0, <2>2, <2>3, CommandRuns
<1>7. QED
  BY <1>2, <1>3, <1>4, <1>5, <1>6 DEF Inv

LEMMA saveUPSMetadataKeeps ==
  ASSUME Inv, NEW c \in Calls, saveUPSMetadata(c)
  PROVE  Inv'
<1>0. /\ calls[c] = Idle /\ selectedUPS # NoUPS /\ dialog.kind = "metadata"
      /\ saving' = TRUE /\ acts' \in 0..MaxActs
      /\ Waiting => AllIdle
      /\ UNCHANGED <<node, upses, selectedUPS, detail, dirtyVariables, pane, inputs,
                     applyEnabled, dialog, lastLoad, overtaken, env>>
  BY ActsAreCounted
  DEF Inv, Typed, saveUPSMetadata, UserActs, Waiting, state, dom, hist
<1>1. /\ calls' \in [Calls -> CallType]
      /\ calls'[c].fn = "save" /\ calls'[c].after = "page"
      /\ \A x \in Calls \ {c} : calls'[x] = calls[x]
      /\ \A x \in Calls : CallShape(calls'[x])
  BY CallStarts DEF Inv, saveUPSMetadata
<1>2. /\ misdirected' \in {misdirected, misdirected \cup {"metadata"}}
      /\ selectedUPS = dialog.ups => misdirected' = misdirected
  BY DEF saveUPSMetadata, Sends
<1>3. Typed'
  BY <1>0, <1>1, <1>2 DEF Inv, Typed, TypeOK
<1>4. DirtyInv'
  BY <1>0, <1>1, DirtyKept, IdleIsTyped
<1>5. ShownInv'
  BY <1>0, <1>1, ShownKept, IdleIsTyped DEF hist
<1>6. ~env'.unplug => SteadyInv'
  BY <1>0, <1>1, <1>2, SteadyKept DEF Inv, SteadyInv
<1>7. ~env'.unplug /\ ~env'.overlap => AloneInv'
  BY <1>0, <1>1, <1>2, AloneKept DEF Inv, AloneInv, Waiting
<1>8. QED
  BY <1>3, <1>4, <1>5, <1>6, <1>7 DEF Inv

LEMMA handleVariableInputChangeKeeps ==
  ASSUME Inv, NEW v \in Vars, NEW value \in Values, handleVariableInputChange(v, value)
  PROVE  Inv'
<1> USE NullsAreNone
<1>0. /\ acts' \in 0..MaxActs /\ pane # NoDetail
      /\ inputs' = [inputs EXCEPT ![v] = value]
      /\ UNCHANGED <<node, upses, selectedUPS, detail, pane, dialog, saving, calls,
                     lastLoad, overtaken, misdirected, env>>
  BY ActsAreCounted
  DEF Inv, Typed, handleVariableInputChange, OnPage, UserActs, hist
<1>1. /\ inputs' \in [Vars -> Values] /\ inputs'[v] = value
      /\ \A w \in Vars \ {v} : inputs'[w] = inputs[w]
  BY <1>0 DEF Inv, Typed, TypeOK
<1>2. dirtyVariables' = IF value # pane.vars[v] THEN dirtyVariables \cup {v}
                        ELSE dirtyVariables \ {v}
  BY DEF handleVariableInputChange
<1>3. Typed'
  <2>1. applyEnabled' \in BOOLEAN
    BY DEF handleVariableInputChange
  <2>2. QED
    BY <1>0, <1>1, <1>2, <2>1 DEF Inv, Typed, TypeOK
<1>4. DirtyInv'
  BY <1>0, <1>1, <1>2 DEF Inv, DirtyInv, DirtyMatchesInputs
<1>5. ShownInv'
  BY <1>0 DEF Inv, ShownInv, ShownIsSelected
<1>6. ~env'.unplug => SteadyInv'
  BY <1>0 DEF Inv, SteadyInv
<1>7. ~env'.unplug /\ ~env'.overlap => AloneInv'
  BY <1>0 DEF Inv, AloneInv
<1>8. QED
  BY <1>3, <1>4, <1>5, <1>6, <1>7 DEF Inv

(* A dialog opens or closes and nothing else happens.                      *)
LEMMA DialogKeeps ==
  ASSUME Inv, acts > 0, acts' = acts - 1,
         UNCHANGED <<node, state, dom, saving, calls, hist, misdirected, env>>,
         dialog' \in [kind : {"none", "confirm", "metadata"}, ups : MaybeUPS],
         dialog'.kind # "none" => pane # NoDetail,
         dialog'.kind = "confirm" => dialog'.ups = selectedUPS,
         dialog'.kind = "metadata" => dialog'.ups = pane.name /\ (Waiting => AllIdle)
  PROVE  Inv'
<1>1. Typed'
  BY ActsAreCounted DEF Inv, Typed, TypeOK, state, dom, hist
<1>2. DirtyInv' /\ ShownInv'
  BY DEF Inv, DirtyInv, DirtyMatchesInputs, ShownInv, ShownIsSelected, state, dom, hist
<1>3. ~env'.unplug => SteadyInv'
  BY DEF Inv, SteadyInv, state, dom, hist
<1>4. ~env'.unplug /\ ~env'.overlap => AloneInv'
  <2>1. Waiting /\ dialog'.kind = "metadata" => dialog'.ups = selectedUPS
    BY PaneIsSelected
  <2>2. QED
    BY <2>1 DEF Inv, AloneInv, Waiting, state, dom, hist
<1>5. QED
  BY <1>1, <1>2, <1>3, <1>4 DEF Inv

LEMMA DialogsKeep ==
  ASSUME Inv, openConfirmModal \/ openUPSMetadataModal \/ CloseDialog
  PROVE  Inv'
<1> USE NullsAreNone
<1>1. CASE openConfirmModal
  <2>1. /\ dialog' \in [kind : {"none", "confirm", "metadata"}, ups : MaybeUPS]
        /\ dialog'.kind = "confirm" /\ dialog'.ups = selectedUPS
    BY <1>1 DEF openConfirmModal, Inv, Typed, TypeOK
  <2>2. QED
    BY <1>1, <2>1, DialogKeeps DEF openConfirmModal, OnPage, UserActs
<1>2. CASE openUPSMetadataModal
  <2>1. pane.name \in MaybeUPS
    BY <1>2 DEF openUPSMetadataModal, Inv, Typed, TypeOK, MaybeDetail, Details, MaybeUPS
  <2>2. /\ dialog' \in [kind : {"none", "confirm", "metadata"}, ups : MaybeUPS]
        /\ dialog'.kind = "metadata" /\ dialog'.ups = pane.name
    BY <1>2, <2>1 DEF openUPSMetadataModal
  <2>3. QED
    BY <1>2, <2>2, DialogKeeps DEF openUPSMetadataModal, OnPage, UserActs, Waiting
<1>3. CASE CloseDialog
  <2>1. /\ dialog' \in [kind : {"none", "confirm", "metadata"}, ups : MaybeUPS]
        /\ dialog'.kind = "none"
    BY <1>3 DEF CloseDialog, NoDialog, MaybeUPS
  <2>2. QED
    BY <1>3, <2>1, DialogKeeps DEF CloseDialog, UserActs
<1>4. QED
  BY <1>1, <1>2, <1>3

-----------------------------------------------------------------------------
LEMMA NodeAnswersKeeps ==
  ASSUME Inv, NEW c \in Calls, NodeAnswers(c)
  PROVE  Inv'
<1> USE NullsAreNone
<1> DEFINE call == calls[c]
           u == call.ups
           known == call.fn = "refresh" \/ u \in node.attached
           list(ok) == IF ok /\ call.fn = "refresh" THEN node.attached ELSE {}
           loaded == [name |-> u, vars |-> node.vars[u], live |-> node.live[u]]
           answer(ok) == IF ok /\ call.fn = "load" THEN loaded ELSE NoDetail
           r(ok) == [call EXCEPT !.answered = TRUE, !.ok = ok, !.list = list(ok),
                                 !.answer = answer(ok)]
<1>0. /\ call \in CallType /\ CallShape(call) /\ call.fn # "idle" /\ ~call.answered
      /\ node \in [attached : SUBSET Devices, vars : [Devices -> [Vars -> Values]],
                   live : [Devices -> Values]]
  BY DEF Inv, Typed, TypeOK, NodeAnswers
<1>1. PICK ok \in {known, FALSE} :
        /\ calls' = [calls EXCEPT ![c].answered = TRUE, ![c].ok = ok,
                                  ![c].list = list(ok), ![c].answer = answer(ok)]
        /\ node' = IF ok /\ call.fn = "apply"
                   THEN [node EXCEPT !.vars[u][call.var] = call.value] ELSE node
  BY DEF NodeAnswers
<1>2. UNCHANGED <<upses, selectedUPS, detail, dirtyVariables, pane, inputs, applyEnabled,
                  dialog, saving, lastLoad, overtaken, misdirected, acts, env>>
  BY DEF NodeAnswers, state, dom, hist
<1>3. ok \in BOOLEAN /\ (ok => call.fn = "refresh" \/ u \in Devices)
  BY <1>0
<1>4. list(ok) \in SUBSET Devices
  BY <1>0
<1>5. answer(ok) \in MaybeDetail
  BY <1>0, <1>3 DEF MaybeDetail, Details
<1>6. call.fn = "load" /\ ok => answer(ok) \in Details /\ answer(ok).name = u
  BY <1>0, <1>3 DEF Details
<1>7. call.fn = "refresh" /\ ok => list(ok) = node.attached
  OBVIOUS
<1>8. calls' = [calls EXCEPT ![c] = r(ok)]
  BY <1>1 DEF Inv, Typed, TypeOK
<1> HIDE DEF list, answer
<1>9. /\ r(ok) \in CallType /\ r(ok).fn = call.fn /\ r(ok).ups = call.ups
      /\ r(ok).after = call.after /\ r(ok).var = call.var
      /\ r(ok).ok = ok /\ r(ok).list = list(ok) /\ r(ok).answer = answer(ok)
  BY <1>0, <1>3, <1>4, <1>5 DEF CallType
<1>10. CallShape(r(ok))
  BY <1>0, <1>6, <1>9 DEF CallShape
<1>11. /\ node' \in [attached : SUBSET Devices, vars : [Devices -> [Vars -> Values]],
                     live : [Devices -> Values]]
       /\ node'.attached = node.attached
  <2>1. CASE ok /\ call.fn = "apply"
    <3>1. u \in Devices /\ call.var \in Vars /\ call.value \in Values
      BY <1>0, <1>3, <2>1 DEF CallShape, CallType
    <3>2. node' = [node EXCEPT !.vars[u][call.var] = call.value]
      BY <1>1, <2>1
    <3>3. QED
      BY <1>0, <3>1, <3>2
  <2>2. CASE ~(ok /\ call.fn = "apply")
    BY <1>0, <1>1, <2>2
  <2>3. QED
    BY <2>1, <2>2
<1> HIDE DEF r
<1>12. /\ calls' \in [Calls -> CallType] /\ calls'[c] = r(ok)
       /\ \A x \in Calls \ {c} : calls'[x] = calls[x]
       /\ \A x \in Calls : CallShape(calls'[x])
  BY <1>8, <1>9, <1>10, OneCallChanges DEF Inv
<1>13. \A x \in Calls : /\ calls'[x].fn = calls[x].fn /\ calls'[x].ups = calls[x].ups
                        /\ calls'[x].after = calls[x].after
  BY <1>9, <1>12
<1>14. Typed'
  BY <1>2, <1>11, <1>12 DEF Inv, Typed, TypeOK
<1>15. DirtyInv'
  BY <1>2, <1>13, DirtyKept
<1>16. ShownInv'
  BY <1>2, <1>13, ShownKept DEF hist
<1>17. ~env'.unplug => SteadyInv'
  <2>1. SUFFICES ASSUME ~env.unplug PROVE SteadyInv'
    BY <1>2
  <2>2. SteadyInv
    BY <2>1 DEF Inv
  <2>3. \A x \in Calls :
          calls'[x].fn = "refresh" /\ calls'[x].answered /\ calls'[x].ok =>
            calls'[x].list = node'.attached
    BY <2>2, <1>7, <1>9, <1>11, <1>12 DEF SteadyInv
  <2>4. \A x \in Calls : Acting(calls'[x]) => selectedUPS' # NoUPS
    BY <2>2, <1>2, <1>13 DEF SteadyInv, Acting
  <2>5. QED
    BY <2>2, <2>3, <2>4, <1>2, <1>11 DEF SteadyInv
<1>18. ~env'.unplug /\ ~env'.overlap => AloneInv'
  BY <1>2, <1>13 DEF Inv, AloneInv
<1>19. QED
  BY <1>14, <1>15, <1>16, <1>17, <1>18 DEF Inv

LEMMA DevicesKeep ==
  ASSUME Inv, NEW d \in Devices,
         PlugOrUnplug(d) \/ \E x \in Values : TelemetryChanges(d, x)
  PROVE  Inv'
<1>1. /\ acts' \in 0..MaxActs
      /\ UNCHANGED <<upses, selectedUPS, detail, dirtyVariables, pane, inputs,
                     applyEnabled, dialog, saving, calls, lastLoad, overtaken,
                     misdirected, env>>
  BY ActsAreCounted
  DEF Inv, Typed, PlugOrUnplug, TelemetryChanges, state, dom, hist
<1>2. /\ node' \in [attached : SUBSET Devices, vars : [Devices -> [Vars -> Values]],
                    live : [Devices -> Values]]
      /\ ~env.unplug => node'.attached = node.attached
  <2>1. node \in [attached : SUBSET Devices, vars : [Devices -> [Vars -> Values]],
                  live : [Devices -> Values]]
    BY DEF Inv, Typed, TypeOK
  <2>2. CASE PlugOrUnplug(d)
    <3> DEFINE now == IF d \in node.attached THEN node.attached \ {d}
                      ELSE node.attached \cup {d}
    <3>1. env.unplug /\ node' = [node EXCEPT !.attached = now]
      BY <2>1, <2>2 DEF PlugOrUnplug
    <3>2. now \in SUBSET Devices
      BY <2>1
    <3> HIDE DEF now
    <3>3. QED
      BY <2>1, <3>1, <3>2
  <2>3. CASE \E x \in Values : TelemetryChanges(d, x)
    <3>1. PICK x \in Values : node' = [node EXCEPT !.live[d] = x]
      BY <2>3 DEF TelemetryChanges
    <3> DEFINE r == [node.live EXCEPT ![d] = x]
    <3>2. r \in [Devices -> Values]
      BY <2>1
    <3>3. node' = [node EXCEPT !.live = r]
      BY <2>1, <3>1
    <3> HIDE DEF r
    <3>4. QED
      BY <2>1, <3>2, <3>3
  <2>4. QED
    BY <2>2, <2>3
<1>3. Typed'
  BY <1>1, <1>2 DEF Inv, Typed, TypeOK
<1>4. DirtyInv' /\ ShownInv'
  BY <1>1 DEF Inv, DirtyInv, DirtyMatchesInputs, ShownInv, ShownIsSelected
<1>5. ~env'.unplug => SteadyInv'
  BY <1>1, <1>2 DEF Inv, SteadyInv
<1>6. ~env'.unplug /\ ~env'.overlap => AloneInv'
  BY <1>1 DEF Inv, AloneInv
<1>7. QED
  BY <1>3, <1>4, <1>5, <1>6 DEF Inv

LEMMA StutterKeeps ==
  ASSUME Inv, UNCHANGED vars
  PROVE  Inv'
<1>1. UNCHANGED <<node, upses, selectedUPS, detail, dirtyVariables, pane, inputs,
                  applyEnabled, dialog, saving, calls, lastLoad, overtaken,
                  misdirected, acts, env>>
  BY DEF vars, state, dom, hist
<1>2. Typed'
  BY <1>1 DEF Inv, Typed, TypeOK
<1>3. DirtyInv' /\ ShownInv'
  BY <1>1 DEF Inv, DirtyInv, DirtyMatchesInputs, ShownInv, ShownIsSelected
<1>4. ~env'.unplug => SteadyInv'
  BY <1>1 DEF Inv, SteadyInv
<1>5. ~env'.unplug /\ ~env'.overlap => AloneInv'
  BY <1>1 DEF Inv, AloneInv
<1>6. QED
  BY <1>2, <1>3, <1>4, <1>5 DEF Inv

LEMMA CallsKeep ==
  ASSUME Inv, NEW c \in Calls,
         \/ NodeAnswers(c)
         \/ Answered(c)
         \/ \E d \in Devices : Select(d, c)
         \/ PressRun(c)
         \/ ConfirmSubmit(c)
         \/ applyDirtyVariables(c)
         \/ saveUPSMetadata(c)
  PROVE  Inv'
<1>1. CASE Answered(c)
  BY <1>1, LoadAnsweredKeeps, RefreshAnsweredKeeps, CommandAnsweredKeeps,
     ApplyAnsweredKeeps, SaveAnsweredKeeps DEF Answered
<1>2. QED
  BY <1>1, NodeAnswersKeeps, SelectKeeps, PressRunKeeps, ConfirmSubmitKeeps,
     applyDirtyVariablesKeeps, saveUPSMetadataKeeps

LEMMA StepInv == Inv /\ [Next]_vars => Inv'
<1> SUFFICES ASSUME Inv, [Next]_vars PROVE Inv'
  OBVIOUS
<1>1. CASE UNCHANGED vars
  BY <1>1, StutterKeeps
<1>2. CASE Next
  BY <1>2, HealthEventKeeps, CallsKeep, handleVariableInputChangeKeeps, DialogsKeep,
     DevicesKeep DEF Next
<1>3. QED
  BY <1>1, <1>2

LEMMA Invariance == Spec => []Inv
  BY InitInv, StepInv, PTL DEF Spec

-----------------------------------------------------------------------------
(* Every variable keeps its type: no handler writes a variable of a call,  *)
(* a UPS or a detail it does not have, in any order of answers.            *)
THEOREM TypeCorrect == Spec => []TypeOK
<1>1. Inv => TypeOK
  BY DEF Inv, Typed
<1>2. QED
  BY <1>1, Invariance, PTL

(* renderDetail, renderEmptyDetail, handleVariableInputChange and the      *)
(* apply loop together: while no apply is at work, the marks that guard    *)
(* unapplied edits are exactly the controls that differ from what was      *)
(* drawn.                                                                  *)
THEOREM EditsAreMarked == Spec => []DirtyMatchesInputs
<1>1. Inv => DirtyMatchesInputs
  BY DEF Inv, DirtyInv
<1>2. QED
  BY <1>1, Invariance, PTL

(* loadUPSDetail selects before it asks: once the newest load is answered, *)
(* unless an older one came after it, the pane shows the selected UPS.     *)
THEOREM PaneFollowsSelection == Spec => []ShownIsSelected
<1>1. Inv => ShownIsSelected
  BY DEF Inv, ShownInv
<1>2. QED
  BY <1>1, Invariance, PTL

(* runCommand, setWritableVariable and saveUPSMetadata send to the         *)
(* selection they find, which is what the pane or the dialog named as long *)
(* as no UPS is unplugged and, without a dialog, the user waits.           *)
THEOREM TargetIsNamed == Spec => []NamedIsTarget
<1>1. Inv => NamedIsTarget
  BY DEF Inv, SteadyInv, AloneInv, NamedIsTarget
<1>2. QED
  BY <1>1, Invariance, PTL

-----------------------------------------------------------------------------
(* DashboardRules: the inductive invariant.                                *)

(* The records do not change, and the controller orders a history.         *)
GivenInv ==
    /\ page \in {"fleet", "ups", "metric"}
    /\ nodes \in BoundedSeq(NodeRecord, MaxNodes)
    /\ samples \in BoundedSeq(Sample, MaxSamples)
    /\ page = "ups" => NewestFirst(samples)
    /\ end \in Nat

(* What is drawn was computed from them, and the marker from what is drawn *)
(* and the pointer.                                                        *)
DrawnInv ==
    /\ drawn # Nothing =>
         /\ page = "fleet" => drawn = FleetPage
         /\ page = "ups" => drawn = summarizeSeries(toChartSeries(samples))
         /\ page = "metric" => drawn = renderMetricDetailChart
    /\ marker # Nothing =>
         page = "metric" /\ drawn # Nothing /\ marker = Mark(pointer)

RulesInv == GivenInv /\ DrawnInv

(* Bounded sequences as functions.                                         *)
LEMMA SequencesAre ==
  ASSUME NEW S, NEW m \in Nat, NEW s \in BoundedSeq(S, m)
  PROVE  /\ Len(s) \in Nat /\ DOMAIN s = 1..Len(s)
         /\ s \in [1..Len(s) -> S]
<1>1. PICK k \in 0..m : s \in [1..k -> S]
  BY DEF BoundedSeq, SeqOf
<1>2. Len(s) = k
  BY <1>1
<1>3. QED
  BY <1>1, <1>2

(* The empty sequence is among them.                                       *)
LEMMA EmptyIsBounded ==
  ASSUME NEW S, NEW m \in Nat
  PROVE  <<>> \in BoundedSeq(S, m)
<1>1. 0 \in 0..m /\ <<>> \in [1..0 -> S]
  OBVIOUS
<1>2. QED
  BY <1>1 DEF BoundedSeq, SeqOf

(* Nothing is drawn at first.                                              *)
LEMMA RulesInitInv == RulesInit => RulesInv
<1> SUFFICES ASSUME RulesInit PROVE RulesInv
  OBVIOUS
<1>1. <<>> \in BoundedSeq(NodeRecord, MaxNodes) /\ <<>> \in BoundedSeq(Sample, MaxSamples)
  BY EmptyIsBounded, RulesAssumption DEF RulesAssumption
<1>2. NewestFirst(<<>>)
  BY DEF NewestFirst
<1>3. end \in Nat
  BY RulesAssumption DEF RulesAssumption, RulesInit
<1> HIDE DEF NodeRecord, Sample, NewestFirst
<1>4. /\ page \in {"fleet", "ups", "metric"}
      /\ nodes \in BoundedSeq(NodeRecord, MaxNodes)
      /\ samples \in BoundedSeq(Sample, MaxSamples)
      /\ page = "ups" => NewestFirst(samples)
  BY <1>1, <1>2 DEF RulesInit
<1>5. drawn = Nothing /\ marker = Nothing
  BY DEF RulesInit
<1>6. QED
  BY <1>3, <1>4, <1>5 DEF RulesInv, GivenInv, DrawnInv

(* Drawing and moving the pointer keep drawing and marker as computed.     *)
LEMMA RulesStepInv == RulesInv /\ [RulesNext]_rulesVars => RulesInv'
<1> SUFFICES ASSUME RulesInv, [RulesNext]_rulesVars PROVE RulesInv'
  OBVIOUS
<1>1. UNCHANGED given
  BY DEF RulesNext, DrawFleet, DrawUPS, DrawMetric, handleMetricDetailHover,
         rulesVars, given
<1>2. GivenInv'
  BY <1>1 DEF RulesInv, GivenInv, given, NewestFirst
<1>3. DrawnInv'
  <2>0. page' = page /\ nodes' = nodes /\ samples' = samples /\ end' = end
    BY <1>1 DEF given
  <2>1. FleetPage' = FleetPage
    BY <2>0 DEF FleetPage, alertCount, offlineNodes, degradedNodes, upsAttention
  <2>2. renderMetricDetailChart' = renderMetricDetailChart
    BY <2>0 DEF renderMetricDetailChart
  <2>3. CASE UNCHANGED <<drawn, pointer, marker>>
    <3>1. Mark(pointer)' = Mark(pointer)
      BY <2>3 DEF Mark, NearestTick, NearestSample
    <3>2. QED
      BY <2>0, <2>1, <2>2, <2>3, <3>1 DEF RulesInv, DrawnInv
  <2>4. CASE DrawFleet \/ DrawUPS \/ DrawMetric
    <3>1. marker' = Nothing
      BY <2>4 DEF DrawFleet, DrawUPS, DrawMetric, RulesInv, DrawnInv
    <3>2. /\ page = "fleet" => drawn' = FleetPage
          /\ page = "ups" => drawn' = summarizeSeries(toChartSeries(samples))
          /\ page = "metric" => drawn' = renderMetricDetailChart
      BY <2>4 DEF DrawFleet, DrawUPS, DrawMetric
    <3>3. QED
      BY <2>0, <2>1, <2>2, <3>1, <3>2 DEF DrawnInv
  <2>5. ASSUME NEW p \in -1..(WindowLength + 1), handleMetricDetailHover(p)
        PROVE  DrawnInv'
    <3>1. /\ page = "metric" /\ drawn # Nothing /\ drawn' = drawn
          /\ pointer' = p /\ marker' = Mark(p)
      BY <2>5 DEF handleMetricDetailHover
    <3>2. Mark(pointer)' = Mark(p)
      BY <3>1 DEF Mark, NearestTick, NearestSample
    <3>3. QED
      BY <2>0, <2>1, <2>2, <3>1, <3>2 DEF RulesInv, DrawnInv
  <2>6. QED
    BY <2>3, <2>4, <2>5 DEF RulesNext, rulesVars
<1>4. QED
  BY <1>2, <1>3 DEF RulesInv

(* The fleet and the samples are sequences, sampled at natural times.      *)
LEMMA GivenIsTyped ==
  ASSUME GivenInv
  PROVE  /\ Len(nodes) \in Nat /\ DOMAIN nodes = 1..Len(nodes)
         /\ nodes \in [1..Len(nodes) -> NodeRecord]
         /\ Len(samples) \in Nat /\ DOMAIN samples = 1..Len(samples)
         /\ samples \in [1..Len(samples) -> Sample]
         /\ \A i \in DOMAIN samples : samples[i].at \in Nat
<1>1. /\ Len(nodes) \in Nat /\ DOMAIN nodes = 1..Len(nodes)
      /\ nodes \in [1..Len(nodes) -> NodeRecord]
      /\ Len(samples) \in Nat /\ DOMAIN samples = 1..Len(samples)
      /\ samples \in [1..Len(samples) -> Sample]
  BY SequencesAre, RulesAssumption DEF RulesAssumption, GivenInv
<1>2. \A x \in Sample : x.at \in Nat
  BY RulesAssumption DEF RulesAssumption, Sample
<1> HIDE DEF Sample
<1>3. QED
  BY <1>1, <1>2

-----------------------------------------------------------------------------
(* Severities and alerts.                                                  *)

(* No counterexample without a smallest one.                               *)
LEMMA NoSmallestIsEmpty ==
  ASSUME NEW S \in SUBSET Nat, \A m \in S : \E k \in S : k < m
  PROVE  S = {}
  BY SmallestExists

(* The loop of statusToSeverity starts with what no token says.            *)
LEMMA NoTokenNoSeverity == MostSevere({}) = "default"
  BY DEF MostSevere

(* A turn of the loop: it turns the verdict on the tokens so far into the  *)
(* verdict on them and one more, whichever order they came in.             *)
LEMMA OneMoreToken ==
  ASSUME NEW S, NEW token
  PROVE  TakeToken(MostSevere(S), token) = MostSevere(S \cup {token})
<1> DEFINE T == S \cup {token}
<1>1. ASSUME NEW C
      PROVE  T \cap C = {} <=> S \cap C = {} /\ token \notin C
  OBVIOUS
<1>2. /\ T \cap ErrorTokens = {} <=> S \cap ErrorTokens = {} /\ token \notin ErrorTokens
      /\ T \cap WarningTokens = {} <=> S \cap WarningTokens = {} /\ token \notin WarningTokens
      /\ T \cap OKTokens = {} <=> S \cap OKTokens = {} /\ token \notin OKTokens
  BY <1>1
<1>3. \A X : X \cap (ErrorTokens \cup WarningTokens) = {}
              <=> X \cap ErrorTokens = {} /\ X \cap WarningTokens = {}
  OBVIOUS
<1>4. /\ token \in ErrorTokens => token \notin WarningTokens \cup OKTokens
      /\ token \in WarningTokens => token \notin OKTokens
  BY RulesAssumption DEF RulesAssumption
<1> HIDE DEF T
<1>5. TakeToken(MostSevere(S), token) = MostSevere(T)
  BY <1>2, <1>3, <1>4 DEF TakeToken, MostSevere
<1>6. QED
  BY <1>5 DEF T

(* The loop on a status of any length; the smallest position at which it   *)
(* disagrees with the verdict on the tokens before it cannot exist.        *)
LEMMA SeverityOfTokens ==
  ASSUME NEW status, Len(status) \in Nat, DOMAIN status = 1..Len(status)
  PROVE  statusToSeverity(status) = MostSevere(Range(status))
<1> DEFINE n == Len(status)
           Of(i) == MostSevere({status[k] : k \in 1..i})
           f == [i \in 0..n |-> Of(i)]
           g == CHOOSE g : g = [i \in 0..n |-> IF i = 0 THEN "default"
                                               ELSE TakeToken(g[i - 1], status[i])]
<1>1. Of(0) = "default"
  <2>1. {status[k] : k \in 1..0} = {}
    OBVIOUS
  <2>2. QED
    BY <2>1, NoTokenNoSeverity
<1>2. ASSUME NEW i \in 0..n, i # 0
      PROVE  i - 1 \in 0..n /\ TakeToken(Of(i - 1), status[i]) = Of(i)
  <2>1. {status[k] : k \in 1..i} = {status[k] : k \in 1..(i - 1)} \cup {status[i]}
    BY <1>2
  <2>2. QED
    BY <1>2, <2>1, OneMoreToken
<1> HIDE DEF Of
<1>3. f = [i \in 0..n |-> IF i = 0 THEN "default" ELSE TakeToken(f[i - 1], status[i])]
  BY <1>1, <1>2
<1>4. g = [i \in 0..n |-> IF i = 0 THEN "default" ELSE TakeToken(g[i - 1], status[i])]
  BY <1>3
<1>5. statusToSeverity(status) = g[n]
  BY DEF statusToSeverity
<1> HIDE DEF g
<1> DEFINE Bad == {i \in 0..n : g[i] # Of(i)}
<1>6. Bad = {}
  <2>1. Bad \in SUBSET Nat
    OBVIOUS
  <2>2. ASSUME NEW m \in Bad PROVE \E k \in Bad : k < m
    <3>1. m \in 0..n /\ g[m] # Of(m)
      OBVIOUS
    <3>2. m # 0 /\ m - 1 \in 0..n /\ m - 1 < m
      BY <1>1, <1>4, <3>1
    <3>3. g[m - 1] # Of(m - 1)
      BY <1>2, <1>4, <3>1, <3>2
    <3>4. QED
      BY <3>2, <3>3
  <2> HIDE DEF Bad
  <2>3. QED
    BY <2>1, <2>2, NoSmallestIsEmpty
<1>7. Range(status) = {status[k] : k \in 1..n}
  BY DEF Range
<1>8. QED
  BY <1>5, <1>6, <1>7 DEF Of

(* statusToSeverity reports the most severe token of every status of the   *)
(* fleet, wherever in the status it stands.                                *)
THEOREM SeveritiesAreMostSevere == RulesSpec => []SeverityIsMostSevere
<1>1. RulesInv => SeverityIsMostSevere
  <2> SUFFICES ASSUME RulesInv, NEW i \in DOMAIN nodes, NEW j \in DOMAIN nodes[i].ups
               PROVE  statusToSeverity(nodes[i].ups[j]) = MostSevere(Range(nodes[i].ups[j]))
    BY DEF SeverityIsMostSevere
  <2>1. nodes[i] \in NodeRecord
    BY GivenIsTyped DEF RulesInv
  <2>2. nodes[i].ups \in BoundedSeq(Statuses, 1)
    BY <2>1 DEF NodeRecord
  <2>3. nodes[i].ups[j] \in Statuses
    BY <2>2, SequencesAre
  <2>4. /\ Len(nodes[i].ups[j]) \in Nat
        /\ DOMAIN nodes[i].ups[j] = 1..Len(nodes[i].ups[j])
    BY <2>3, SequencesAre, RulesAssumption DEF RulesAssumption, Statuses
  <2>5. QED
    BY <2>4, SeverityOfTokens
<1>2. QED
  BY RulesInitInv, RulesStepInv, <1>1, PTL DEF RulesSpec

(* The number of alerts above the fleet is the number of alerts on the     *)
(* cards (FleetPage.tsx against NodeCard.tsx).                             *)
THEOREM CardsShowAlerts == RulesSpec => []AlertsAreOnCards
<1>1. RulesInv => AlertsAreOnCards
  <2> SUFFICES ASSUME RulesInv, page = "fleet", drawn # Nothing PROVE AlertsAreOnCards
    BY DEF AlertsAreOnCards
  <2> DEFINE cards == drawn.cards
             offline == {i \in DOMAIN cards : \/ cards[i].chip = "adopted-offline"
                                              \/ cards[i].comms = "offline"}
             degraded == {i \in DOMAIN cards : cards[i].comms = "degraded"}
             rows == UNION {{i} \X cards[i].alerting : i \in DOMAIN cards}
  <2>1. drawn = FleetPage
    BY DEF RulesInv, DrawnInv
  <2>2. /\ cards = [i \in DOMAIN nodes |-> NodeCard(nodes[i])]
        /\ drawn.offline = Cardinality(offlineNodes) /\ drawn.alerts = alertCount
    BY <2>1 DEF FleetPage
  <2>3. ASSUME NEW i \in DOMAIN nodes
        PROVE  /\ nodes[i] \in NodeRecord /\ cards[i] = NodeCard(nodes[i])
    BY <2>2, SequencesAre, RulesAssumption DEF RulesAssumption, RulesInv, GivenInv
  <2> HIDE DEF cards
  <2>4. ASSUME NEW i \in DOMAIN nodes
        PROVE  LET n == nodes[i]
               IN /\ cards[i].chip = "adopted-offline" <=> Status(n) = "adopted-offline"
                  /\ cards[i].comms = "offline" <=> commsStateToSeverity(n.comms) = "error"
                  /\ cards[i].comms = "degraded" <=> commsStateToSeverity(n.comms) = "warning"
                  /\ cards[i].alerting = Alarming(n.ups)
    <3> DEFINE n == nodes[i]
    <3>1. /\ n.adopted \in BOOLEAN /\ n.live \in BOOLEAN /\ n.comms \in CommsStates
          /\ ~n.adopted => n.comms = "unknown"
      BY <2>3 DEF NodeRecord
    <3>2. cards[i] = NodeCard(n)
      BY <2>3
    <3> HIDE DEF n
    <3>3. /\ ~n.adopted => Status(n) = "pending"
          /\ n.adopted /\ n.live => Status(n) = "adopted-online"
          /\ n.adopted /\ ~n.live => Status(n) = "adopted-offline"
      BY <3>1 DEF Status
    <3>4. /\ cards[i].chip = "adopted-offline" <=> Status(n) = "adopted-offline"
          /\ cards[i].comms = "offline" <=> commsStateToSeverity(n.comms) = "error"
          /\ cards[i].comms = "degraded" <=> commsStateToSeverity(n.comms) = "warning"
          /\ cards[i].alerting = Alarming(n.ups)
      BY <3>1, <3>2, <3>3, RulesAssumption
      DEF RulesAssumption, NodeCard, CommsStates, commsStateToSeverity
    <3>5. QED
      BY <3>4 DEF n
  <2>5. DOMAIN cards = DOMAIN nodes
    BY <2>2
  <2>6. offline = offlineNodes
    BY <2>4, <2>5 DEF offlineNodes
  <2>7. degraded = degradedNodes
    BY <2>4, <2>5 DEF degradedNodes
  <2>8. rows = upsAttention
    BY <2>4, <2>5 DEF upsAttention
  <2> HIDE DEF offline, degraded, rows
  <2>9. /\ drawn.offline = Cardinality(offline)
        /\ drawn.alerts = Cardinality(offline) + Cardinality(degraded) + Cardinality(rows)
    BY <2>2, <2>6, <2>7, <2>8 DEF alertCount
  <2>10. QED
    BY <2>9 DEF AlertsAreOnCards, offline, degraded, rows, cards
<1>2. QED
  BY RulesInitInv, RulesStepInv, <1>1, PTL DEF RulesSpec

-----------------------------------------------------------------------------
(* Charts.                                                                 *)

(* A total order of the positions K.                                       *)
IsOrderOn(R, K) ==
    /\ \A k \in K : <<k, k>> \in R
    /\ \A j, k \in K : <<j, k>> \in R \/ <<k, j>> \in R
    /\ \A j, k \in K : <<j, k>> \in R /\ <<k, j>> \in R => j = k
    /\ \A i, j, k \in K : <<i, j>> \in R /\ <<j, k>> \in R => <<i, k>> \in R

(* The places Arrange gives to the positions are 1..n, each taken once, in *)
(* the order R.                                                            *)
LEMMA PlacesAreFilled ==
  ASSUME NEW K, IsFiniteSet(K), NEW R, IsOrderOn(R, K),
         NEW place, place = [k \in K |-> Cardinality({j \in K : <<j, k>> \in R})]
  PROVE  /\ Cardinality(K) \in Nat
         /\ \A k \in K : place[k] \in 1..Cardinality(K)
         /\ \A i \in 1..Cardinality(K) : \E k \in K : place[k] = i
         /\ \A j, k \in K : place[j] <= place[k] => <<j, k>> \in R
<1> DEFINE n == Cardinality(K)
           Below(k) == {j \in K : <<j, k>> \in R}
<1>1. n \in Nat
  BY FS_CardinalityType
<1>2. \A k \in K : place[k] = Cardinality(Below(k))
  OBVIOUS
<1>3. ASSUME NEW k \in K
      PROVE  /\ Below(k) \subseteq K /\ k \in Below(k) /\ IsFiniteSet(Below(k))
             /\ place[k] \in Nat /\ place[k] \in 1..n
  <2>1. Below(k) \subseteq K /\ k \in Below(k)
    BY DEF IsOrderOn
  <2>2. IsFiniteSet(Below(k)) /\ Cardinality(Below(k)) <= n
    BY <2>1, FS_Subset
  <2>3. Cardinality(Below(k)) \in Nat /\ Cardinality(Below(k)) # 0
    BY <2>1, <2>2, FS_CardinalityType, FS_EmptySet
  <2>4. QED
    BY <1>1, <1>2, <2>1, <2>2, <2>3
<1>4. ASSUME NEW j \in K, NEW k \in K, <<k, j>> \in R, j # k
      PROVE  place[k] < place[j]
  <2>1. Below(k) \subseteq Below(j) /\ j \in Below(j) /\ j \notin Below(k)
    BY <1>4 DEF IsOrderOn
  <2> HIDE DEF Below
  <2>2. Below(k) # Below(j)
    BY <2>1
  <2>3. /\ IsFiniteSet(Below(j)) /\ Below(k) \in SUBSET Below(j)
        /\ Cardinality(Below(j)) \in Nat /\ Cardinality(Below(k)) \in Nat
    BY <1>3, <2>1, FS_CardinalityType
  <2>4. Cardinality(Below(k)) <= Cardinality(Below(j))
        /\ Cardinality(Below(j)) # Cardinality(Below(k))
    BY <2>2, <2>3, FS_Subset
  <2>5. QED
    BY <1>2, <2>3, <2>4
<1> HIDE DEF Below
<1>5. ASSUME NEW j \in K, NEW k \in K, place[j] <= place[k]
      PROVE  <<j, k>> \in R
  <2>1. place[j] \in Nat /\ place[k] \in Nat
    BY <1>3, Zenon
  <2>2. ~(place[k] < place[j])
    BY <1>5, <2>1
  <2>3. <<k, j>> \in R /\ j # k => place[k] < place[j]
    BY <1>4
  <2>4. <<j, j>> \in R /\ (<<j, k>> \in R \/ <<k, j>> \in R)
    BY DEF IsOrderOn
  <2>5. QED
    BY <2>2, <2>3, <2>4
<1>6. \A i \in 1..n : \E k \in K : place[k] = i
  <2>1. place \in [K -> 1..n]
    BY <1>3
  <2> HIDE DEF n
  <2>2. ASSUME NEW j \in K, NEW k \in K, place[j] = place[k]
        PROVE  j = k
    <3>1. place[j] <= place[k] /\ place[k] <= place[j]
      BY <2>1, <2>2, <1>1
    <3>2. QED
      BY <1>5, <3>1 DEF IsOrderOn
  <2>0. place \in Injection(K, 1..n)
    BY <2>1, <2>2, Zenon DEF Injection, IsInjective
  <2>3. IsFiniteSet(1..n) /\ Cardinality(1..n) = n
    BY <1>1, FS_Interval
  <2>4. place \in Surjection(K, 1..n)
    BY <2>0, <2>3, FS_Injection DEF n
  <2>5. QED
    BY <2>4 DEF Surjection
<1>7. QED
  BY <1>1, <1>3, <1>5, <1>6

(* a has the elements of s that are at K, in the order R; h says where.    *)
IsArrangement(a, h, s, K, R) ==
    LET n == Cardinality(K)
    IN /\ n \in Nat
       /\ h \in [1..n -> K] /\ a = [i \in 1..n |-> s[h[i]]]
       /\ \A k \in K : \E i \in 1..n : h[i] = k
       /\ \A i, j \in 1..n : i <= j => <<h[i], h[j]>> \in R

(* What Arrange returns: the elements at K, all of them, in the order R.   *)
LEMMA Arranged ==
  ASSUME NEW s, NEW K, IsFiniteSet(K), NEW R, IsOrderOn(R, K)
  PROVE  \E h : IsArrangement(Arrange(s, K, R), h, s, K, R)
<1> DEFINE n == Cardinality(K)
           place == [k \in K |-> Cardinality({j \in K : <<j, k>> \in R})]
           h == [i \in 1..n |-> CHOOSE k \in K : place[k] = i]
<1>1. /\ n \in Nat
      /\ \A k \in K : place[k] \in 1..n
      /\ \A i \in 1..n : \E k \in K : place[k] = i
      /\ \A j, k \in K : place[j] <= place[k] => <<j, k>> \in R
  <2> HIDE DEF n
  <2>1. place = [k \in K |-> Cardinality({j \in K : <<j, k>> \in R})]
    OBVIOUS
  <2> HIDE DEF place
  <2>2. QED
    BY <2>1, PlacesAreFilled DEF n
<1>2. Arrange(s, K, R) = [i \in 1..n |-> s[h[i]]]
  BY DEF Arrange
<1> HIDE DEF place
<1>3. \A i \in 1..n : h[i] \in K /\ place[h[i]] = i
  BY <1>1
<1>4. h \in [1..n -> K]
  BY <1>3
<1>5. \A k \in K : \E i \in 1..n : h[i] = k
  <2>1. SUFFICES ASSUME NEW k \in K PROVE h[place[k]] = k
    BY <1>1
  <2>2. place[k] \in 1..n /\ h[place[k]] \in K /\ place[h[place[k]]] = place[k]
    BY <1>1, <1>3
  <2>3. <<h[place[k]], k>> \in R /\ <<k, h[place[k]]>> \in R
    BY <1>1, <2>2
  <2>4. QED
    BY <2>2, <2>3 DEF IsOrderOn
<1>6. \A i, j \in 1..n : i <= j => <<h[i], h[j]>> \in R
  BY <1>1, <1>3
<1> HIDE DEF n, h
<1>7. IsArrangement(Arrange(s, K, R), h, s, K, R)
  BY <1>1, <1>2, <1>4, <1>5, <1>6 DEF n, IsArrangement
<1>8. QED
  BY <1>7

(* The three orders the charts use are total, ties included.               *)
LEMMA OrdersArrange ==
  ASSUME NEW s, Len(s) \in Nat, DOMAIN s = 1..Len(s), NEW K \in SUBSET DOMAIN s,
         \A i \in DOMAIN s : s[i].at \in Int
  PROVE  /\ IsFiniteSet(K)
         /\ IsOrderOn(AsServed(s), K) /\ IsOrderOn(Reversed(s), K)
         /\ IsOrderOn(ByTime(s), K)
<1>1. IsFiniteSet(K)
  <2>1. IsFiniteSet(1..Len(s))
    BY FS_Interval
  <2>2. QED
    BY <2>1, FS_Subset
<1>2. IsOrderOn(AsServed(s), K) /\ IsOrderOn(Reversed(s), K)
  BY DEF IsOrderOn, AsServed, Reversed
<1>3. IsOrderOn(ByTime(s), K)
  <2> DEFINE at == [k \in K |-> s[k].at]
  <2>1. /\ K \subseteq Nat /\ \A k \in K : at[k] \in Int
        /\ \A j, k \in K : <<j, k>> \in ByTime(s)
                            <=> at[j] < at[k] \/ (at[j] = at[k] /\ j <= k)
    BY DEF ByTime
  <2> HIDE DEF at
  <2>2. \A k \in K : <<k, k>> \in ByTime(s)
    BY <2>1
  <2>3. ASSUME NEW j \in K, NEW k \in K
        PROVE  <<j, k>> \in ByTime(s) \/ <<k, j>> \in ByTime(s)
    <3>1. at[j] \in Int /\ at[k] \in Int /\ j \in Nat /\ k \in Nat
      BY <2>1
    <3>2. \/ at[j] < at[k] \/ (at[j] = at[k] /\ j <= k)
          \/ at[k] < at[j] \/ (at[k] = at[j] /\ k <= j)
      BY <3>1
    <3>3. QED
      BY <2>1, <3>2
  <2>4. \A j, k \in K : <<j, k>> \in ByTime(s) /\ <<k, j>> \in ByTime(s) => j = k
    BY <2>1
  <2>5. \A i, j, k \in K :
          <<i, j>> \in ByTime(s) /\ <<j, k>> \in ByTime(s) => <<i, k>> \in ByTime(s)
    BY <2>1
  <2>6. QED
    BY <2>2, <2>3, <2>4, <2>5 DEF IsOrderOn
<1>4. QED
  BY <1>1, <1>2, <1>3

(* A history served newest first: its summary names the newest sample.     *)
LEMMA HistoryEndsWithNewest ==
  ASSUME GivenInv, NewestFirst(samples), toChartSeries(samples) # <<>>
  PROVE  \E k \in Usable(samples) :
           /\ \A i \in Usable(samples) : samples[i].at <= samples[k].at
           /\ summarizeSeries(toChartSeries(samples)).latestAt = samples[k].at
           /\ summarizeSeries(toChartSeries(samples)).latest = samples[k].value
<1> DEFINE K == Usable(samples)
           n == Cardinality(K)
           series == toChartSeries(samples)
<1>1. /\ Len(samples) \in Nat /\ DOMAIN samples = 1..Len(samples)
      /\ \A i \in DOMAIN samples : samples[i].at \in Nat
      /\ K \in SUBSET DOMAIN samples
  BY GivenIsTyped DEF Usable
<1>2. IsFiniteSet(K) /\ IsOrderOn(Reversed(samples), K)
  BY <1>1, OrdersArrange
<1> HIDE DEF K
<1>3. PICK h : IsArrangement(series, h, samples, K, Reversed(samples))
  BY <1>2, Arranged DEF toChartSeries, K
<1>4. /\ n \in Nat /\ h \in [1..n -> K] /\ series = [i \in 1..n |-> samples[h[i]]]
      /\ \A k \in K : \E i \in 1..n : h[i] = k
      /\ \A i, j \in 1..n : i <= j => <<h[i], h[j]>> \in Reversed(samples)
  BY <1>3 DEF IsArrangement
<1>5. n # 0
  <2>1. SUFFICES ASSUME n = 0 PROVE series = <<>>
    OBVIOUS
  <2>2. QED
    BY <1>4, <2>1
<1>6. Len(series) = n /\ n \in 1..n /\ Last(series) = samples[h[n]] /\ h[n] \in K
  BY <1>4, <1>5 DEF Last
<1>7. ASSUME NEW k \in K PROVE samples[k].at <= samples[h[n]].at
  <2>1. PICK i \in 1..n : h[i] = k
    BY <1>4
  <2>2. <<k, h[n]>> \in Reversed(samples)
    BY <1>4, <1>6, <2>1
  <2>3. h[n] <= k /\ k \in DOMAIN samples /\ h[n] \in DOMAIN samples
    BY <2>2 DEF Reversed
  <2>4. QED
    BY <1>1, <2>3 DEF NewestFirst
<1>8. /\ summarizeSeries(series).latestAt = samples[h[n]].at
      /\ summarizeSeries(series).latest = samples[h[n]].value
  BY <1>6 DEF summarizeSeries
<1>9. QED
  BY <1>6, <1>7, <1>8 DEF K

(* An arrangement of samples is a sequence of samples.                     *)
LEMMA ArrangementIsTyped ==
  ASSUME NEW s, \A i \in DOMAIN s : s[i].at \in Int, NEW K \in SUBSET DOMAIN s,
         NEW a, NEW h, NEW R, IsArrangement(a, h, s, K, R)
  PROVE  /\ Len(a) \in Nat /\ DOMAIN a = 1..Len(a) /\ DOMAIN a \subseteq Nat
         /\ \A i \in DOMAIN a : a[i].at \in Int
<1> DEFINE n == Cardinality(K)
<1>1. n \in Nat /\ h \in [1..n -> K] /\ a = [i \in 1..n |-> s[h[i]]]
  BY DEF IsArrangement
<1> HIDE DEF n
<1>2. Len(a) = n /\ DOMAIN a = 1..n
  BY <1>1
<1>3. ASSUME NEW i \in 1..n PROVE a[i] = s[h[i]] /\ h[i] \in DOMAIN s
  BY <1>1
<1>4. QED
  BY <1>1, <1>2, <1>3

(* The vertices of the dialog's line.                                      *)
LEMMA VerticesOfChart ==
  ASSUME NEW s, NEW start, buildTimeSeriesChart(s, start) # Nothing
  PROVE  LET sorted == Arrange(s, Usable(s), ByTime(s))
         IN /\ ~(Len(sorted) < 2)
            /\ buildTimeSeriesChart(s, start)
                 = [i \in DOMAIN sorted |->
                      [at |-> sorted[i].at, value |-> sorted[i].value,
                       x |-> sorted[i].at - start,
                       y |-> sorted[i].value - Least(sorted)]]
  BY DEF buildTimeSeriesChart

(* The dialog's chart, whatever order the node answers in: a sample the    *)
(* window leaves out is older than every vertex.                           *)
LEMMA PlottedEndsWithNewest ==
  ASSUME GivenInv, renderMetricDetailChart.plotted # Nothing
  PROVE  LET line == renderMetricDetailChart.plotted
         IN \E k \in Usable(samples) :
              /\ \A i \in Usable(samples) : samples[i].at <= samples[k].at
              /\ Last(line).at = samples[k].at /\ Last(line).value = samples[k].value
<1> DEFINE start == end - WindowLength
           K1 == {i \in DOMAIN samples : samples[i].at >= start}
           n1 == Cardinality(K1)
           recent == Arrange(samples, K1, AsServed(samples))
           K2 == Usable(recent)
           n2 == Cardinality(K2)
           sorted == Arrange(recent, K2, ByTime(recent))
           line == buildTimeSeriesChart(recent, start)
<1>1. /\ Len(samples) \in Nat /\ DOMAIN samples = 1..Len(samples)
      /\ \A i \in DOMAIN samples : samples[i].at \in Nat
      /\ K1 \in SUBSET DOMAIN samples /\ start \in Int
  BY GivenIsTyped, RulesAssumption DEF RulesAssumption, GivenInv
<1>2. IsFiniteSet(K1) /\ IsOrderOn(AsServed(samples), K1)
  BY <1>1, OrdersArrange
<1>3. renderMetricDetailChart.plotted = line
  BY DEF renderMetricDetailChart
<1>4. \A k \in DOMAIN samples : k \in K1 <=> samples[k].at >= start
  OBVIOUS
<1> HIDE DEF K1
<1>5. PICK h1 : IsArrangement(recent, h1, samples, K1, AsServed(samples))
  BY <1>2, Arranged
<1>6. /\ n1 \in Nat /\ h1 \in [1..n1 -> K1] /\ recent = [i \in 1..n1 |-> samples[h1[i]]]
      /\ \A k \in K1 : \E i \in 1..n1 : h1[i] = k
  BY <1>5 DEF IsArrangement
<1> HIDE DEF recent
<1> HIDE DEF n1
<1>7. /\ Len(recent) = n1 /\ DOMAIN recent = 1..n1
      /\ \A i \in 1..n1 : h1[i] \in K1 /\ recent[i] = samples[h1[i]]
      /\ \A i \in 1..n1 : recent[i].at \in Int
  <2>1. Len(recent) = n1 /\ DOMAIN recent = 1..n1
    BY <1>6
  <2>2. ASSUME NEW i \in 1..n1
        PROVE  h1[i] \in K1 /\ recent[i] = samples[h1[i]]
    BY <1>6
  <2>3. QED
    BY <1>1, <2>1, <2>2
<1>8. /\ K2 \in SUBSET (1..n1)
      /\ \A i \in 1..n1 : i \in K2 <=> samples[h1[i]].value # NoValue
  BY <1>7 DEF Usable
<1>9. IsFiniteSet(K2) /\ IsOrderOn(ByTime(recent), K2)
  BY <1>6, <1>7, <1>8, OrdersArrange
<1> HIDE DEF K2
<1>10. PICK h2 : IsArrangement(sorted, h2, recent, K2, ByTime(recent))
  BY <1>9, Arranged
<1>11. /\ n2 \in Nat /\ h2 \in [1..n2 -> K2] /\ sorted = [i \in 1..n2 |-> recent[h2[i]]]
       /\ \A k \in K2 : \E i \in 1..n2 : h2[i] = k
       /\ \A i, j \in 1..n2 : i <= j => <<h2[i], h2[j]>> \in ByTime(recent)
  BY <1>10 DEF IsArrangement
<1>12. /\ ~(Len(sorted) < 2)
       /\ line = [i \in DOMAIN sorted |->
                    [at |-> sorted[i].at, value |-> sorted[i].value,
                     x |-> sorted[i].at - start,
                     y |-> sorted[i].value - Least(sorted)]]
  BY <1>3, VerticesOfChart DEF K2
<1> HIDE DEF n2, sorted
<1>13. /\ n2 \in 1..n2 /\ Len(line) = n2
       /\ line[n2].at = sorted[n2].at /\ line[n2].value = sorted[n2].value
  <2>1. Len(sorted) = n2 /\ DOMAIN sorted = 1..n2
    BY <1>11
  <2>2. n2 \in 1..n2
    BY <1>11, <1>12, <2>1
  <2> HIDE DEF line
  <2>3. line = [i \in 1..n2 |-> line[i]]
    BY <1>12, <2>1
  <2>4. Len(line) = n2
    BY <1>11, <2>3
  <2>5. line[n2].at = sorted[n2].at /\ line[n2].value = sorted[n2].value
    BY <1>12, <2>1, <2>2
  <2>6. QED
    BY <2>2, <2>4, <2>5
<1> DEFINE last == h1[h2[n2]]
<1>14. /\ h2[n2] \in K2 /\ last \in K1 /\ last \in Usable(samples)
       /\ sorted[n2] = samples[last] /\ samples[last].at >= start
  BY <1>1, <1>4, <1>7, <1>8, <1>11, <1>13 DEF Usable
<1>15. Last(line).at = samples[last].at /\ Last(line).value = samples[last].value
  BY <1>11, <1>13, <1>14 DEF Last
<1>16. ASSUME NEW k \in Usable(samples)
       PROVE  samples[k].at <= samples[last].at
  <2>1. CASE k \notin K1
    BY <1>1, <1>4, <1>14, <2>1 DEF Usable
  <2>2. CASE k \in K1
    <3>1. PICK i \in 1..n1 : h1[i] = k
      BY <1>6, <2>2
    <3>2. i \in K2
      BY <1>8, <3>1 DEF Usable
    <3>3. PICK j \in 1..n2 : h2[j] = i
      BY <1>11, <3>2
    <3>4. <<i, h2[n2]>> \in ByTime(recent)
      BY <1>11, <1>13, <3>3
    <3>5. recent[i].at <= recent[h2[n2]].at
      BY <1>7, <1>8, <1>14, <3>4 DEF ByTime
    <3>6. QED
      BY <1>7, <1>8, <1>14, <3>1, <3>5
  <2>3. QED
    BY <2>1, <2>2
<1>17. QED
  BY <1>3, <1>14, <1>15, <1>16

(* The preview, which keeps the order of the answer.                       *)
LEMMA PreviewEndsWithNewest ==
  ASSUME GivenInv, buildSparkline(samples) # Nothing,
         \A i, j \in DOMAIN samples : i < j => samples[i].at <= samples[j].at
  PROVE  \E k \in Usable(samples) :
           /\ \A i \in Usable(samples) : samples[i].at <= samples[k].at
           /\ Last(buildSparkline(samples)).y
                = samples[k].value - Least([i \in Usable(samples) |-> samples[i]])
<1> DEFINE K == Usable(samples)
           n == Cardinality(K)
           plotted == Arrange(samples, K, AsServed(samples))
<1>1. /\ Len(samples) \in Nat /\ DOMAIN samples = 1..Len(samples)
      /\ \A i \in DOMAIN samples : samples[i].at \in Nat
      /\ K \in SUBSET DOMAIN samples
  BY GivenIsTyped DEF Usable
<1>2. IsFiniteSet(K) /\ IsOrderOn(AsServed(samples), K)
  BY <1>1, OrdersArrange
<1> HIDE DEF K
<1>3. PICK h : IsArrangement(plotted, h, samples, K, AsServed(samples))
  BY <1>2, Arranged
<1>4. /\ n \in Nat /\ h \in [1..n -> K] /\ plotted = [i \in 1..n |-> samples[h[i]]]
      /\ \A k \in K : \E i \in 1..n : h[i] = k
      /\ \A i, j \in 1..n : i <= j => <<h[i], h[j]>> \in AsServed(samples)
  BY <1>3 DEF IsArrangement
<1>5. Len(plotted) = n /\ DOMAIN plotted = 1..n
  BY <1>4
<1> HIDE DEF plotted
<1>6. /\ n \in 1..n /\ h[n] \in K
      /\ Last(buildSparkline(samples)).y = samples[h[n]].value - Least(plotted)
  <2>1. /\ ~(Len(plotted) < 2)
        /\ buildSparkline(samples)
             = [i \in DOMAIN plotted |->
                  [x |-> i - 1, y |-> plotted[i].value - Least(plotted)]]
    BY DEF buildSparkline, plotted, K
  <2> HIDE DEF n
  <2>2. n \in 1..n /\ Len(buildSparkline(samples)) = n
    BY <1>4, <1>5, <2>1
  <2>3. /\ h[n] \in K /\ plotted[n] = samples[h[n]]
        /\ buildSparkline(samples)[n].y = plotted[n].value - Least(plotted)
    BY <1>4, <1>5, <2>1, <2>2
  <2>4. QED
    BY <2>2, <2>3 DEF Last
<1>7. ValuesOf(plotted) = ValuesOf([i \in K |-> samples[i]])
  <2>1. ValuesOf(plotted) = {samples[h[i]].value : i \in 1..n}
    BY <1>4, <1>5 DEF ValuesOf
  <2>0. \A i \in 1..n : h[i] \in K
    BY <1>4
  <2>2. ValuesOf([i \in K |-> samples[i]]) = {samples[i].value : i \in K}
    BY DEF ValuesOf
  <2> HIDE DEF n
  <2>3. ASSUME NEW v, v \in {samples[i].value : i \in K}
        PROVE  v \in {samples[h[i]].value : i \in 1..n}
    <3>1. PICK k \in K : v = samples[k].value
      BY <2>3
    <3>2. PICK i \in 1..n : h[i] = k
      BY <1>4
    <3>3. QED
      BY <3>1, <3>2
  <2>4. QED
    BY <2>0, <2>1, <2>2, <2>3
<1>8. ASSUME NEW k \in K PROVE samples[k].at <= samples[h[n]].at
  <2>1. PICK i \in 1..n : h[i] = k
    BY <1>4
  <2>2. <<k, h[n]>> \in AsServed(samples)
    BY <1>4, <1>6, <2>1
  <2>3. k <= h[n] /\ k \in DOMAIN samples /\ h[n] \in DOMAIN samples
    BY <2>2 DEF AsServed
  <2>4. QED
    BY <1>1, <2>3
<1>9. Least(plotted) = Least([i \in K |-> samples[i]])
  BY <1>7 DEF Least
<1>10. QED
  BY <1>6, <1>8, <1>9 DEF K

(* Every chart ends with the newest usable sample (toChartSeries and       *)
(* summarizeSeries, buildTimeSeriesChart, buildSparkline).                 *)
THEOREM ChartsAreCurrent == RulesSpec => []ChartsEndWithNewest
<1>1. RulesInv => ChartsEndWithNewest
  <2> SUFFICES ASSUME RulesInv, drawn # Nothing PROVE ChartsEndWithNewest
    BY DEF ChartsEndWithNewest
  <2> DEFINE usable == Usable(samples)
             newest == {k \in usable : \A i \in usable : samples[i].at <= samples[k].at}
  <2>1. ASSUME page = "ups"
        PROVE  \E k \in newest : /\ drawn.latestAt = samples[k].at
                                 /\ drawn.latest = samples[k].value
    <3>1. drawn = summarizeSeries(toChartSeries(samples)) /\ NewestFirst(samples)
      BY <2>1 DEF RulesInv, DrawnInv, GivenInv
    <3>2. toChartSeries(samples) # <<>>
      BY <3>1 DEF summarizeSeries
    <3>3. QED
      BY <3>1, <3>2, HistoryEndsWithNewest DEF RulesInv
  <2>2. ASSUME page = "metric", drawn.plotted # Nothing
        PROVE  \E k \in newest : /\ Last(drawn.plotted).at = samples[k].at
                                 /\ Last(drawn.plotted).value = samples[k].value
    <3>1. drawn = renderMetricDetailChart
      BY <2>2 DEF RulesInv, DrawnInv
    <3>2. QED
      BY <2>2, <3>1, PlottedEndsWithNewest DEF RulesInv
  <2>3. ASSUME page = "metric", drawn.preview # Nothing,
               \A i, j \in DOMAIN samples : i < j => samples[i].at <= samples[j].at
        PROVE  \E k \in newest : Last(drawn.preview).y
                                  = samples[k].value - Least([i \in usable |-> samples[i]])
    <3>1. drawn.preview = buildSparkline(samples)
      BY <2>3 DEF RulesInv, DrawnInv, renderMetricDetailChart
    <3>2. QED
      BY <2>3, <3>1, PreviewEndsWithNewest DEF RulesInv
  <2>4. QED
    BY <2>1, <2>2, <2>3 DEF ChartsEndWithNewest
<1>2. QED
  BY RulesInitInv, RulesStepInv, <1>1, PTL DEF RulesSpec

-----------------------------------------------------------------------------
(* The marker.                                                             *)

(* Places along a line.                                                    *)
IsRow(places) ==
    /\ DOMAIN places \subseteq Nat
    /\ \A i \in DOMAIN places : places[i] \in Int

(* Distances can be compared.                                              *)
LEMMA DistanceIsNat ==
  ASSUME NEW a \in Int, NEW b \in Int
  PROVE  Distance(a, b) \in Nat
  BY DEF Distance

(* The scan for the nearest place finds one, and no other is nearer.       *)
LEMMA NearestIsNear ==
  ASSUME NEW places, IsRow(places), DOMAIN places # {}, NEW p \in Int
  PROVE  /\ Nearest(places, p) \in DOMAIN places
         /\ \A j \in DOMAIN places :
              Distance(places[Nearest(places, p)], p) <= Distance(places[j], p)
<1> DEFINE D == DOMAIN places
           d == [i \in D |-> Distance(places[i], p)]
<1>1. \A i \in D : d[i] \in Nat /\ d[i] = Distance(places[i], p)
  BY DistanceIsNat DEF IsRow
<1> HIDE DEF d
<1>2. PICK m \in {d[i] : i \in D} : \A k \in {d[i] : i \in D} : m <= k
  BY <1>1, SmallestExists
<1>3. PICK i \in {i \in D : d[i] = m} : \A k \in {j \in D : d[j] = m} : i <= k
  <2>1. {i \in D : d[i] = m} \in SUBSET Nat /\ {i \in D : d[i] = m} # {}
    BY <1>2 DEF IsRow
  <2>2. QED
    BY <2>1, SmallestExists
<1>4. ASSUME NEW j \in D
      PROVE  d[i] < d[j] \/ (d[i] = d[j] /\ i <= j)
  <2>1. i \in D /\ d[i] = m /\ m <= d[j]
    BY <1>2, <1>3
  <2>2. d[j] = m => i <= j
    BY <1>3
  <2>3. m \in Int /\ d[j] \in Int
    BY <1>1, <2>1
  <2>4. QED
    BY <2>1, <2>2, <2>3
<1>5. /\ i \in D
      /\ \A j \in D :
           \/ Distance(places[i], p) < Distance(places[j], p)
           \/ Distance(places[i], p) = Distance(places[j], p) /\ i <= j
  BY <1>1, <1>3, <1>4
<1>6. /\ Nearest(places, p) \in D
      /\ \A j \in D :
           \/ Distance(places[Nearest(places, p)], p) < Distance(places[j], p)
           \/ /\ Distance(places[Nearest(places, p)], p) = Distance(places[j], p)
              /\ Nearest(places, p) <= j
  BY <1>5 DEF Nearest
<1>7. QED
  BY <1>1, <1>6

(* A pointer further to the right has no nearest place further to the      *)
(* left, in whatever order the places are scanned.                         *)
LEMMA NearestIsMonotone ==
  ASSUME NEW places, IsRow(places), DOMAIN places # {},
         NEW p \in Int, NEW q \in Int, p <= q
  PROVE  places[Nearest(places, p)] <= places[Nearest(places, q)]
<1> DEFINE a == places[Nearest(places, p)]
           b == places[Nearest(places, q)]
<1>1. /\ Nearest(places, p) \in DOMAIN places /\ Nearest(places, q) \in DOMAIN places
      /\ a \in Int /\ b \in Int
      /\ Distance(a, p) <= Distance(b, p) /\ Distance(b, q) <= Distance(a, q)
  BY NearestIsNear DEF IsRow
<1>2. p = q => a = b
  OBVIOUS
<1> HIDE DEF a, b
<1>3. a <= b
  BY <1>1, <1>2 DEF Distance
<1>4. QED
  BY <1>3 DEF a, b

(* The gridlines computeTimeTicks returns are times.                       *)
LEMMA TicksAreRow ==
  ASSUME NEW start \in Int, NEW stop \in Int
  PROVE  /\ DOMAIN computeTimeTicks(start, stop) \subseteq Nat
         /\ \A i \in DOMAIN computeTimeTicks(start, stop) :
              computeTimeTicks(start, stop)[i] \in Int
<1> DEFINE first == ((start + TickInterval - 1) \div TickInterval) * TickInterval
           count == IF first > stop THEN 0 ELSE (stop - first) \div TickInterval + 1
<1>1. TickInterval \in Nat /\ TickInterval > 0
  BY RulesAssumption DEF RulesAssumption
<1>2. (start + TickInterval - 1) \div TickInterval \in Int
  BY <1>1
<1>3. first \in Int
  BY <1>1, <1>2
<1>4. computeTimeTicks(start, stop) = [i \in 1..count |-> first + (i - 1) * TickInterval]
  BY DEF computeTimeTicks
<1> HIDE DEF first
<1>5. (stop - first) \div TickInterval \in Int
  BY <1>1, <1>3
<1>6. count \in Int
  BY <1>5
<1> HIDE DEF count
<1>7. \A i \in 1..count : (i - 1) * TickInterval \in Int
  BY <1>1, <1>6
<1>8. QED
  BY <1>3, <1>4, <1>6, <1>7

(* The chart of the dialog as the pointer finds it.                        *)
ChartOf(line, ticks, start) ==
    /\ DOMAIN line \subseteq Nat /\ DOMAIN line # {}
    /\ \A i \in DOMAIN line : line[i].at \in Int /\ line[i].x = line[i].at - start
    /\ DOMAIN ticks \subseteq Nat /\ DOMAIN ticks # {}
    /\ \A i \in DOMAIN ticks : ticks[i].at \in Int /\ ticks[i].x = ticks[i].at - start

(* Once the dialog is drawn with a line and gridlines, it is such a chart. *)
LEMMA DialogIsChart ==
  ASSUME RulesInv, page = "metric", drawn # Nothing, drawn.plotted # Nothing,
         drawn.xTicks # <<>>
  PROVE  \E start \in Int : ChartOf(drawn.plotted, drawn.xTicks, start)
<1> DEFINE start == end - WindowLength
           K1 == {i \in DOMAIN samples : samples[i].at >= start}
           recent == Arrange(samples, K1, AsServed(samples))
           sorted == Arrange(recent, Usable(recent), ByTime(recent))
           times == computeTimeTicks(start, end)
           line == drawn.plotted
           ticks == drawn.xTicks
<1>1. /\ Len(samples) \in Nat /\ DOMAIN samples = 1..Len(samples)
      /\ \A i \in DOMAIN samples : samples[i].at \in Nat
      /\ K1 \in SUBSET DOMAIN samples /\ start \in Int /\ end \in Int
  BY GivenIsTyped, RulesAssumption DEF RulesAssumption, GivenInv, RulesInv
<1>2. /\ line = buildTimeSeriesChart(recent, start)
      /\ ticks = [i \in DOMAIN times |-> [at |-> times[i], x |-> times[i] - start]]
  BY DEF RulesInv, DrawnInv, renderMetricDetailChart
<1>3. /\ DOMAIN recent \subseteq Nat
      /\ Len(recent) \in Nat /\ DOMAIN recent = 1..Len(recent)
      /\ \A i \in DOMAIN recent : recent[i].at \in Int
  <2>1. IsFiniteSet(K1) /\ IsOrderOn(AsServed(samples), K1)
    BY <1>1, OrdersArrange
  <2> HIDE DEF K1
  <2>2. PICK h : IsArrangement(recent, h, samples, K1, AsServed(samples))
    BY <2>1, Arranged
  <2>3. QED
    BY <1>1, <2>2, ArrangementIsTyped
<1> HIDE DEF recent
<1>4. /\ DOMAIN sorted \subseteq Nat
      /\ Len(sorted) \in Nat /\ DOMAIN sorted = 1..Len(sorted)
      /\ \A i \in DOMAIN sorted : sorted[i].at \in Int
  <2> DEFINE K2 == Usable(recent)
  <2>1. K2 \in SUBSET DOMAIN recent
    BY DEF Usable
  <2>2. IsFiniteSet(K2) /\ IsOrderOn(ByTime(recent), K2)
    BY <1>3, <2>1, OrdersArrange
  <2> HIDE DEF K2
  <2>3. PICK h : IsArrangement(Arrange(recent, K2, ByTime(recent)), h,
                               recent, K2, ByTime(recent))
    BY <2>2, Arranged
  <2>4. QED
    BY <1>3, <2>1, <2>3, ArrangementIsTyped DEF K2
<1>5. /\ ~(Len(sorted) < 2)
      /\ line = [i \in DOMAIN sorted |->
                   [at |-> sorted[i].at, value |-> sorted[i].value,
                    x |-> sorted[i].at - start,
                    y |-> sorted[i].value - Least(sorted)]]
  BY <1>2, VerticesOfChart
<1> HIDE DEF sorted, line, ticks
<1>6. /\ DOMAIN line \subseteq Nat /\ DOMAIN line # {}
      /\ \A i \in DOMAIN line : line[i].at \in Int /\ line[i].x = line[i].at - start
  BY <1>4, <1>5
<1>7. /\ DOMAIN times \subseteq Nat
      /\ \A i \in DOMAIN times : times[i] \in Int
  BY <1>1, TicksAreRow
<1> HIDE DEF times
<1>8. /\ DOMAIN ticks \subseteq Nat
      /\ \A i \in DOMAIN ticks : ticks[i].at \in Int /\ ticks[i].x = ticks[i].at - start
  BY <1>2, <1>7
<1>9. DOMAIN ticks # {}
  <2>1. SUFFICES ASSUME DOMAIN times = {} PROVE ticks = <<>>
    BY <1>2 DEF ticks
  <2>2. QED
    BY <1>2, <2>1
<1> HIDE DEF start
<1>10. ChartOf(line, ticks, start)
  BY <1>6, <1>8, <1>9 DEF ChartOf
<1>11. QED
  BY <1>1, <1>10 DEF line, ticks

(* Snapping twice, to a gridline and then to a vertex, keeps both facts.   *)
LEMMA SnapIsMonotone ==
  ASSUME NEW start \in Int, ChartOf(drawn.plotted, drawn.xTicks, start), NEW p \in Int
  PROVE  /\ NearestSample(NearestTick(p)).x \in Int
         /\ \A i \in DOMAIN drawn.plotted :
              Distance(NearestSample(NearestTick(p)).x, NearestTick(p).x)
                <= Distance(drawn.plotted[i].x, NearestTick(p).x)
         /\ \A q \in Int : p <= q =>
              NearestSample(NearestTick(p)).x <= NearestSample(NearestTick(q)).x
<1> DEFINE line == drawn.plotted
           ticks == drawn.xTicks
           places == [i \in DOMAIN ticks |-> ticks[i].x]
           ats == [i \in DOMAIN line |-> line[i].at]
<1>1. /\ IsRow(places) /\ DOMAIN places # {} /\ DOMAIN places = DOMAIN ticks
      /\ \A i \in DOMAIN ticks : places[i] = ticks[i].x /\ ticks[i].at = places[i] + start
  BY DEF IsRow, ChartOf
<1>2. /\ IsRow(ats) /\ DOMAIN ats # {} /\ DOMAIN ats = DOMAIN line
      /\ \A i \in DOMAIN line : ats[i] = line[i].at /\ line[i].x = ats[i] - start
  BY DEF IsRow, ChartOf
<1>3. /\ \A r : NearestTick(r) = ticks[Nearest(places, r)]
      /\ \A t : NearestSample(t) = line[Nearest(ats, t.at)]
  BY DEF NearestTick, NearestSample
<1> HIDE DEF line, ticks, places, ats
<1>4. ASSUME NEW r \in Int
      PROVE  /\ NearestTick(r).x = places[Nearest(places, r)]
             /\ NearestTick(r).at = NearestTick(r).x + start
             /\ NearestTick(r).x \in Int /\ NearestTick(r).at \in Int
  <2>1. Nearest(places, r) \in DOMAIN places
    BY <1>1, NearestIsNear
  <2>2. QED
    BY <1>1, <1>3, <2>1 DEF IsRow
<1>5. ASSUME NEW r \in Int
      PROVE  LET t == NearestTick(r)
             IN /\ Nearest(ats, t.at) \in DOMAIN line
                /\ NearestSample(t).x = ats[Nearest(ats, t.at)] - start
                /\ ats[Nearest(ats, t.at)] \in Int
  <2>1. Nearest(ats, NearestTick(r).at) \in DOMAIN ats
    BY <1>2, <1>4, NearestIsNear
  <2>2. QED
    BY <1>2, <1>3, <2>1 DEF IsRow
<1>6. ASSUME NEW i \in DOMAIN line
      PROVE  Distance(NearestSample(NearestTick(p)).x, NearestTick(p).x)
               <= Distance(line[i].x, NearestTick(p).x)
  <2> DEFINE t == NearestTick(p)
             a == ats[Nearest(ats, t.at)]
  <2>1. Distance(a, t.at) <= Distance(ats[i], t.at)
    BY <1>2, <1>4, NearestIsNear
  <2>2. /\ NearestSample(t).x = a - start /\ line[i].x = ats[i] - start /\ t.at = t.x + start
        /\ a \in Int /\ ats[i] \in Int /\ t.x \in Int
    BY <1>2, <1>4, <1>5 DEF IsRow
  <2> HIDE DEF a, t
  <2>3. Distance(NearestSample(t).x, t.x) <= Distance(line[i].x, t.x)
    BY <2>1, <2>2 DEF Distance
  <2>4. QED
    BY <2>3 DEF t
<1>7. ASSUME NEW q \in Int, p <= q
      PROVE  NearestSample(NearestTick(p)).x <= NearestSample(NearestTick(q)).x
  <2>1. NearestTick(p).x <= NearestTick(q).x
    BY <1>1, <1>4, <1>7, NearestIsMonotone
  <2>2. NearestTick(p).at <= NearestTick(q).at
    BY <1>4, <2>1
  <2>3. ats[Nearest(ats, NearestTick(p).at)] <= ats[Nearest(ats, NearestTick(q).at)]
    BY <1>2, <1>4, <2>2, NearestIsMonotone
  <2>4. QED
    BY <1>5, <2>3
<1>8. QED
  BY <1>5, <1>6, <1>7 DEF line

(* The marker is at a vertex nearest to the gridline under the pointer and *)
(* never moves against the pointer (handleMetricDetailHover).              *)
THEOREM MarkerFollows == RulesSpec => HoverFollowsPointer
<1> DEFINE Follows ==
             marker' # Nothing =>
               /\ \A i \in DOMAIN drawn.plotted :
                    Distance(marker'.x, NearestTick(pointer').x)
                      <= Distance(drawn.plotted[i].x, NearestTick(pointer').x)
               /\ (marker # Nothing /\ pointer <= pointer') => marker.x <= marker'.x
<1>1. RulesInv /\ [RulesNext]_rulesVars => [Follows]_rulesVars
  <2> SUFFICES ASSUME RulesInv, RulesNext PROVE Follows
    OBVIOUS
  <2>1. CASE DrawFleet \/ DrawUPS \/ DrawMetric
    BY <2>1 DEF DrawFleet, DrawUPS, DrawMetric, RulesInv, DrawnInv
  <2>2. ASSUME NEW p \in -1..(WindowLength + 1), handleMetricDetailHover(p),
               marker' # Nothing
        PROVE  Follows
    <3>1. /\ page = "metric" /\ drawn # Nothing /\ pointer' = p /\ marker' = Mark(p)
      BY <2>2 DEF handleMetricDetailHover
    <3>2. /\ p \in 0..WindowLength /\ drawn.xTicks # <<>> /\ drawn.plotted # Nothing
          /\ marker' = NearestSample(NearestTick(p))
      BY <2>2, <3>1 DEF Mark
    <3>3. PICK start \in Int : ChartOf(drawn.plotted, drawn.xTicks, start)
      BY <3>1, <3>2, DialogIsChart
    <3>4. \A i \in DOMAIN drawn.plotted :
            Distance(marker'.x, NearestTick(pointer').x)
              <= Distance(drawn.plotted[i].x, NearestTick(pointer').x)
      BY <3>1, <3>2, <3>3, SnapIsMonotone
    <3>5. ASSUME marker # Nothing, pointer <= pointer'
          PROVE  marker.x <= marker'.x
      <4>1. pointer \in 0..WindowLength /\ marker = NearestSample(NearestTick(pointer))
        BY <3>5 DEF RulesInv, DrawnInv, Mark
      <4>2. QED
        BY <3>1, <3>2, <3>3, <3>5, <4>1, SnapIsMonotone
    <3>6. QED
      BY <3>4, <3>5
  <2>3. QED
    BY <2>1, <2>2 DEF RulesNext
<1>2. QED
  BY RulesInitInv, RulesStepInv, <1>1, PTL DEF RulesSpec, HoverFollowsPointer
=============================================================================
