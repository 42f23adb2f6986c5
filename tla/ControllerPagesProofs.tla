------------------------ MODULE ControllerPagesProofs -----------------------
(***************************************************************************)
(* Proofs about ControllerPages, for every set of themes, every bound and  *)
(* every set of environments: the types, what a page shows when its calls  *)
(* have ended, and the theme.                                              *)
(***************************************************************************)
EXTENDS ControllerPages, FiniteSetTheorems, TLAPS

(* The types of the theme, and the environment.                            *)
ThemeTypes ==
    /\ env \in EnvType
    /\ preference \in Preferences /\ storage \in Preferences /\ chosen \in Preferences
    /\ next \in Preferences \cup {NothingNext}

(* Until the next render has come, what it will bring is what was chosen;  *)
(* after it, what is shown and what is stored are.                         *)
ThemeKept ==
    (~env.strict /\ ~env.abrupt) =>
        IF Settled THEN preference = chosen /\ storage = chosen ELSE next = chosen

ThemeInv == ThemeTypes /\ ThemeKept

-----------------------------------------------------------------------------
LEMMA NothingIsNoPreference == NothingNext \notin Preferences /\ System \in Preferences
  BY ConstantsAssumption DEF ConstantsAssumption, NothingNext

LEMMA InitTheme == Init => ThemeInv
<1> SUFFICES ASSUME Init PROVE ThemeInv
  OBVIOUS
<1>1. env \in EnvType
  BY ConstantsAssumption DEF ConstantsAssumption, Init
<1>2. QED
  BY <1>1, NothingIsNoPreference DEF Init, ThemeInv, ThemeTypes, ThemeKept, Settled

(* All but four actions leave the theme alone.                             *)
LEMMA UntouchedTheme == ASSUME ThemeInv, UNCHANGED <<theme, env>> PROVE ThemeInv'
  BY DEF ThemeInv, ThemeTypes, ThemeKept, Settled, theme

LEMMA RenderKeepsTheme == ASSUME ThemeInv, AppRendersAgain PROVE ThemeInv'
<1>1. next \in Preferences
  BY DEF ThemeInv, ThemeTypes, AppRendersAgain, Settled
<1>2. QED
  BY <1>1 DEF ThemeInv, ThemeTypes, ThemeKept, AppRendersAgain, Settled

LEMMA ChoiceKeepsTheme ==
  ASSUME ThemeInv, NEW t \in Preferences, onThemePreferenceChange(t) PROVE ThemeInv'
  BY DEF ThemeInv, ThemeTypes, ThemeKept, onThemePreferenceChange, Settled

(* A reload reads what is stored before it overwrites it.                  *)
LEMMA ReloadKeepsTheme == ASSUME ThemeInv, Reload PROVE ThemeInv'
<1>1. ReadPreference(storage) \in Preferences
  BY NothingIsNoPreference DEF ThemeInv, ThemeTypes, ReadPreference
<1>2. ThemeTypes'
  BY <1>1, NothingIsNoPreference DEF ThemeInv, ThemeTypes, Reload, AppMounts
<1>3. ASSUME ~env.strict, ~env.abrupt PROVE next' = chosen /\ next' # NothingNext
  BY <1>3, NothingIsNoPreference
  DEF ThemeInv, ThemeTypes, ThemeKept, Reload, AppMounts, ReadPreference
<1>4. env' = env /\ chosen' = chosen
  BY DEF Reload
<1>5. ThemeKept'
  BY <1>3, <1>4 DEF ThemeKept, Settled
<1>6. QED
  BY <1>2, <1>5 DEF ThemeInv

LEMMA StepKeepsTheme == ASSUME ThemeInv, [Next]_vars PROVE ThemeInv'
<1>1. CASE UNCHANGED vars
  BY <1>1, UntouchedTheme DEF vars
<1>2. CASE AppRendersAgain
  BY <1>2, RenderKeepsTheme
<1>3. CASE \E t \in Preferences : onThemePreferenceChange(t)
  BY <1>3, ChoiceKeepsTheme
<1>4. CASE Reload
  BY <1>4, ReloadKeepsTheme
<1>5. CASE \E p \in Pages : Navigate(p) \/ OthersChange(p)
  BY <1>5, UntouchedTheme DEF Navigate, OthersChange
<1>6. CASE handleNavigate \/ Hide \/ Show \/ IntervalFires
  BY <1>6, UntouchedTheme DEF handleNavigate, Hide, Show, IntervalFires
<1>7. CASE Write \/ requestConfirmation
  BY <1>7, UntouchedTheme DEF Write, requestConfirmation
<1>8. CASE \E accepted \in BOOLEAN : closeConfirmation(accepted)
  BY <1>8, UntouchedTheme DEF closeConfirmation
<1>9. CASE \E c \in calls : ControllerAnswers(c) \/ GoesOn(c)
  BY <1>9, UntouchedTheme DEF ControllerAnswers, GoesOn, LoadAnswered, WriteAnswered
<1>10. QED
  BY <1>1, <1>2, <1>3, <1>4, <1>5, <1>6, <1>7, <1>8, <1>9 DEF Next

(* The theme that was chosen last survives every number of reloads,        *)
(* although each stores the default before it applies what was stored, in  *)
(* builds that run effects once and tabs that live until they have run.    *)
THEOREM ThemeIsKept == Spec => []ThemeSurvivesReload
<1>1. ThemeInv => ThemeSurvivesReload
  BY DEF ThemeInv, ThemeKept, ThemeSurvivesReload
<1>2. QED
  BY <1>1, InitTheme, StepKeepsTheme, PTL DEF Spec

-----------------------------------------------------------------------------
(* The slots suffice, a question is asked by a page that asks questions,   *)
(* and only the fleet has an interval.                                     *)
SlotsInv ==
    /\ IsFiniteSet(calls) /\ Cardinality(calls) <= MaxCalls
    /\ confirm # NoQuestion => confirm.page \in Pages
    /\ intervals > 0 => route = "fleet"

(* The user waits for answers, and nobody else changes anything.           *)
Quiet == ~env.overlap /\ ~env.others

(* Then what is pending belongs to the page that is mounted, except for    *)
(* background refreshes of a fleet that was left; a write is on its own,   *)
(* so that what was answered is still so; and a page that waits for        *)
(* nothing shows it, or an error was seen.                                 *)
QuietInv ==
    /\ \A c \in calls : ~c.silent => c.mine /\ c.page = route
    /\ \A c \in calls : c.silent =>
         c.fn = "load" /\ c.page = "fleet" /\ (c.mine => route = "fleet")
    /\ \A c, d \in calls : c.fn = "write" /\ ~d.silent => c = d
    /\ \A c \in calls : ~c.silent /\ c.answered /\ c.ok => c.data = version[route]
    /\ confirm # NoQuestion => confirm.page = route /\ confirm.mine
    /\ route # "fleet" /\ ~Pending => page.shown = version[route] \/ told

PageInv == TypeOK /\ SlotsInv /\ (Quiet => QuietInv)

-----------------------------------------------------------------------------
LEMMA Bounds ==
  /\ MaxCalls \in Nat /\ MaxCalls >= 2 /\ MaxActs \in Nat /\ MaxVersion \in Nat
  /\ 0 \in Version /\ Version \subseteq Nat
  /\ NoQuestion \in [page : Pages \cup {"none"}, mine : BOOLEAN]
  /\ NoQuestion.page = "none" /\ NoQuestion.mine = FALSE
  BY ConstantsAssumption DEF ConstantsAssumption, Version, NoQuestion

LEMMA SlotIsFree ==
  ASSUME NEW cs, IsFiniteSet(cs), Cardinality(cs) < MaxCalls
  PROVE  FreeSlot(cs) \in 1 .. MaxCalls
<1> DEFINE taken == {c.slot : c \in cs}
           f == [c \in cs |-> c.slot]
<1>1. f \in Surjection(cs, taken)
  BY DEF Surjection
<1>2. IsFiniteSet(taken) /\ Cardinality(taken) <= Cardinality(cs)
  BY <1>1, FS_Surjection
<1>3. IsFiniteSet(1 .. MaxCalls) /\ Cardinality(1 .. MaxCalls) = MaxCalls
  BY Bounds, FS_Interval
<1>4. Cardinality(cs) \in Nat /\ Cardinality(taken) \in Nat
  BY <1>2, FS_CardinalityType
<1>5. ~(1 .. MaxCalls \subseteq taken)
  BY <1>2, <1>3, <1>4, FS_Subset, Bounds
<1>6. \E s \in 1 .. MaxCalls : \A c \in cs : c.slot # s
  BY <1>5
<1>7. QED
  BY <1>6, Zenon DEF FreeSlot

(* A call that was just sent.                                              *)
IsSent(new, fn, p, silent, mine) ==
    /\ new \in CallType /\ new.fn = fn /\ new.page = p
    /\ new.silent = silent /\ new.mine = mine /\ new.answered = FALSE

LEMMA SendAdds ==
  ASSUME NEW cs \in SUBSET CallType, IsFiniteSet(cs), Cardinality(cs) < MaxCalls,
         NEW fn \in {"load", "write"}, NEW p \in Pages,
         NEW silent \in BOOLEAN, NEW mine \in BOOLEAN
  PROVE  LET sent == Send(cs, fn, p, silent, mine) IN
         /\ sent \subseteq CallType /\ IsFiniteSet(sent)
         /\ Cardinality(sent) \in Nat /\ Cardinality(sent) <= Cardinality(cs) + 1
         /\ \E new : IsSent(new, fn, p, silent, mine) /\ sent = cs \cup {new}
<1> DEFINE new == [slot |-> FreeSlot(cs), fn |-> fn, page |-> p, silent |-> silent,
                   mine |-> mine, answered |-> FALSE, ok |-> FALSE, data |-> 0]
<1>1. IsSent(new, fn, p, silent, mine)
  BY SlotIsFree, Bounds DEF CallType, IsSent
<1>2. Send(cs, fn, p, silent, mine) = cs \cup {new}
  BY DEF Send
<1> HIDE DEF new
<1>3. /\ IsFiniteSet(cs \cup {new})
      /\ Cardinality(cs \cup {new}) =
           IF new \in cs THEN Cardinality(cs) ELSE Cardinality(cs) + 1
  BY FS_AddElement
<1>4. Cardinality(cs) \in Nat
  BY FS_CardinalityType
<1>5. cs \cup {new} \subseteq CallType
  BY <1>1 DEF IsSent
<1>6. QED
  BY <1>1, <1>2, <1>3, <1>4, <1>5

(* The calls of a page that was left go on, one for one.                   *)
LEMMA OrphansFit ==
  ASSUME NEW cs \in SUBSET CallType, IsFiniteSet(cs)
  PROVE  LET orphans == Orphaned(cs) IN
         /\ orphans \subseteq CallType /\ IsFiniteSet(orphans)
         /\ Cardinality(orphans) \in Nat /\ Cardinality(orphans) <= Cardinality(cs)
         /\ \A c \in orphans :
              ~c.mine /\ \E d \in cs : /\ c.fn = d.fn /\ c.page = d.page
                                       /\ c.silent = d.silent
<1> DEFINE orphans == Orphaned(cs)
           f == [c \in cs |-> [c EXCEPT !.mine = FALSE]]
<1>1. f \in Surjection(cs, orphans)
  BY DEF Surjection, Orphaned
<1>2. IsFiniteSet(orphans) /\ Cardinality(orphans) <= Cardinality(cs)
  BY <1>1, FS_Surjection
<1>3. Cardinality(orphans) \in Nat
  BY <1>2, FS_CardinalityType
<1>4. ASSUME NEW d \in cs
      PROVE  LET c == [d EXCEPT !.mine = FALSE] IN
             /\ c \in CallType /\ ~c.mine
             /\ c.fn = d.fn /\ c.page = d.page /\ c.silent = d.silent
  BY DEF CallType
<1>5. \A c \in orphans : \E d \in cs : c = [d EXCEPT !.mine = FALSE]
  BY DEF Orphaned
<1> HIDE DEF orphans
<1>6. ASSUME NEW c \in orphans
      PROVE  /\ c \in CallType /\ ~c.mine
             /\ \E d \in cs : c.fn = d.fn /\ c.page = d.page /\ c.silent = d.silent
  <2>1. PICK d \in cs : c = [d EXCEPT !.mine = FALSE]
    BY <1>5
  <2>2. /\ c \in CallType /\ ~c.mine
        /\ c.fn = d.fn /\ c.page = d.page /\ c.silent = d.silent
    BY <1>4, <2>1
  <2>3. QED
    BY <2>2
<1>7. QED
  BY <1>2, <1>3, <1>6 DEF orphans

(* The loads of a page that is mounted, once or, in StrictMode, twice.     *)
LEMMA MountAdds ==
  ASSUME NEW cs \in SUBSET CallType, IsFiniteSet(cs), NEW p \in Pages,
         Cardinality(cs) + (IF env.strict THEN 2 ELSE 1) <= MaxCalls
  PROVE  LET loads == MountLoads(cs, p) IN
         /\ loads \subseteq CallType /\ IsFiniteSet(loads)
         /\ Cardinality(loads) <= MaxCalls
         /\ \A c \in loads : c \in cs \/ IsSent(c, "load", p, FALSE, TRUE)
         /\ \E c \in loads : ~c.silent
<1> DEFINE silent == FALSE
           mine == TRUE
           first == Send(cs, "load", p, silent, mine)
           second == Send(first, "load", p, silent, mine)
<1>1. Cardinality(cs) \in Nat /\ silent \in BOOLEAN /\ mine \in BOOLEAN
  BY FS_CardinalityType
<1>2. MountLoads(cs, p) = IF env.strict THEN second ELSE first
  BY DEF MountLoads, Load
<1>3. silent = FALSE /\ mine = TRUE
  OBVIOUS
<1> HIDE DEF silent, mine
<1>4. Cardinality(cs) < MaxCalls
  BY <1>1, Bounds
<1>5. /\ first \subseteq CallType /\ IsFiniteSet(first)
      /\ Cardinality(first) \in Nat /\ Cardinality(first) <= Cardinality(cs) + 1
      /\ \E new : IsSent(new, "load", p, silent, mine) /\ first = cs \cup {new}
  BY <1>1, <1>4, SendAdds
<1> HIDE DEF first
<1>6. /\ Cardinality(first) <= MaxCalls
      /\ \A c \in first : c \in cs \/ IsSent(c, "load", p, silent, mine)
      /\ \E c \in first : ~c.silent
  <2>1. Cardinality(first) <= MaxCalls
    BY <1>1, <1>4, <1>5, Bounds
  <2>2. PICK new : IsSent(new, "load", p, silent, mine) /\ first = cs \cup {new}
    BY <1>5
  <2>3. ~new.silent
    BY <1>3, <2>2 DEF IsSent
  <2>4. QED
    BY <2>1, <2>2, <2>3
<1>7. CASE ~env.strict
  BY <1>2, <1>3, <1>5, <1>6, <1>7
<1>8. CASE env.strict
  <2>1. first \in SUBSET CallType /\ IsFiniteSet(first) /\ Cardinality(first) < MaxCalls
    BY <1>1, <1>5, <1>8, Bounds
  <2>2. /\ second \subseteq CallType /\ IsFiniteSet(second)
        /\ Cardinality(second) \in Nat /\ Cardinality(second) <= Cardinality(first) + 1
        /\ \E new : IsSent(new, "load", p, silent, mine) /\ second = first \cup {new}
    BY <1>1, <2>1, SendAdds
  <2> HIDE DEF second
  <2>3. Cardinality(second) <= MaxCalls
    BY <1>5, <2>1, <2>2, Bounds
  <2>4. /\ \A c \in second : c \in first \/ IsSent(c, "load", p, silent, mine)
        /\ \E c \in second : ~c.silent
    BY <1>6, <2>2
  <2>5. QED
    BY <1>2, <1>3, <1>6, <1>8, <2>2, <2>3, <2>4
<1>9. QED
  BY <1>7, <1>8

-----------------------------------------------------------------------------
(* A step that sends one call from a page that stays: for a user who waits *)
(* it is a refresh of the fleet, or the only call that is pending.         *)
LEMMA SendingKeeps ==
  ASSUME PageInv, Room(1),
         NEW fn \in {"load", "write"}, NEW p \in Pages,
         NEW silent \in BOOLEAN, NEW mine \in BOOLEAN,
         calls' = Send(calls, fn, p, silent, mine),
         UNCHANGED <<version, route, told, env>>,
         page'.shown = page.shown, confirm' \in {confirm, NoQuestion},
         intervals' > 0 => route = "fleet",
         Quiet => \/ silent /\ fn = "load" /\ p = "fleet" /\ route = "fleet"
                  \/ ~silent /\ mine /\ p = route /\ ~Pending
  PROVE  calls' \subseteq CallType /\ SlotsInv' /\ (Quiet' => QuietInv')
<1>1. /\ calls \in SUBSET CallType /\ IsFiniteSet(calls) /\ Cardinality(calls) < MaxCalls
      /\ Cardinality(calls) \in Nat
  BY FS_CardinalityType, Bounds DEF PageInv, TypeOK, SlotsInv, Room
<1>2. /\ calls' \subseteq CallType /\ IsFiniteSet(calls')
      /\ Cardinality(calls') \in Nat /\ Cardinality(calls') <= Cardinality(calls) + 1
      /\ \E new : IsSent(new, fn, p, silent, mine) /\ calls' = calls \cup {new}
  BY <1>1, SendAdds
<1>3. SlotsInv'
  BY <1>1, <1>2, Bounds DEF PageInv, SlotsInv
<1>4. ASSUME Quiet PROVE QuietInv'
  <2>1. QuietInv
    BY <1>4 DEF PageInv
  <2>2. PICK new : IsSent(new, fn, p, silent, mine) /\ calls' = calls \cup {new}
    BY <1>2
  <2>3. \A c \in calls : c.answered \in BOOLEAN /\ c.silent \in BOOLEAN
    BY <1>1 DEF CallType
  <2>4. CASE silent /\ fn = "load" /\ p = "fleet" /\ route = "fleet"
    <3>1. new.silent /\ new.fn = "load" /\ new.page = "fleet"
      BY <2>2, <2>4 DEF IsSent
    <3>2. QED
      BY <2>1, <2>2, <2>4, <3>1 DEF QuietInv
  <2>5. CASE ~silent /\ mine /\ p = route /\ ~Pending
    <3>1. /\ ~new.silent /\ new.mine /\ new.page = route /\ ~new.answered
          /\ \A c \in calls : c.silent
      BY <2>2, <2>5 DEF IsSent, Pending
    <3>2. Pending'
      BY <2>2, <3>1 DEF Pending
    <3>3. \A c, d \in calls' : c.fn = "write" /\ ~d.silent => c = d
      BY <2>1, <2>2, <3>1 DEF QuietInv
    <3>4. /\ \A c \in calls' : ~c.silent => c.mine /\ c.page = route
          /\ \A c \in calls' : c.silent =>
               c.fn = "load" /\ c.page = "fleet" /\ (c.mine => route = "fleet")
          /\ \A c \in calls' : ~c.silent /\ c.answered /\ c.ok => c.data = version[route]
      BY <2>1, <2>2, <3>1 DEF QuietInv
    <3>5. confirm' # NoQuestion => confirm'.page = route /\ confirm'.mine
      BY <2>1 DEF QuietInv
    <3>6. QED
      BY <3>2, <3>3, <3>4, <3>5 DEF QuietInv
  <2>6. QED
    BY <1>4, <2>4, <2>5
<1>5. Quiet' => Quiet
  BY DEF Quiet
<1>6. QED
  BY <1>2, <1>3, <1>4, <1>5

(* A page is mounted: for a user who waits, what goes on from before are   *)
(* background refreshes, which no longer concern anybody.                  *)
LEMMA MountingKeeps ==
  ASSUME PageInv, NEW p \in Pages, MountRoom, NEW hid \in BOOLEAN,
         calls' = MountLoads(Orphaned(calls), p),
         route' = p, intervals' = MountIntervals(p, hid), page' = Fresh(p),
         confirm' # NoQuestion => confirm'.page \in Pages,
         UNCHANGED env,
         Quiet => ~Pending /\ confirm' = NoQuestion
  PROVE  /\ calls' \subseteq CallType /\ SlotsInv' /\ (Quiet' => QuietInv')
         /\ page' \in PageType /\ intervals' \in {0, 1}
<1> DEFINE orphans == Orphaned(calls)
<1>1. /\ calls \in SUBSET CallType /\ IsFiniteSet(calls) /\ Cardinality(calls) \in Nat
      /\ Cardinality(calls) + (IF env.strict THEN 2 ELSE 1) <= MaxCalls
  BY FS_CardinalityType, Bounds DEF PageInv, TypeOK, SlotsInv, MountRoom, Room
<1>2. /\ orphans \subseteq CallType /\ IsFiniteSet(orphans)
      /\ Cardinality(orphans) \in Nat /\ Cardinality(orphans) <= Cardinality(calls)
      /\ \A c \in orphans : ~c.mine /\ \E d \in calls : /\ c.fn = d.fn /\ c.page = d.page
                                                       /\ c.silent = d.silent
  BY <1>1, OrphansFit
<1> HIDE DEF orphans
<1>3. Cardinality(orphans) + (IF env.strict THEN 2 ELSE 1) <= MaxCalls
  BY <1>1, <1>2, Bounds
<1>4. calls' = MountLoads(orphans, p)
  BY DEF orphans
<1>5. /\ calls' \subseteq CallType /\ IsFiniteSet(calls') /\ Cardinality(calls') <= MaxCalls
      /\ \A c \in calls' : c \in orphans \/ IsSent(c, "load", p, FALSE, TRUE)
      /\ \E c \in calls' : ~c.silent
  BY <1>2, <1>3, <1>4, MountAdds
<1>6. /\ intervals' \in {0, 1} /\ (intervals' > 0 => route' = "fleet")
      /\ page' \in PageType
  BY DEF MountIntervals, Fresh, PageType
<1>7. SlotsInv'
  BY <1>5, <1>6 DEF SlotsInv
<1>8. ASSUME Quiet PROVE QuietInv'
  <2>1. QuietInv /\ confirm' = NoQuestion /\ \A d \in calls : d.silent
    BY <1>8 DEF PageInv, Pending
  <2>2. \A c \in orphans : c.silent /\ c.fn = "load" /\ c.page = "fleet" /\ ~c.mine
    BY <1>2, <2>1 DEF QuietInv
  <2>3. \A c \in calls' : IsSent(c, "load", p, FALSE, TRUE) =>
          ~c.silent /\ c.fn = "load" /\ c.page = p /\ c.mine /\ ~c.answered
    BY DEF IsSent
  <2>4. \A c \in calls' :
          \/ c.silent /\ c.fn = "load" /\ c.page = "fleet" /\ ~c.mine
          \/ ~c.silent /\ c.fn = "load" /\ c.page = p /\ c.mine /\ ~c.answered
    BY <1>5, <2>2, <2>3
  <2>5. Pending'
    BY <1>5 DEF Pending
  <2>6. QED
    BY <2>1, <2>4, <2>5 DEF QuietInv
<1>9. Quiet' => Quiet
  BY DEF Quiet
<1>10. QED
  BY <1>5, <1>6, <1>7, <1>8, <1>9

LEMMA InitPage == Init => PageInv
<1> SUFFICES ASSUME Init PROVE PageInv
  OBVIOUS
<1>1. env \in EnvType /\ route \in Pages
  BY ConstantsAssumption DEF ConstantsAssumption, Init
<1>2. /\ {} \in SUBSET CallType /\ IsFiniteSet({})
      /\ Cardinality({}) + (IF env.strict THEN 2 ELSE 1) <= MaxCalls
  BY FS_EmptySet, Bounds
<1>3. /\ calls \subseteq CallType /\ IsFiniteSet(calls) /\ Cardinality(calls) <= MaxCalls
      /\ \A c \in calls : IsSent(c, "load", route, FALSE, TRUE)
      /\ \E c \in calls : ~c.silent
  BY <1>1, <1>2, MountAdds DEF Init
<1>4. /\ intervals \in {0, 1} /\ (intervals > 0 => route = "fleet")
      /\ page \in PageType /\ confirm = NoQuestion
  BY <1>1 DEF Init, MountIntervals, Fresh, PageType
<1>5. version \in [Pages -> Version]
  BY Bounds DEF Init
<1>6. TypeOK
  <2>1. /\ storage \in Preferences /\ preference \in Preferences /\ chosen \in Preferences
        /\ next \in Preferences \cup {NothingNext}
    BY NothingIsNoPreference DEF Init
  <2>2. hidden \in BOOLEAN /\ told \in BOOLEAN
    BY DEF Init
  <2>3. acts \in 0 .. MaxActs
    BY Bounds DEF Init
  <2>4. confirm \in [page : Pages \cup {"none"}, mine : BOOLEAN]
    BY <1>4, Bounds
  <2>5. QED
    BY <1>1, <1>3, <1>4, <1>5, <2>1, <2>2, <2>3, <2>4 DEF TypeOK
<1>7. \A c \in calls : /\ ~c.silent /\ c.fn = "load" /\ c.page = route /\ c.mine
                       /\ ~c.answered
  BY <1>3 DEF IsSent
<1>8. QuietInv
  BY <1>3, <1>4, <1>7 DEF QuietInv, Pending
<1>9. QED
  BY <1>3, <1>4, <1>6, <1>8 DEF PageInv, SlotsInv

(* What touches neither calls nor what is shown or asked.                  *)
LEMMA RestingKeeps ==
  ASSUME PageInv, UNCHANGED <<version, route, page, calls, told, env>>,
         confirm' \in {confirm, NoQuestion}
           \/ (confirm'.page = route /\ confirm'.mine /\ route \in Pages),
         intervals' \in {0, intervals}
  PROVE  SlotsInv' /\ (Quiet' => QuietInv')
<1>1. SlotsInv'
  BY DEF PageInv, SlotsInv
<1>2. Quiet' = Quiet /\ Pending' = Pending
  BY DEF Quiet, Pending
<1>3. ASSUME QuietInv PROVE QuietInv'
  BY <1>2, <1>3 DEF QuietInv
<1>4. QED
  BY <1>1, <1>2, <1>3 DEF PageInv

LEMMA UserWaits == ASSUME PageInv, Acts PROVE acts' \in 0 .. MaxActs /\ (Quiet => ~Pending)
  BY Bounds DEF PageInv, TypeOK, Acts, Quiet

LEMMA NavigateKeeps == ASSUME PageInv, NEW p \in Pages, Navigate(p) PROVE PageInv'
<1>1. /\ calls' = MountLoads(Orphaned(calls), p) /\ MountRoom
      /\ route' = p /\ intervals' = MountIntervals(p, hidden) /\ page' = Fresh(p)
      /\ confirm' = [confirm EXCEPT !.mine = FALSE] /\ told' = FALSE
      /\ UNCHANGED <<version, hidden, storage, preference, next, chosen, env>>
      /\ acts' \in 0 .. MaxActs
      /\ Quiet => ~Pending /\ confirm = NoQuestion
  BY UserWaits DEF Navigate, theme, Acts, Quiet, Uncovered
<1>2. hidden \in BOOLEAN /\ confirm \in [page : Pages \cup {"none"}, mine : BOOLEAN]
  BY DEF PageInv, TypeOK
<1>3. /\ confirm' \in [page : Pages \cup {"none"}, mine : BOOLEAN]
      /\ confirm'.page = confirm.page
      /\ confirm = NoQuestion => confirm' = NoQuestion
  <2>1. confirm' = [page |-> confirm.page, mine |-> FALSE]
    BY <1>1, <1>2
  <2>2. confirm.page \in Pages \cup {"none"}
    BY <1>2
  <2>3. confirm'.page = confirm.page
    BY <2>1
  <2>4. confirm' \in [page : Pages \cup {"none"}, mine : BOOLEAN]
    BY <2>1, <2>2
  <2>5. confirm = NoQuestion => confirm' = NoQuestion
    BY <2>1 DEF NoQuestion
  <2>6. QED
    BY <2>3, <2>4, <2>5
<1>4. confirm' # NoQuestion => confirm'.page \in Pages
  BY <1>3 DEF PageInv, SlotsInv
<1>5. /\ calls' \subseteq CallType /\ SlotsInv' /\ (Quiet' => QuietInv')
      /\ page' \in PageType /\ intervals' \in {0, 1}
  BY <1>1, <1>2, <1>3, <1>4, MountingKeeps
<1>6. TypeOK'
  BY <1>1, <1>3, <1>5 DEF PageInv, TypeOK
<1>7. QED
  BY <1>5, <1>6 DEF PageInv

LEMMA ReloadKeeps == ASSUME PageInv, Reload PROVE PageInv'
<1>1. /\ calls' = MountLoads(Orphaned(calls), route) /\ MountRoom
      /\ route' = route /\ intervals' = MountIntervals(route, hidden)
      /\ page' = Fresh(route) /\ confirm' = NoQuestion /\ told' = FALSE
      /\ UNCHANGED <<version, hidden, chosen, env>>
      /\ acts' \in 0 .. MaxActs
      /\ Quiet => ~Pending
      /\ AppMounts(storage)
  BY UserWaits DEF Reload
<1>2. hidden \in BOOLEAN /\ route \in Pages /\ storage \in Preferences
  BY DEF PageInv, TypeOK
<1>3. /\ calls' \subseteq CallType /\ SlotsInv' /\ (Quiet' => QuietInv')
      /\ page' \in PageType /\ intervals' \in {0, 1}
  BY <1>1, <1>2, MountingKeeps
<1>4. preference' \in Preferences /\ storage' \in Preferences /\ next' \in Preferences
  BY <1>1, <1>2, NothingIsNoPreference DEF AppMounts, ReadPreference
<1>5. TypeOK'
  BY <1>1, <1>2, <1>3, <1>4, Bounds DEF PageInv, TypeOK
<1>6. QED
  BY <1>3, <1>5 DEF PageInv

LEMMA RestKeeps ==
  ASSUME PageInv,
         \/ Hide \/ requestConfirmation \/ AppRendersAgain
         \/ (\E t \in Preferences : onThemePreferenceChange(t))
         \/ UNCHANGED vars
  PROVE  PageInv'
<1>1. route \in Pages /\ acts \in 0 .. MaxActs /\ intervals \in {0, 1} /\ hidden \in BOOLEAN
  BY DEF PageInv, TypeOK
<1>2. /\ UNCHANGED <<version, route, page, calls, told, env>>
      /\ confirm' = confirm \/ confirm' = [page |-> route, mine |-> TRUE]
      /\ intervals' \in {0, intervals} /\ hidden' \in {hidden, TRUE}
  BY DEF Hide, requestConfirmation, AppRendersAgain, onThemePreferenceChange, vars,
         mounted, theme
<1>3. acts' \in 0 .. MaxActs
  BY <1>1, UserWaits DEF Hide, requestConfirmation, AppRendersAgain,
                         onThemePreferenceChange, vars
<1>4. /\ storage' \in Preferences /\ preference' \in Preferences /\ chosen' \in Preferences
      /\ next' \in Preferences \cup {NothingNext}
  BY DEF Hide, requestConfirmation, AppRendersAgain, onThemePreferenceChange, vars,
         theme, PageInv, TypeOK, Settled
<1>5. SlotsInv' /\ (Quiet' => QuietInv')
  BY <1>1, <1>2, RestingKeeps
<1>6. confirm' \in [page : Pages \cup {"none"}, mine : BOOLEAN]
  <2>1. [page |-> route, mine |-> TRUE] \in [page : Pages \cup {"none"}, mine : BOOLEAN]
    BY <1>1
  <2>2. confirm \in [page : Pages \cup {"none"}, mine : BOOLEAN]
    BY DEF PageInv, TypeOK
  <2>3. QED
    BY <1>2, <2>1, <2>2
<1>7. intervals' \in {0, 1} /\ hidden' \in BOOLEAN
  BY <1>1, <1>2
<1>8. TypeOK'
  BY <1>2, <1>3, <1>4, <1>6, <1>7 DEF PageInv, TypeOK
<1>9. QED
  BY <1>5, <1>8 DEF PageInv

LEMMA Sending ==
  ASSUME PageInv, Room(1),
         NEW fn \in {"load", "write"}, NEW p \in Pages,
         NEW silent \in BOOLEAN, NEW mine \in BOOLEAN,
         calls' = Send(calls, fn, p, silent, mine),
         UNCHANGED <<version, route, told, storage, preference, next, chosen, env>>,
         page' \in PageType, page'.shown = page.shown, confirm' \in {confirm, NoQuestion},
         hidden' \in BOOLEAN, intervals' \in {0, 1}, intervals' > 0 => route = "fleet",
         acts' \in 0 .. MaxActs,
         Quiet => \/ silent /\ fn = "load" /\ p = "fleet" /\ route = "fleet"
                  \/ ~silent /\ mine /\ p = route /\ ~Pending
  PROVE  PageInv'
<1>1. calls' \subseteq CallType /\ SlotsInv' /\ (Quiet' => QuietInv')
  BY SendingKeeps
<1>2. confirm' \in [page : Pages \cup {"none"}, mine : BOOLEAN]
  BY Bounds DEF PageInv, TypeOK
<1>3. TypeOK'
  BY <1>1, <1>2 DEF PageInv, TypeOK
<1>4. QED
  BY <1>1, <1>3 DEF PageInv

(* The refreshes: of the menu, of a tab that is shown again, and of the    *)
(* interval.                                                               *)
LEMMA RefreshKeeps ==
  ASSUME PageInv, handleNavigate \/ Show \/ IntervalFires
  PROVE  PageInv'
<1> DEFINE mine == TRUE
           fleet == "fleet"
           load == "load"
<1>1. /\ page \in PageType /\ intervals \in {0, 1} /\ hidden \in BOOLEAN /\ acts \in 0 .. MaxActs
      /\ intervals > 0 => route = "fleet"
  BY DEF PageInv, TypeOK, SlotsInv
<1>2. CASE route = "fleet"
  <2>1. page' \in PageType /\ page'.shown = page.shown
    BY <1>1 DEF handleNavigate, Show, IntervalFires, mounted, PageType
  <2>2. /\ UNCHANGED <<version, route, told, storage, preference, next, chosen, env>>
        /\ confirm' = confirm /\ Room(1)
    BY DEF handleNavigate, Show, IntervalFires, mounted, theme
  <2>3. hidden' \in BOOLEAN /\ intervals' \in {0, 1}
    BY <1>1, <1>2 DEF handleNavigate, Show, IntervalFires, mounted
  <2>4. acts' \in 0 .. MaxActs
    BY <1>1, UserWaits DEF handleNavigate, Show, IntervalFires
  <2>5. CASE handleNavigate
    <3> DEFINE loud == FALSE
    <3>1. calls' = Send(calls, load, fleet, loud, mine) /\ (Quiet => ~Pending)
      BY <2>5, UserWaits DEF handleNavigate, Load
    <3>2. loud \in BOOLEAN /\ mine \in BOOLEAN /\ ~loud /\ mine
      OBVIOUS
    <3>3. fleet = "fleet" /\ load = "load" /\ fleet \in Pages
      BY DEF Pages
    <3> HIDE DEF loud, mine, fleet, load
    <3>4. QED
      BY <1>2, <2>1, <2>2, <2>3, <2>4, <3>1, <3>2, <3>3, Sending
  <2>6. CASE Show \/ IntervalFires
    <3> DEFINE quietly == TRUE
    <3>1. calls' = Send(calls, load, fleet, quietly, mine)
      BY <1>2, <2>6 DEF Show, IntervalFires, Load
    <3>2. quietly \in BOOLEAN /\ mine \in BOOLEAN /\ quietly
      OBVIOUS
    <3>3. fleet = "fleet" /\ load = "load" /\ fleet \in Pages
      BY DEF Pages
    <3> HIDE DEF quietly, mine, fleet, load
    <3>4. QED
      BY <1>2, <2>1, <2>2, <2>3, <2>4, <3>1, <3>2, <3>3, Sending
  <2>7. QED
    BY <2>5, <2>6
<1>3. CASE route # "fleet"
  <2>1. /\ UNCHANGED <<version, route, page, calls, told, storage, preference, next, chosen,
                       confirm, intervals, acts, env>>
        /\ hidden' = FALSE
    <3>1. Show
      BY <1>1, <1>3 DEF handleNavigate, IntervalFires
    <3>2. QED
      BY <1>3, <3>1 DEF Show, theme
  <2>2. SlotsInv' /\ (Quiet' => QuietInv')
    BY <2>1, RestingKeeps
  <2>3. TypeOK'
    BY <2>1 DEF PageInv, TypeOK
  <2>4. QED
    BY <2>2, <2>3 DEF PageInv
<1>4. QED
  BY <1>2, <1>3

(* The writes: a user who waits sends one when nothing else is pending.    *)
LEMMA WriteKeeps ==
  ASSUME PageInv, Write
  PROVE  PageInv'
<1> DEFINE loud == FALSE
           mine == TRUE
           write == "write"
<1>1. /\ page \in PageType /\ intervals \in {0, 1} /\ hidden \in BOOLEAN /\ route \in Pages
      /\ intervals > 0 => route = "fleet"
  BY DEF PageInv, TypeOK, SlotsInv
<1>2. page' \in PageType /\ page'.shown = page.shown
  BY <1>1 DEF Write, PageType
<1>3. /\ UNCHANGED <<version, route, told, storage, preference, next, chosen, env, confirm,
                     hidden, intervals>>
      /\ Room(1) /\ acts' \in 0 .. MaxActs /\ (Quiet => ~Pending)
      /\ calls' = Send(calls, write, route, loud, mine)
  BY UserWaits DEF Write, theme
<1>4. loud \in BOOLEAN /\ mine \in BOOLEAN /\ ~loud /\ mine /\ write \in {"load", "write"}
  OBVIOUS
<1> HIDE DEF loud, mine, write
<1>5. QED
  BY <1>1, <1>2, <1>3, <1>4, Sending

LEMMA closeConfirmationKeeps ==
  ASSUME PageInv, NEW accepted \in BOOLEAN, closeConfirmation(accepted)
  PROVE  PageInv'
<1> DEFINE loud == FALSE
           write == "write"
           asker == confirm.page
           mine == confirm.mine
<1>1. /\ page \in PageType /\ intervals \in {0, 1} /\ hidden \in BOOLEAN /\ route \in Pages
      /\ intervals > 0 => route = "fleet"
      /\ confirm # NoQuestion /\ asker \in Pages /\ mine \in BOOLEAN
  BY DEF PageInv, TypeOK, SlotsInv, closeConfirmation, Uncovered
<1>2. /\ UNCHANGED <<version, route, told, storage, preference, next, chosen, env, page,
                     hidden, intervals>>
      /\ Room(1) /\ acts' \in 0 .. MaxActs /\ (Quiet => ~Pending)
      /\ confirm' = NoQuestion
      /\ calls' = IF accepted THEN Send(calls, write, asker, loud, mine) ELSE calls
  BY UserWaits DEF closeConfirmation, theme, mounted
<1>3. Quiet => asker = route /\ mine
  BY <1>1 DEF PageInv, QuietInv
<1>4. loud \in BOOLEAN /\ ~loud /\ write \in {"load", "write"}
  OBVIOUS
<1> HIDE DEF loud, write, asker, mine
<1>5. CASE accepted
  BY <1>1, <1>2, <1>3, <1>4, <1>5, Sending
<1>6. CASE ~accepted
  <2>1. calls' = calls /\ confirm' = NoQuestion
    BY <1>2, <1>6
  <2>2. SlotsInv' /\ (Quiet' => QuietInv')
    BY <1>2, <2>1, RestingKeeps
  <2>3. TypeOK'
    BY <1>2, <2>1, Bounds DEF PageInv, TypeOK
  <2>4. QED
    BY <2>2, <2>3 DEF PageInv
<1>7. QED
  BY <1>5, <1>6

-----------------------------------------------------------------------------
LEMMA CallEnds ==
  ASSUME PageInv, NEW c \in calls
  PROVE  /\ c \in CallType /\ calls \ {c} \in SUBSET CallType /\ IsFiniteSet(calls \ {c})
         /\ Cardinality(calls \ {c}) \in Nat /\ Cardinality(calls \ {c}) < MaxCalls
<1>1. IsFiniteSet(calls) /\ Cardinality(calls) <= MaxCalls /\ calls \subseteq CallType
  BY DEF PageInv, TypeOK, SlotsInv
<1>2. /\ IsFiniteSet(calls \ {c}) /\ Cardinality(calls \ {c}) = Cardinality(calls) - 1
      /\ Cardinality(calls) \in Nat /\ Cardinality(calls \ {c}) \in Nat
  BY <1>1, FS_RemoveElement, FS_CardinalityType
<1>3. QED
  BY <1>1, <1>2, Bounds

(* A step that ends a call: if it was the last that was pending, the page  *)
(* shows what was answered or an error was seen.                           *)
LEMMA EndingKeeps ==
  ASSUME PageInv, NEW c \in calls, calls' = calls \ {c},
         UNCHANGED <<version, route, hidden, intervals, confirm, storage, preference, next,
                     chosen, acts, env>>,
         page' \in PageType, told' \in BOOLEAN,
         Quiet /\ route # "fleet" =>
           \/ c.silent /\ page'.shown = page.shown /\ (told => told')
           \/ page'.shown = version[route] \/ told'
  PROVE  PageInv'
<1>1. TypeOK' /\ SlotsInv'
  <2>1. /\ calls' \in SUBSET CallType /\ IsFiniteSet(calls') /\ Cardinality(calls') \in Nat
        /\ Cardinality(calls') < MaxCalls /\ MaxCalls \in Nat
    BY CallEnds, Bounds
  <2>2. TypeOK'
    BY <2>1 DEF PageInv, TypeOK
  <2>3. SlotsInv'
    BY <2>1 DEF PageInv, SlotsInv
  <2>4. QED
    BY <2>2, <2>3
<1>2. ASSUME Quiet PROVE QuietInv'
  <2>1. QuietInv
    BY <1>2 DEF PageInv
  <2>2. ASSUME route # "fleet", ~Pending' PROVE page'.shown = version[route] \/ told'
    <3>1. CASE c.silent /\ page'.shown = page.shown /\ (told => told')
      <4>1. ~Pending
        BY <2>2, <3>1 DEF Pending
      <4>2. QED
        BY <2>1, <2>2, <3>1, <4>1 DEF QuietInv
    <3>2. QED
      BY <1>2, <2>2, <3>1
  <2>3. /\ \A d \in calls' : ~d.silent => d.mine /\ d.page = route
        /\ \A d \in calls' : d.silent =>
             d.fn = "load" /\ d.page = "fleet" /\ (d.mine => route = "fleet")
        /\ \A d, e \in calls' : d.fn = "write" /\ ~e.silent => d = e
        /\ \A d \in calls' : ~d.silent /\ d.answered /\ d.ok => d.data = version[route]
        /\ confirm # NoQuestion => confirm.page = route /\ confirm.mine
    BY <2>1 DEF QuietInv
  <2>4. QED
    BY <2>2, <2>3 DEF QuietInv
<1>3. Quiet' => Quiet
  BY DEF Quiet
<1>4. QED
  BY <1>1, <1>2, <1>3 DEF PageInv

LEMMA LoadAnsweredKeeps ==
  ASSUME PageInv, NEW c \in calls, LoadAnswered(c)
  PROVE  PageInv'
<1>1. /\ calls' = calls \ {c} /\ c.answered
      /\ UNCHANGED <<version, route, hidden, intervals, confirm, storage, preference, next,
                     chosen, acts, env>>
      /\ page' = IF c.mine THEN Loaded(c) ELSE page
      /\ told' = (told \/ page'.error)
  BY DEF LoadAnswered, theme
<1>2. page \in PageType /\ told \in BOOLEAN /\ c \in CallType
  BY CallEnds DEF PageInv, TypeOK
<1>3. /\ Loaded(c) \in PageType
      /\ c.ok => Loaded(c).shown = c.data
      /\ ~c.ok /\ ~c.silent => Loaded(c).error
  BY <1>2 DEF Loaded, PageType, CallType
<1>4. page' \in PageType /\ told' \in BOOLEAN
  <2>1. page' \in PageType
    BY <1>1, <1>2, <1>3
  <2>2. page'.error \in BOOLEAN
    BY <2>1 DEF PageType
  <2>3. told' \in BOOLEAN
    BY <1>1, <1>2, <2>2
  <2>4. QED
    BY <2>1, <2>3
<1>5. ASSUME Quiet, route # "fleet"
      PROVE  \/ c.silent /\ page'.shown = page.shown /\ (told => told')
             \/ page'.shown = version[route] \/ told'
  <2>1. QuietInv
    BY <1>5 DEF PageInv
  <2>2. CASE c.silent
    BY <1>1, <1>5, <2>1, <2>2 DEF QuietInv
  <2>3. CASE ~c.silent
    <3>1. c.mine /\ (c.ok => c.data = version[route])
      BY <1>1, <2>1, <2>3 DEF QuietInv
    <3>2. QED
      BY <1>1, <1>3, <2>3, <3>1
  <2>4. QED
    BY <2>2, <2>3
<1>6. QED
  BY <1>1, <1>4, <1>5, EndingKeeps

(* A write on the fleet or among the rules loads the page again, if it is  *)
(* still there; the answer to one of the settings is what is shown.        *)
LEMMA WriteAnsweredKeeps ==
  ASSUME PageInv, NEW c \in calls, WriteAnswered(c)
  PROVE  PageInv'
<1>1. /\ c.fn = "write" /\ c.answered
      /\ UNCHANGED <<version, route, hidden, intervals, confirm, storage, preference, next,
                     chosen, acts, env>>
      /\ told' = (told \/ ~c.ok)
  BY DEF WriteAnswered, ListWritten, SettingsWritten, showToast, theme
<1>2. /\ page \in PageType /\ told \in BOOLEAN /\ c \in CallType /\ c.ok \in BOOLEAN
      /\ c.page \in Pages /\ c.mine \in BOOLEAN /\ c.data \in Version
  BY CallEnds DEF PageInv, TypeOK, CallType
<1>3. told' \in BOOLEAN
  BY <1>1, <1>2
<1>4. Quiet => /\ ~c.silent /\ c.mine /\ c.page = route
               /\ c.ok => c.data = version[route]
               /\ \A d \in calls : ~d.silent => d = c
  BY <1>1 DEF PageInv, QuietInv
<1>5. ASSUME calls' = calls \ {c}, page' \in PageType,
             Quiet /\ route # "fleet" /\ c.ok => page'.shown = version[route]
      PROVE  PageInv'
  <2>1. Quiet /\ route # "fleet" => page'.shown = version[route] \/ told'
    BY <1>1, <1>5
  <2>2. QED
    BY <1>1, <1>3, <1>5, <2>1, EndingKeeps
<1>6. CASE SettingsWritten(c)
  <2>1. /\ calls' = calls \ {c}
        /\ page' = IF ~c.mine THEN page
                   ELSE IF c.ok
                   THEN [page EXCEPT !.shown = c.data, !.error = FALSE, !.saving = FALSE]
                   ELSE [page EXCEPT !.error = TRUE, !.saving = FALSE]
    BY <1>6 DEF SettingsWritten
  <2>2. page' \in PageType /\ (c.mine /\ c.ok => page'.shown = c.data)
    BY <1>2, <2>1 DEF PageType
  <2>3. QED
    BY <1>4, <1>5, <2>1, <2>2
<1>7. CASE ListWritten(c) /\ ~(c.ok /\ c.mine)
  <2>1. calls' = calls \ {c} /\ page' = page
    BY <1>7 DEF ListWritten
  <2>2. QED
    BY <1>2, <1>4, <1>5, <1>7, <2>1
<1>8. CASE ListWritten(c) /\ c.ok /\ c.mine
  <2> DEFINE load == "load"
             p == c.page
             silent == p = "fleet"
             mine == TRUE
             cs == calls \ {c}
  <2>1. calls' = Send(cs, load, p, silent, mine) /\ page' = page
    BY <1>8 DEF ListWritten, Load
  <2>2. /\ cs \in SUBSET CallType /\ IsFiniteSet(cs)
        /\ Cardinality(cs) \in Nat /\ Cardinality(cs) < MaxCalls
    BY CallEnds
  <2>3. /\ silent \in BOOLEAN /\ mine \in BOOLEAN /\ mine /\ (silent <=> p = "fleet")
        /\ load = "load" /\ p = c.page /\ p \in Pages
    BY <1>2
  <2>4. \A d : d \in cs <=> d \in calls /\ d # c
    OBVIOUS
  <2> HIDE DEF load, p, silent, mine, cs
  <2>5. /\ calls' \subseteq CallType /\ IsFiniteSet(calls')
        /\ Cardinality(calls') \in Nat /\ Cardinality(calls') <= Cardinality(cs) + 1
        /\ \E new : IsSent(new, load, p, silent, mine) /\ calls' = cs \cup {new}
    <3>1. load \in {"load", "write"} /\ p \in Pages /\ silent \in BOOLEAN /\ mine \in BOOLEAN
      BY <2>3
    <3>2. calls' = Send(cs, load, p, silent, mine)
      BY <2>1
    <3>3. QED
      BY <2>2, <3>1, <3>2, SendAdds
  <2>6. SlotsInv'
    BY <1>1, <2>2, <2>5, Bounds DEF PageInv, SlotsInv
  <2>7. TypeOK'
    BY <1>1, <1>3, <2>1, <2>5 DEF PageInv, TypeOK
  <2>8. ASSUME Quiet PROVE QuietInv'
    <3>1. /\ QuietInv /\ p = route
          /\ \A d \in cs : d.silent
      BY <1>4, <2>3, <2>4, <2>8 DEF PageInv
    <3>2. PICK new : IsSent(new, load, p, silent, mine) /\ calls' = cs \cup {new}
      BY <2>5
    <3>3. /\ new.fn = "load" /\ new.page = route /\ new.mine /\ ~new.answered
          /\ new.silent = silent
      BY <2>3, <3>1, <3>2 DEF IsSent
    <3>4. \A d \in calls' :
            \/ d.silent /\ d.fn = "load" /\ d.page = "fleet" /\ (d.mine => route = "fleet")
            \/ d = new /\ ~d.silent
      BY <2>3, <2>4, <3>1, <3>2, <3>3 DEF QuietInv
    <3>5. route # "fleet" => Pending'
      BY <2>3, <3>1, <3>2, <3>3 DEF Pending
    <3>6. /\ \A d \in calls' : ~d.silent => d.mine /\ d.page = route
          /\ \A d \in calls' : d.silent =>
               d.fn = "load" /\ d.page = "fleet" /\ (d.mine => route = "fleet")
          /\ \A d, e \in calls' : d.fn = "write" /\ ~e.silent => d = e
          /\ \A d \in calls' : ~d.silent /\ d.answered /\ d.ok => d.data = version[route]
      BY <3>3, <3>4
    <3>7. confirm # NoQuestion => confirm.page = route /\ confirm.mine
      BY <3>1 DEF QuietInv
    <3>8. QED
      BY <1>1, <3>5, <3>6, <3>7 DEF QuietInv
  <2>9. Quiet' => Quiet
    BY <1>1 DEF Quiet
  <2>10. QED
    BY <2>6, <2>7, <2>8, <2>9 DEF PageInv
<1>9. QED
  BY <1>6, <1>7, <1>8 DEF WriteAnswered

LEMMA BumpFits ==
  ASSUME TypeOK, NEW p \in Pages
  PROVE  Bump(p) \in [Pages -> Version] /\ \A q \in Pages : q # p => Bump(p)[q] = version[q]
<1>1. version \in [Pages -> Version] /\ version[p] \in 0 .. MaxVersion
  BY DEF TypeOK, Version
<1>2. version[p] < MaxVersion => version[p] + 1 \in Version
  BY <1>1, Bounds DEF Version
<1>3. QED
  BY <1>1, <1>2 DEF Bump

(* The answer to a call tells what is so when the controller gives it; a   *)
(* write changes nothing that another pending call was told.               *)
LEMMA ControllerAnswersKeeps ==
  ASSUME PageInv, NEW c \in calls, ControllerAnswers(c)
  PROVE  PageInv'
<1>1. PICK ok \in BOOLEAN, done \in BOOLEAN :
        /\ done => c.fn = "write"
        /\ version' = IF done THEN Bump(c.page) ELSE version
        /\ calls' = (calls \ {c}) \cup
             {[c EXCEPT !.answered = TRUE, !.ok = ok,
                        !.data = IF ok THEN version'[c.page] ELSE 0]}
  <2>1. c.fn \in {"load", "write"}
    BY CallEnds DEF CallType
  <2>2. QED
    BY <2>1 DEF ControllerAnswers
<1>2. UNCHANGED <<route, hidden, intervals, page, confirm, told, storage, preference, next,
                  chosen, acts, env>>
  BY DEF ControllerAnswers, mounted, theme
<1>3. c \in CallType /\ c.page \in Pages
  BY CallEnds DEF CallType
<1>4. version' \in [Pages -> Version] /\ (~done => version' = version)
  BY <1>1, <1>3, BumpFits DEF PageInv, TypeOK
<1> DEFINE data == IF ok THEN version'[c.page] ELSE 0
           new == [c EXCEPT !.answered = TRUE, !.ok = ok, !.data = data]
           cs == calls \ {c}
<1>5. data \in Version /\ (ok => data = version'[c.page])
  BY <1>3, <1>4, Bounds
<1>6. calls' = cs \cup {new}
  BY <1>1
<1> HIDE DEF data
<1>7. /\ new \in CallType /\ new.fn = c.fn /\ new.page = c.page /\ new.silent = c.silent
      /\ new.mine = c.mine /\ new.answered /\ new.ok = ok /\ new.data = data
  BY <1>3, <1>5 DEF CallType
<1>8. \A d : d \in cs <=> d \in calls /\ d # c
  OBVIOUS
<1>9. /\ cs \in SUBSET CallType /\ IsFiniteSet(cs)
      /\ Cardinality(cs) \in Nat /\ Cardinality(cs) < MaxCalls
  BY CallEnds
<1> HIDE DEF new, cs
<1>10. /\ IsFiniteSet(cs \cup {new})
       /\ Cardinality(cs \cup {new}) =
            IF new \in cs THEN Cardinality(cs) ELSE Cardinality(cs) + 1
  BY <1>9, FS_AddElement
<1>11. SlotsInv'
  BY <1>2, <1>6, <1>9, <1>10, Bounds DEF PageInv, SlotsInv
<1>12. TypeOK'
  BY <1>2, <1>4, <1>6, <1>7, <1>9 DEF PageInv, TypeOK
<1>13. ASSUME Quiet PROVE QuietInv'
  <2>1. QuietInv
    BY <1>13 DEF PageInv
  <2>2. \A d \in calls' : \/ d \in calls /\ d # c
                          \/ d = new
    BY <1>6, <1>8
  <2>3. /\ \A d \in calls' : ~d.silent => d.mine /\ d.page = route
        /\ \A d \in calls' : d.silent =>
             d.fn = "load" /\ d.page = "fleet" /\ (d.mine => route = "fleet")
    BY <1>7, <2>1, <2>2 DEF QuietInv
  <2>4. \A d, e \in calls' : d.fn = "write" /\ ~e.silent => d = e
    BY <1>7, <2>1, <2>2 DEF QuietInv
  <2>5. done => \A d \in calls : d # c => d.silent
    BY <1>1, <2>1 DEF QuietInv
  <2>6. \A d \in calls' : ~d.silent /\ d.answered /\ d.ok => d.data = version'[route]
    <3>1. ASSUME NEW d \in calls', ~d.silent, d.answered, d.ok
          PROVE  d.data = version'[route]
      <4>1. CASE d = new
        BY <1>5, <1>7, <2>3, <3>1, <4>1
      <4>2. CASE d \in calls /\ d # c
        BY <1>4, <2>1, <2>5, <3>1, <4>2 DEF QuietInv
      <4>3. QED
        BY <2>2, <4>1, <4>2
    <3>2. QED
      BY <3>1
  <2>7. ASSUME route # "fleet", ~Pending' PROVE page.shown = version'[route] \/ told
    <3>1. c.silent /\ new.silent
      BY <1>6, <1>7, <2>7 DEF Pending
    <3>2. version' = version
      BY <1>1, <1>4, <2>1, <3>1 DEF QuietInv
    <3>3. ~Pending
      BY <1>6, <1>8, <2>7, <3>1 DEF Pending
    <3>4. QED
      BY <2>1, <2>7, <3>2, <3>3 DEF QuietInv
  <2>8. confirm # NoQuestion => confirm.page = route /\ confirm.mine
    BY <2>1 DEF QuietInv
  <2>9. QED
    BY <1>2, <2>3, <2>4, <2>6, <2>7, <2>8 DEF QuietInv
<1>14. Quiet' => Quiet
  BY <1>2 DEF Quiet
<1>15. QED
  BY <1>11, <1>12, <1>13, <1>14 DEF PageInv

LEMMA OthersChangeKeeps == ASSUME PageInv, NEW p \in Pages, OthersChange(p) PROVE PageInv'
<1>1. /\ version' = Bump(p) /\ env.others
      /\ UNCHANGED <<route, hidden, intervals, page, confirm, calls, told, storage,
                     preference, next, chosen, acts, env>>
  BY DEF OthersChange, mounted, theme
<1>2. TypeOK' /\ SlotsInv'
  BY <1>1, BumpFits DEF PageInv, TypeOK, SlotsInv
<1>3. ~Quiet'
  BY <1>1 DEF Quiet
<1>4. QED
  BY <1>2, <1>3 DEF PageInv

LEMMA StepPage == PageInv /\ [Next]_vars => PageInv'
<1> SUFFICES ASSUME PageInv, [Next]_vars PROVE PageInv'
  OBVIOUS
<1>1. CASE \E p \in Pages : Navigate(p) \/ OthersChange(p)
  BY <1>1, NavigateKeeps, OthersChangeKeeps
<1>2. CASE handleNavigate \/ Show \/ IntervalFires
  BY <1>2, RefreshKeeps
<1>3. CASE \/ Hide \/ requestConfirmation \/ AppRendersAgain
           \/ (\E t \in Preferences : onThemePreferenceChange(t))
           \/ UNCHANGED vars
  BY <1>3, RestKeeps
<1>4. CASE Write \/ \E accepted \in BOOLEAN : closeConfirmation(accepted)
  BY <1>4, WriteKeeps, closeConfirmationKeeps
<1>5. CASE \E c \in calls : ControllerAnswers(c) \/ GoesOn(c)
  BY <1>5, ControllerAnswersKeeps, LoadAnsweredKeeps, WriteAnsweredKeeps DEF GoesOn
<1>6. CASE Reload
  BY <1>6, ReloadKeeps
<1>7. QED
  BY <1>1, <1>2, <1>3, <1>4, <1>5, <1>6 DEF Next

(* Every variable keeps its type: the pages, the confirmation and the      *)
(* calls of App's lifetime, and one interval at most.                      *)
THEOREM TypeCorrect == Spec => []TypeOK
<1>1. PageInv => TypeOK
  BY DEF PageInv
<1>2. QED
  BY <1>1, InitPage, StepPage, PTL DEF Spec

(* Without a background refresh the rules and the settings are loaded once *)
(* and after each change: for a user who waits, and while nobody else      *)
(* changes anything, that is enough, whatever fails and in whatever order  *)
(* the refreshes of a fleet that was left are answered.                    *)
THEOREM RestIsCurrent == Spec => []RestingPageIsCurrent
<1>1. PageInv => RestingPageIsCurrent
  BY DEF PageInv, Quiet, QuietInv, Pending, RestingPageIsCurrent
<1>2. QED
  BY <1>1, InitPage, StepPage, PTL DEF Spec
=============================================================================
