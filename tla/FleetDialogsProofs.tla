------------------------- MODULE FleetDialogsProofs -------------------------
(***************************************************************************)
(* Proofs about FleetDialogs, for every fleet, every number of calls in    *)
(* flight and of clicks: what the dialogs show, where actions and writes   *)
(* go and where closing leads, for a user who does not move on while a     *)
(* write is pending.                                                       *)
(***************************************************************************)
EXTENDS FleetDialogs, FiniteSetTheorems, SequenceTheorems, TLAPS

(* The entry that opening a dialog pushes on an entry.                     *)
Pushed(from, to) == from.ups = None /\ from.node \in {to.node, None}

(* An entry was pushed on the one before it, except the first of the page. *)
HistoryInv ==
    /\ Len(history) >= 2
    /\ \A p \in 2 .. Len(history) - 1 : Pushed(history[p], history[p + 1])
    /\ ~env.deepLink => history[2] = Plain

(* The slots suffice, and outside the application there is no page.        *)
CallsInv ==
    /\ IsFiniteSet(calls) /\ Cardinality(calls) <= MaxCalls
    /\ pos = 1 => /\ calls = {}
                  /\ nodeDialog = Closed /\ upsDialog = Closed
                  /\ editor = NoEditor /\ confirm = NoConfirm

(* What is loaded, asked, written and shown is of the right kind.          *)
OfKind(kind) == IF kind \in {"node", "patch", "forget"} THEN Nodes ELSE UPSes

KindsInv ==
    /\ \A c \in calls : c.id \in OfKind(c.fn)
    /\ nodeDialog.rec # None => nodeDialog.rec.id \in Nodes
    /\ upsDialog.rec # None => upsDialog.rec.id \in UPSes
    /\ confirm # NoConfirm => confirm.kind # "none" /\ confirm.id \in OfKind(confirm.kind)

Typed == TypeOK /\ HistoryInv /\ CallsInv /\ KindsInv

(* What a write, or a question about one, is about is what is open.        *)
AboutOpen(kind, id) ==
    /\ kind \in {"patch", "forget"} => id = Here.node
    /\ kind \in {"command", "reload", "metadata"} => id = Here.ups

(* A user who does not move on has one write or one question at a time,    *)
(* and an editor that is open belongs to the dialog below it.              *)
PatientInv ==
    /\ ShowsOpen(nodeDialog, Here.node) /\ ShowsOpen(upsDialog, Here.ups)
    /\ \A c \in calls : AboutOpen(c.fn, c.id)
    /\ \A c, d \in calls : c.fn \in Writes /\ d.fn \in Writes => c = d
    /\ confirm # NoConfirm =>
         /\ ~Writing /\ ~editor.open
         /\ AboutOpen(confirm.kind, confirm.id)
    /\ editor.open =>
         /\ editor.from = Here.ups
         /\ \A c \in calls : c.fn \in Writes => editor.saving /\ c.fn = "metadata"
    /\ misdirected = {}

Inv ==
    /\ Typed
    /\ ~env.wander => PatientInv
    /\ ClosingStaysOnPage

-----------------------------------------------------------------------------
(* Values.                                                                 *)
LEMMA Nulls ==
  /\ None \notin Nodes /\ None \notin UPSes /\ None \notin Things
  /\ Plain \in Entry /\ Plain.node = None /\ Plain.ups = None
  /\ Closed \in Dialog /\ Closed.rec = None
  /\ NoEditor.open = FALSE /\ NoConfirm.kind = "none"
  /\ NoEditor \in [open : BOOLEAN, from : UPSes \cup {None}, value : Value,
                   saving : BOOLEAN]
  /\ NoConfirm \in [kind : {"none", "patch", "forget", "command"},
                    id : Things \cup {None}, value : Value]
  /\ MaxCalls \in Nat /\ MaxCalls >= 2 /\ MaxActs \in Nat
  BY ConstantsAssumption
  DEF ConstantsAssumption, Things, Plain, Entry, Closed, Dialog, NoEditor, NoConfirm, Value

LEMMA HereTyped ==
  ASSUME TypeOK
  PROVE  /\ Here \in Entry /\ Here.node \in Nodes \cup {None}
         /\ Here.ups \in UPSes \cup {None}
         /\ pos \in Nat /\ pos >= 1 /\ pos <= Len(history) /\ Len(history) \in Nat
<1>1. /\ Len(history) \in Nat /\ DOMAIN history = 1 .. Len(history)
      /\ \A p \in 1 .. Len(history) : history[p] \in Entry
  BY LenProperties DEF TypeOK
<1>2. Here \in Entry /\ pos \in 1 .. Len(history)
  BY <1>1 DEF TypeOK, Here
<1>3. QED
  BY <1>1, <1>2 DEF Entry

-----------------------------------------------------------------------------
(* Sending: fewer calls than slots leave one free, and a call is one more. *)
LEMMA SlotIsFree ==
  ASSUME NEW cs, IsFiniteSet(cs), Cardinality(cs) < MaxCalls
  PROVE  FreeSlot(cs) \in 1 .. MaxCalls
<1> DEFINE taken == {c.slot : c \in cs}
           f == [c \in cs |-> c.slot]
<1>1. f \in Surjection(cs, taken)
  BY DEF Surjection
<1>2. IsFiniteSet(taken) /\ Cardinality(taken) <= Cardinality(cs)
  BY <1>1, FS_Surjection
<1>3. IsFiniteSet(1 .. MaxCalls) /\ Cardinality(1 .. MaxCalls) = MaxCalls
  BY Nulls, FS_Interval
<1>4. Cardinality(cs) \in Nat /\ Cardinality(taken) \in Nat
  BY <1>2, FS_CardinalityType
<1>5. ~(1 .. MaxCalls \subseteq taken)
  BY <1>2, <1>3, <1>4, FS_Subset, Nulls
<1>6. \E s \in 1 .. MaxCalls : \A c \in cs : c.slot # s
  BY <1>5
<1>7. QED
  BY <1>6, Zenon DEF FreeSlot

LEMMA SendAdds ==
  ASSUME NEW cs \in SUBSET CallType, IsFiniteSet(cs), Cardinality(cs) < MaxCalls,
         NEW fn \in Writes \cup {"node", "ups"}, NEW id \in Things,
         NEW value \in Value, NEW silent \in BOOLEAN
  PROVE  LET sent == Send(cs, fn, id, value, silent) IN
         /\ sent \subseteq CallType /\ IsFiniteSet(sent)
         /\ Cardinality(sent) <= Cardinality(cs) + 1
         /\ \A c \in sent : c \in cs \/ (c.fn = fn /\ c.id = id)
<1> DEFINE new == [slot |-> FreeSlot(cs), fn |-> fn, id |-> id, value |-> value,
                   silent |-> silent, answered |-> FALSE, ok |-> FALSE]
<1>1. new \in CallType /\ new.fn = fn /\ new.id = id
  BY SlotIsFree DEF CallType, Writes
<1> HIDE DEF new
<1>2. /\ IsFiniteSet(cs \cup {new})
      /\ Cardinality(cs \cup {new}) =
           IF new \in cs THEN Cardinality(cs) ELSE Cardinality(cs) + 1
  BY FS_AddElement
<1>3. Cardinality(cs) \in Nat
  BY FS_CardinalityType
<1>4. Send(cs, fn, id, value, silent) = cs \cup {new}
  BY DEF Send, new
<1>5. QED
  BY <1>1, <1>2, <1>3, <1>4

(* The loads an opening dialog begins with.                                *)
Opens(was, is) == IF is # None /\ is # was THEN 1 ELSE 0

LEMMA OpenedAdds ==
  ASSUME NEW cs \in SUBSET CallType, IsFiniteSet(cs),
         NEW fn \in {"node", "ups"}, NEW was, NEW is \in OfKind(fn) \cup {None},
         Cardinality(cs) + Opens(was, is) <= MaxCalls
  PROVE  LET opened == Opened(cs, fn, was, is) IN
         /\ opened \subseteq CallType /\ IsFiniteSet(opened)
         /\ Cardinality(opened) <= Cardinality(cs) + Opens(was, is)
         /\ Cardinality(opened) \in Nat
         /\ \A c \in opened : c \in cs \/ (c.fn = fn /\ c.id \in OfKind(fn))
<1>1. Cardinality(cs) \in Nat
  BY FS_CardinalityType
<1>2. CASE is # None /\ is # was
  <2>1. is \in OfKind(fn) /\ is \in Things /\ Opens(was, is) = 1
    BY <1>2 DEF OfKind, Things, Opens
  <2>2. Opened(cs, fn, was, is) = Send(cs, fn, is, 0, FALSE)
    BY <1>2 DEF Opened
  <2>3. Cardinality(cs) < MaxCalls
    BY <1>1, <2>1, Nulls
  <2> DEFINE sent == Send(cs, fn, is, 0, FALSE)
  <2>4. /\ sent \subseteq CallType /\ IsFiniteSet(sent)
        /\ Cardinality(sent) <= Cardinality(cs) + 1
        /\ \A c \in sent : c \in cs \/ (c.fn = fn /\ c.id = is)
    BY <2>1, <2>3, SendAdds DEF Value
  <2> HIDE DEF sent
  <2>5. Cardinality(sent) \in Nat
    BY <2>4, FS_CardinalityType
  <2>6. QED
    BY <2>1, <2>2, <2>4, <2>5 DEF sent
<1>3. CASE ~(is # None /\ is # was)
  <2>1. Opened(cs, fn, was, is) = cs /\ Opens(was, is) = 0
    BY <1>3 DEF Opened, Opens
  <2>2. QED
    BY <1>1, <2>1
<1>4. QED
  BY <1>2, <1>3

(* Both dialogs follow the entry the browser goes to.                      *)
LEMMA BothOpen ==
  ASSUME NEW cs \in SUBSET CallType, IsFiniteSet(cs), NEW was, NEW is \in Entry,
         Cardinality(cs) + Opens(was.node, is.node) + Opens(was.ups, is.ups) <= MaxCalls
  PROVE  LET opened == Opened(Opened(cs, "node", was.node, is.node),
                              "ups", was.ups, is.ups) IN
         /\ opened \subseteq CallType /\ IsFiniteSet(opened)
         /\ Cardinality(opened) <= MaxCalls
         /\ \A c \in opened : c \in cs \/ (c.fn \in {"node", "ups"} /\ c.id \in OfKind(c.fn))
<1> DEFINE first == Opened(cs, "node", was.node, is.node)
<1>1. /\ is.node \in OfKind("node") \cup {None} /\ is.ups \in OfKind("ups") \cup {None}
      /\ Opens(was.node, is.node) \in Nat /\ Opens(was.ups, is.ups) \in Nat
      /\ Cardinality(cs) \in Nat
  BY FS_CardinalityType DEF Entry, OfKind, Opens
<1>2. Cardinality(cs) + Opens(was.node, is.node) <= MaxCalls
  BY <1>1, Nulls
<1>3. /\ first \subseteq CallType /\ IsFiniteSet(first)
      /\ Cardinality(first) <= Cardinality(cs) + Opens(was.node, is.node)
      /\ Cardinality(first) \in Nat
      /\ \A c \in first : c \in cs \/ (c.fn = "node" /\ c.id \in OfKind("node"))
  BY <1>1, <1>2, OpenedAdds
<1> HIDE DEF first
<1>4. Cardinality(first) + Opens(was.ups, is.ups) <= MaxCalls
  BY <1>1, <1>3, Nulls
<1> DEFINE second == Opened(first, "ups", was.ups, is.ups)
<1>5. /\ second \subseteq CallType /\ IsFiniteSet(second)
      /\ Cardinality(second) <= Cardinality(first) + Opens(was.ups, is.ups)
      /\ Cardinality(second) \in Nat
      /\ \A c \in second : c \in first \/ (c.fn = "ups" /\ c.id \in OfKind("ups"))
  BY <1>1, <1>3, <1>4, OpenedAdds
<1> HIDE DEF second
<1>6. /\ Cardinality(second) <= MaxCalls
      /\ \A c \in second : c \in cs \/ (c.fn \in {"node", "ups"} /\ c.id \in OfKind(c.fn))
  BY <1>1, <1>3, <1>4, <1>5, Nulls
<1>7. QED
  BY <1>5, <1>6 DEF first, second

LEMMA SwitchedFits ==
  ASSUME NEW dialog \in Dialog, NEW was, NEW is
  PROVE  /\ Switched(dialog, was, is) \in Dialog
         /\ Switched(dialog, was, is).rec \in {dialog.rec, None}
         /\ ShowsOpen(dialog, was) => ShowsOpen(Switched(dialog, was, is), is)
  BY Nulls DEF Switched, ShowsOpen

LEMMA GoToFits ==
  ASSUME Typed, NEW h \in Seq(Entry), NEW p \in DOMAIN h, NEW cs \in SUBSET calls,
         NEW was, was = IF pos = 1 THEN Plain ELSE Here,
         p # 1 => Cardinality(cs) + Opens(was.node, h[p].node)
                    + Opens(was.ups, h[p].ups) <= MaxCalls,
         GoTo(h, p, cs)
  PROVE  /\ history' = h /\ pos' = p /\ Here' = h[p]
         /\ nodeDialog' \in Dialog /\ upsDialog' \in Dialog
         /\ editor' \in {editor, NoEditor} /\ confirm' \in {confirm, NoConfirm}
         /\ calls' \subseteq CallType /\ CallsInv' /\ KindsInv'
         /\ \A c \in calls' : c \in cs \/ c.fn \in {"node", "ups"}
         /\ ShowsOpen(nodeDialog, Here.node) => ShowsOpen(nodeDialog', h[p].node)
         /\ ShowsOpen(upsDialog, Here.ups) => ShowsOpen(upsDialog', h[p].ups)
<1> USE Nulls
<1>1. h[p] \in Entry
  BY LenProperties
<1>2. history' = h /\ pos' = p /\ Here' = h[p]
  BY DEF GoTo, Here
<1>3. CASE p = 1
  <2>1. /\ nodeDialog' = Closed /\ upsDialog' = Closed
        /\ editor' = NoEditor /\ confirm' = NoConfirm /\ calls' = {}
    BY <1>3 DEF GoTo
  <2>2. IsFiniteSet(calls') /\ Cardinality(calls') = 0
    BY <2>1, FS_EmptySet
  <2>3. CallsInv' /\ KindsInv'
    BY <2>1, <2>2 DEF CallsInv, KindsInv
  <2>4. QED
    BY <1>2, <2>1, <2>3 DEF ShowsOpen
<1>4. CASE p # 1
  <2> DEFINE is == h[p]
  <2>1. /\ nodeDialog' = Switched(nodeDialog, was.node, is.node)
        /\ upsDialog' = Switched(upsDialog, was.ups, is.ups)
        /\ calls' = Opened(Opened(cs, "node", was.node, is.node),
                            "ups", was.ups, is.ups)
        /\ UNCHANGED <<editor, confirm>>
    BY <1>4 DEF GoTo
  <2> HIDE DEF is
  <2>2. cs \subseteq CallType /\ IsFiniteSet(cs)
    BY FS_Subset DEF Typed, TypeOK, CallsInv
  <2>3. /\ calls' \subseteq CallType /\ IsFiniteSet(calls')
        /\ Cardinality(calls') <= MaxCalls
        /\ \A c \in calls' : c \in cs \/ (c.fn \in {"node", "ups"} /\ c.id \in OfKind(c.fn))
    BY <1>1, <1>4, <2>1, <2>2, BothOpen DEF is
  <2>4. /\ nodeDialog \in Dialog /\ upsDialog \in Dialog
        /\ pos = 1 => nodeDialog.rec = None /\ upsDialog.rec = None
    BY DEF Typed, TypeOK, CallsInv
  <2>5. /\ nodeDialog' \in Dialog /\ nodeDialog'.rec \in {nodeDialog.rec, None}
        /\ ShowsOpen(nodeDialog, was.node) => ShowsOpen(nodeDialog', is.node)
    BY <2>1, <2>4, SwitchedFits
  <2>6. /\ upsDialog' \in Dialog /\ upsDialog'.rec \in {upsDialog.rec, None}
        /\ ShowsOpen(upsDialog, was.ups) => ShowsOpen(upsDialog', is.ups)
    BY <2>1, <2>4, SwitchedFits
  <2>7. /\ ShowsOpen(nodeDialog, Here.node) => ShowsOpen(nodeDialog, was.node)
        /\ ShowsOpen(upsDialog, Here.ups) => ShowsOpen(upsDialog, was.ups)
    BY <2>4 DEF ShowsOpen
  <2>8. CallsInv'
    BY <1>2, <1>4, <2>3 DEF CallsInv
  <2>9. KindsInv'
    BY <2>1, <2>3, <2>5, <2>6 DEF Typed, KindsInv
  <2>10. QED
    BY <1>2, <2>1, <2>3, <2>5, <2>6, <2>7, <2>8, <2>9 DEF is
<1>5. QED
  BY <1>3, <1>4

-----------------------------------------------------------------------------
LEMMA InitInv == Init => Inv
<1> SUFFICES ASSUME Init PROVE Inv
  OBVIOUS
<1> USE Nulls
<1>1. PICK first \in IF env.deepLink THEN Entry ELSE {Plain} :
        /\ history = <<Plain, first>>
        /\ calls = Opened(Opened({}, "node", None, first.node), "ups", None, first.ups)
  BY DEF Init
<1>2. first \in Entry /\ (~env.deepLink => first = Plain)
  BY <1>1
<1>3. /\ history \in Seq(Entry) /\ Len(history) = 2 /\ DOMAIN history = 1 .. 2
      /\ history[2] = first /\ pos = 2
  BY <1>1, <1>2 DEF Init
<1>4. /\ calls \subseteq CallType /\ IsFiniteSet(calls)
      /\ Cardinality(calls) <= MaxCalls
      /\ \A c \in calls : c.fn \in {"node", "ups"} /\ c.id \in OfKind(c.fn)
  <2>1. {} \subseteq CallType /\ IsFiniteSet({}) /\ Cardinality({}) = 0
    BY FS_EmptySet
  <2>2. Opens(Plain.node, first.node) \in 0 .. 1 /\ Opens(Plain.ups, first.ups) \in 0 .. 1
    BY DEF Opens
  <2>3. Cardinality({}) + Opens(Plain.node, first.node) + Opens(Plain.ups, first.ups)
          <= MaxCalls
    BY <2>1, <2>2
  <2>4. calls = Opened(Opened({}, "node", Plain.node, first.node),
                       "ups", Plain.ups, first.ups)
    BY <1>1
  <2>5. QED
    BY <1>2, <2>1, <2>3, <2>4, BothOpen
<1>5. TypeOK
  <2>1. env \in EnvType /\ acts \in 0 .. MaxActs
    BY ConstantsAssumption DEF ConstantsAssumption, Init
  <2>2. stored \in [Things -> Value]
    BY DEF Init, Value
  <2>3. /\ known = Nodes /\ nodeDialog = Closed /\ upsDialog = Closed
        /\ editor = NoEditor /\ confirm = NoConfirm
        /\ misdirected = {} /\ leftByClose = FALSE
    BY DEF Init
  <2>4. pos \in DOMAIN history
    BY <1>3
  <2>5. QED
    BY <1>3, <1>4, <2>1, <2>2, <2>3, <2>4 DEF TypeOK
<1>6. HistoryInv
  BY <1>2, <1>3 DEF HistoryInv
<1>7. CallsInv /\ KindsInv
  BY <1>3, <1>4 DEF CallsInv, KindsInv, Init
<1>8. PatientInv
  <2>1. \A c \in calls : c.fn \notin Writes /\ AboutOpen(c.fn, c.id)
    BY <1>4 DEF AboutOpen, Writes
  <2>2. /\ nodeDialog = Closed /\ upsDialog = Closed /\ misdirected = {}
        /\ editor = NoEditor /\ confirm = NoConfirm
    BY DEF Init
  <2>3. QED
    BY <2>1, <2>2 DEF PatientInv, ShowsOpen
<1>9. QED
  BY <1>5, <1>6, <1>7, <1>8 DEF Inv, Typed, ClosingStaysOnPage, Init

-----------------------------------------------------------------------------
(* What a step that goes to another entry has to show.                     *)
LEMMA MoveKeeps ==
  ASSUME Inv, NEW h \in Seq(Entry), NEW p \in DOMAIN h, NEW cs \in SUBSET calls,
         NEW was, was = IF pos = 1 THEN Plain ELSE Here,
         p # 1 => Cardinality(cs) + Opens(was.node, h[p].node)
                    + Opens(was.ups, h[p].ups) <= MaxCalls,
         GoTo(h, p, cs),
         HistoryInv', acts' \in 0 .. MaxActs,
         UNCHANGED <<known, stored, misdirected, env>>,
         leftByClose' \in BOOLEAN, ClosingStaysOnPage',
         ~env.wander => /\ confirm = NoConfirm /\ ~editor.open
                        /\ \A c \in cs : c.fn \notin Writes
  PROVE  Inv'
<1> USE Nulls
<1>1. /\ history' = h /\ pos' = p /\ Here' = h[p]
      /\ nodeDialog' \in Dialog /\ upsDialog' \in Dialog
      /\ editor' \in {editor, NoEditor} /\ confirm' \in {confirm, NoConfirm}
      /\ calls' \subseteq CallType /\ CallsInv' /\ KindsInv'
      /\ \A c \in calls' : c \in cs \/ c.fn \in {"node", "ups"}
      /\ ShowsOpen(nodeDialog, Here.node) => ShowsOpen(nodeDialog', h[p].node)
      /\ ShowsOpen(upsDialog, Here.ups) => ShowsOpen(upsDialog', h[p].ups)
  BY GoToFits DEF Inv
<1>2. TypeOK'
  BY <1>1 DEF Inv, Typed, TypeOK
<1>3. Typed'
  BY <1>1, <1>2 DEF Typed
<1>4. ~env'.wander => PatientInv'
  <2>1. SUFFICES ASSUME ~env.wander PROVE PatientInv'
    OBVIOUS
  <2>2. \A c \in calls' : c.fn \notin Writes
    BY <1>1, <2>1 DEF Writes
  <2>3. \A c \in calls' : AboutOpen(c.fn, c.id)'
    BY <2>2 DEF AboutOpen, Writes
  <2>4. confirm' = NoConfirm /\ ~editor'.open
    BY <1>1, <2>1
  <2>5. /\ ShowsOpen(nodeDialog, Here.node)' /\ ShowsOpen(upsDialog, Here.ups)'
        /\ misdirected' = {}
    BY <1>1, <2>1 DEF Inv, PatientInv
  <2>6. QED
    BY <2>2, <2>3, <2>4, <2>5 DEF PatientInv
<1>5. QED
  BY <1>3, <1>4 DEF Inv

LEMMA ActsAreCounted ==
  ASSUME Inv, acts > 0, acts' = acts - 1
  PROVE  acts' \in 0 .. MaxActs
  BY Nulls DEF Inv, Typed, TypeOK

(* A click on the page: in patience nothing is asked, edited or written.   *)
LEMMA ClickedWhen ==
  ASSUME Inv, Acts, Uncovered
  PROVE  /\ acts' \in 0 .. MaxActs /\ pos > 1 /\ pos # 1
         /\ ~editor.open /\ confirm = NoConfirm
         /\ ~env.wander => \A c \in calls : c.fn \notin Writes
  BY ActsAreCounted, HereTyped DEF Inv, Typed, Acts, Uncovered, Writing

(* Opening a dialog.                                                       *)
LEMMA PushKeeps ==
  ASSUME Inv, Acts, Uncovered, Room(1), NEW entry \in Entry, Pushed(Here, entry),
         Opens(Here.node, entry.node) + Opens(Here.ups, entry.ups) <= 1,
         Push(entry),
         UNCHANGED <<server, misdirected, leftByClose, env>>
  PROVE  Inv'
<1> USE Nulls
<1> DEFINE h == Append(SubSeq(history, 1, pos), entry)
<1>1. /\ history \in Seq(Entry) /\ pos \in Nat /\ pos <= Len(history) /\ pos > 1
      /\ Len(history) \in Nat /\ \A q \in 1 .. Len(history) : history[q] \in Entry
  BY HereTyped, ClickedWhen, LenProperties DEF Inv, Typed, TypeOK
<1>2. /\ SubSeq(history, 1, pos) \in Seq(Entry) /\ Len(SubSeq(history, 1, pos)) = pos
      /\ \A q \in 1 .. pos : SubSeq(history, 1, pos)[q] = history[q]
  <2>1. \A q \in 1 .. pos : history[q] \in Entry
    BY <1>1
  <2>2. /\ SubSeq(history, 1, pos) \in Seq(Entry)
        /\ Len(SubSeq(history, 1, pos)) = IF 1 <= pos THEN pos - 1 + 1 ELSE 0
        /\ \A q \in 1 .. pos - 1 + 1 : SubSeq(history, 1, pos)[q] = history[1 + q - 1]
    BY <1>1, <2>1, SubSeqProperties
  <2>3. QED
    BY <1>1, <2>2
<1>3. /\ h \in Seq(Entry) /\ Len(h) = pos + 1 /\ pos + 1 \in DOMAIN h
      /\ h[pos + 1] = entry
      /\ \A q \in 1 .. pos : h[q] = history[q]
  <2>1. \A s \in Seq(Entry) : /\ Append(s, entry) \in Seq(Entry)
                              /\ Len(Append(s, entry)) = Len(s) + 1
                              /\ Append(s, entry)[Len(s) + 1] = entry
                              /\ \A q \in 1 .. Len(s) : Append(s, entry)[q] = s[q]
    OBVIOUS
  <2>2. QED
    BY <1>1, <1>2, <2>1, LenProperties
<1> DEFINE p == pos + 1
<1>4. GoTo(h, p, calls)
  BY DEF Push
<1> HIDE DEF h, p
<1>5. history' = h /\ pos' = pos + 1
  BY <1>4 DEF GoTo, p
<1>6. HistoryInv'
  <2>1. HistoryInv /\ env' = env
    BY DEF Inv, Typed
  <2>2. h[2] = history[2]
    BY <1>1, <1>3
  <2>3. \A q \in 2 .. pos : Pushed(h[q], h[q + 1])
    <3>1. SUFFICES ASSUME NEW q \in 2 .. pos PROVE Pushed(h[q], h[q + 1])
      OBVIOUS
    <3>2. CASE q = pos
      BY <1>1, <1>3, <3>2 DEF Here
    <3>3. CASE q # pos
      <4>1. q \in 2 .. Len(history) - 1 /\ q \in 1 .. pos /\ q + 1 \in 1 .. pos
        BY <1>1, <3>3
      <4>2. QED
        BY <1>3, <2>1, <4>1 DEF HistoryInv
    <3>4. QED
      BY <3>2, <3>3
  <2>4. QED
    BY <1>1, <1>3, <1>5, <2>1, <2>2, <2>3 DEF HistoryInv
<1>7. Cardinality(calls) + Opens(Here.node, h[p].node) + Opens(Here.ups, h[p].ups)
        <= MaxCalls
  <2>1. Cardinality(calls) \in Nat /\ Cardinality(calls) + 1 <= MaxCalls
    BY FS_CardinalityType DEF Inv, Typed, CallsInv, Room
  <2>2. Opens(Here.node, entry.node) \in Nat /\ Opens(Here.ups, entry.ups) \in Nat
    BY DEF Opens
  <2>3. QED
    BY <1>3, <2>1, <2>2 DEF p
<1>8. ClosingStaysOnPage' /\ leftByClose' \in BOOLEAN
  BY DEF Inv, Typed, TypeOK, ClosingStaysOnPage
<1>9. Here = IF pos = 1 THEN Plain ELSE Here
  BY <1>1
<1>10. p \in DOMAIN h
  BY <1>3 DEF p
<1>11. QED
  BY <1>3, <1>4, <1>6, <1>7, <1>8, <1>9, <1>10, ClickedWhen, MoveKeeps DEF server

LEMMA openDetailKeeps ==
  ASSUME Inv, NEW n \in Nodes, openDetail(n)
  PROVE  Inv'
<1> USE Nulls
<1> DEFINE entry == [node |-> n, ups |-> None]
<1>1. entry \in Entry /\ entry.node = n /\ entry.ups = None
  BY DEF Entry
<1>2. /\ Acts /\ Uncovered /\ Room(1) /\ Here = Plain /\ Push(entry)
      /\ UNCHANGED <<server, misdirected, leftByClose, env>>
  BY DEF openDetail, AtGrid
<1> HIDE DEF entry
<1>3. Pushed(Here, entry) /\ Opens(Here.node, entry.node) + Opens(Here.ups, entry.ups) <= 1
  BY <1>1, <1>2 DEF Pushed, Opens
<1>4. QED
  BY <1>1, <1>2, <1>3, PushKeeps

LEMMA openUPSKeeps ==
  ASSUME Inv, NEW u \in UPSes, openUPS(u)
  PROVE  Inv'
<1> USE Nulls
<1> DEFINE entry == [Here EXCEPT !.ups = u]
<1>1. Here \in Entry
  BY HereTyped DEF Inv, Typed
<1>2. entry \in Entry /\ entry.node = Here.node /\ entry.ups = u
  BY <1>1 DEF Entry
<1>3. /\ Acts /\ Uncovered /\ Room(1) /\ Here.ups = None /\ Push(entry)
      /\ UNCHANGED <<server, misdirected, leftByClose, env>>
  BY DEF openUPS, AtGrid, AtNode
<1> HIDE DEF entry
<1>4. Pushed(Here, entry) /\ Opens(Here.node, entry.node) + Opens(Here.ups, entry.ups) <= 1
  BY <1>2, <1>3 DEF Pushed, Opens
<1>5. QED
  BY <1>2, <1>3, <1>4, PushKeeps

(* Closing goes back to the entry below, which opens nothing, and leaves   *)
(* the application only from the first entry of the page.                  *)
LEMMA CloseKeeps ==
  ASSUME Inv, pos # 1, NEW cs \in SUBSET calls, Close(cs),
         acts' \in 0 .. MaxActs, UNCHANGED <<server, misdirected, env>>,
         ~env.wander => /\ confirm = NoConfirm /\ ~editor.open /\ Here # Plain
                        /\ \A c \in cs : c.fn \notin Writes
  PROVE  Inv'
<1> USE Nulls
<1> DEFINE p == pos - 1
<1>1. /\ GoTo(history, p, cs) /\ leftByClose' = (leftByClose \/ pos = 2)
  BY DEF Close
<1>2. /\ history \in Seq(Entry) /\ pos \in Nat /\ pos > 1 /\ p \in DOMAIN history
      /\ pos <= Len(history) /\ p \in Nat
  BY HereTyped, LenProperties DEF Inv, Typed, TypeOK
<1>3. p # 1 => Opens(Here.node, history[p].node) = 0 /\ Opens(Here.ups, history[p].ups) = 0
  <2>1. SUFFICES ASSUME p # 1
                 PROVE  Opens(Here.node, history[p].node) = 0
                        /\ Opens(Here.ups, history[p].ups) = 0
    OBVIOUS
  <2>2. p \in 2 .. Len(history) - 1 /\ p + 1 = pos
    BY <1>2, <2>1, HereTyped DEF Inv, Typed
  <2>3. Pushed(history[p], Here)
    BY <2>2 DEF Inv, Typed, HistoryInv, Here
  <2>4. QED
    BY <2>3 DEF Pushed, Opens
<1>4. Cardinality(cs) \in Nat /\ Cardinality(cs) <= MaxCalls
  <2>1. /\ IsFiniteSet(cs) /\ Cardinality(cs) <= Cardinality(calls)
        /\ Cardinality(calls) \in Nat /\ Cardinality(calls) <= MaxCalls
    BY FS_Subset, FS_CardinalityType DEF Inv, Typed, CallsInv
  <2>2. QED
    BY <2>1, FS_CardinalityType
<1> HIDE DEF p
<1>5. history' = history /\ HistoryInv'
  BY <1>1 DEF GoTo, Inv, Typed, HistoryInv
<1>6. ClosingStaysOnPage' /\ leftByClose' \in BOOLEAN
  <2>1. pos = 2 => env.deepLink \/ env.wander
    BY DEF Inv, Typed, HistoryInv, Here
  <2>2. QED
    BY <1>1, <2>1 DEF Inv, Typed, TypeOK, ClosingStaysOnPage
<1>7. p # 1 => Cardinality(cs) + Opens(Here.node, history[p].node)
                 + Opens(Here.ups, history[p].ups) <= MaxCalls
  BY <1>3, <1>4
<1>8. Here = IF pos = 1 THEN Plain ELSE Here
  OBVIOUS
<1>9. QED
  BY <1>1, <1>2, <1>5, <1>6, <1>7, <1>8, MoveKeeps DEF server

LEMMA closeDialogKeeps ==
  ASSUME Inv, closeDialog
  PROVE  Inv'
<1>1. /\ Acts /\ Uncovered /\ Close(calls) /\ Here # Plain
      /\ UNCHANGED <<server, misdirected, env>>
  BY Nulls DEF closeDialog, AtNode, AtUPS
<1>2. QED
  BY <1>1, ClickedWhen, CloseKeeps

LEMMA BackOrForwardKeeps ==
  ASSUME Inv, NEW p \in DOMAIN history, BackOrForward(p)
  PROVE  Inv'
<1> USE Nulls
<1>1. /\ GoTo(history, p, calls) /\ acts' \in 0 .. MaxActs
      /\ UNCHANGED <<server, misdirected, leftByClose, env>>
      /\ ~env.wander => Uncovered /\ ~Writing
  BY ActsAreCounted DEF BackOrForward
<1>2. Cardinality(calls) \in Nat /\ Cardinality(calls) + 2 <= MaxCalls
  BY FS_CardinalityType DEF Inv, Typed, CallsInv, BackOrForward, Room
<1> DEFINE was == IF pos = 1 THEN Plain ELSE Here
<1>3. \A x, y : Opens(x, y) \in 0 .. 1
  BY DEF Opens
<1>4. Cardinality(calls) + Opens(was.node, history[p].node)
        + Opens(was.ups, history[p].ups) <= MaxCalls
  <2>1. Opens(was.node, history[p].node) \in 0 .. 1 /\ Opens(was.ups, history[p].ups) \in 0 .. 1
    BY <1>3
  <2>2. QED
    BY <1>2, <2>1
<1>5. history \in Seq(Entry) /\ HistoryInv'
  BY <1>1 DEF GoTo, Inv, Typed, TypeOK, HistoryInv
<1>6. ClosingStaysOnPage' /\ leftByClose' \in BOOLEAN
  BY <1>1 DEF Inv, Typed, TypeOK, ClosingStaysOnPage
<1>7. ~env.wander => /\ confirm = NoConfirm /\ ~editor.open
                     /\ \A c \in calls : c.fn \notin Writes
  BY <1>1 DEF Uncovered, Writing
<1> HIDE DEF was
<1>8. QED
  BY <1>1, <1>4, <1>5, <1>6, <1>7, MoveKeeps DEF server, was

-----------------------------------------------------------------------------
(* What a step that stays on its entry has to show.                        *)
LEMMA StayKeeps ==
  ASSUME Inv, pos # 1, UNCHANGED <<history, pos, leftByClose, env>>, TypeOK',
         IsFiniteSet(calls'), Cardinality(calls') <= MaxCalls, KindsInv',
         ~env.wander => PatientInv'
  PROVE  Inv'
<1>1. HistoryInv' /\ CallsInv'
  BY DEF Inv, Typed, HistoryInv, CallsInv
<1>2. QED
  BY <1>1 DEF Inv, Typed, ClosingStaysOnPage

LEMMA SentTo ==
  ASSUME Inv, NEW cs \in SUBSET calls, Cardinality(cs) < MaxCalls,
         NEW fn \in Writes \cup {"node", "ups"}, NEW id \in OfKind(fn),
         NEW value \in Value, NEW silent \in BOOLEAN,
         calls' = Send(cs, fn, id, value, silent)
  PROVE  /\ calls' \subseteq CallType
         /\ IsFiniteSet(calls') /\ Cardinality(calls') <= MaxCalls
         /\ \A c \in calls' : c.id \in OfKind(c.fn)
         /\ \E new : calls' = cs \cup {new} /\ new.fn = fn /\ new.id = id
<1>1. /\ cs \in SUBSET CallType /\ IsFiniteSet(cs) /\ Cardinality(cs) \in Nat
  BY FS_Subset, FS_CardinalityType DEF Inv, Typed, TypeOK, CallsInv
<1>2. id \in Things
  BY DEF OfKind, Things
<1>3. /\ calls' \subseteq CallType /\ IsFiniteSet(calls')
      /\ Cardinality(calls') <= Cardinality(cs) + 1
      /\ \A c \in calls' : c \in cs \/ (c.fn = fn /\ c.id = id)
  BY <1>1, <1>2, SendAdds
<1>4. Cardinality(calls') \in Nat
  BY <1>3, FS_CardinalityType
<1>5. \A c \in calls' : c.id \in OfKind(c.fn)
  BY <1>3 DEF Inv, Typed, KindsInv
<1>6. \E new : calls' = cs \cup {new} /\ new.fn = fn /\ new.id = id
  <2> DEFINE new == [slot |-> FreeSlot(cs), fn |-> fn, id |-> id, value |-> value,
                     silent |-> silent, answered |-> FALSE, ok |-> FALSE]
  <2>1. calls' = cs \cup {new} /\ new.fn = fn /\ new.id = id
    BY DEF Send
  <2> HIDE DEF new
  <2>2. QED
    BY <2>1
<1>7. QED
  BY <1>1, <1>3, <1>4, <1>5, <1>6, Nulls

LEMMA SentFits ==
  ASSUME Inv, Room(1), NEW fn \in Writes \cup {"node", "ups"}, NEW id \in OfKind(fn),
         NEW value \in Value, NEW silent \in BOOLEAN,
         calls' = Send(calls, fn, id, value, silent)
  PROVE  /\ calls' \subseteq CallType
         /\ IsFiniteSet(calls') /\ Cardinality(calls') <= MaxCalls
         /\ \A c \in calls' : c.id \in OfKind(c.fn)
         /\ \E new : calls' = calls \cup {new} /\ new.fn = fn /\ new.id = id
<1>1. Cardinality(calls) \in Nat /\ Cardinality(calls) < MaxCalls
  BY FS_CardinalityType, Nulls DEF Inv, Typed, TypeOK, CallsInv, Room
<1>2. QED
  BY <1>1, SentTo

(* The first write of a user who waits.                                    *)
LEMMA PatientSends ==
  ASSUME PatientInv, UNCHANGED <<history, pos, nodeDialog, upsDialog, misdirected>>,
         NEW cs \in SUBSET calls, \A c \in cs : c.fn \notin Writes,
         NEW new, calls' = cs \cup {new}, AboutOpen(new.fn, new.id),
         confirm' = NoConfirm,
         editor'.open => editor'.from = Here.ups /\ editor'.saving /\ new.fn = "metadata"
  PROVE  PatientInv'
<1>1. Here' = Here
  BY DEF Here
<1>2. \A c \in calls' : c \in cs \/ c = new
  OBVIOUS
<1>3. /\ \A c \in calls' : AboutOpen(c.fn, c.id)'
      /\ \A c, d \in calls' : c.fn \in Writes /\ d.fn \in Writes => c = d
  BY <1>1, <1>2 DEF PatientInv, AboutOpen
<1>4. editor'.open =>
        /\ editor'.from = Here'.ups
        /\ \A c \in calls' : c.fn \in Writes => editor'.saving /\ c.fn = "metadata"
  BY <1>1, <1>2
<1>5. QED
  BY <1>1, <1>3, <1>4 DEF PatientInv, ShowsOpen

(* A question of a user who waits.                                         *)
LEMMA PatientAsks ==
  ASSUME PatientInv, UNCHANGED <<history, pos, nodeDialog, upsDialog, editor, calls,
                                 misdirected>>,
         \A c \in calls : c.fn \notin Writes, ~editor.open,
         AboutOpen(confirm'.kind, confirm'.id)
  PROVE  PatientInv'
<1>1. Here' = Here
  BY DEF Here
<1>2. QED
  BY <1>1 DEF PatientInv, AboutOpen, Writing, ShowsOpen

LEMMA handleEditKeeps ==
  ASSUME Inv, NEW v \in Value, handleEdit(v)
  PROVE  Inv'
<1> USE Nulls
<1> DEFINE id == nodeDialog.rec.id
           silent == FALSE
<1>1. /\ Acts /\ Uncovered /\ Room(1) /\ nodeDialog.rec # None
      /\ calls' = Send(calls, "patch", id, v, silent)
      /\ UNCHANGED <<known, stored, history, pos, nodeDialog, upsDialog, editor, confirm,
                     misdirected, leftByClose, env>>
  BY DEF handleEdit, AtNode, server, browser, dialogs
<1>2. id \in OfKind("patch") /\ "patch" \in Writes \cup {"node", "ups"}
      /\ silent \in BOOLEAN
  BY <1>1 DEF Inv, Typed, KindsInv, OfKind, Writes
<1> HIDE DEF id, silent
<1>3. /\ calls' \subseteq CallType
      /\ IsFiniteSet(calls') /\ Cardinality(calls') <= MaxCalls
      /\ \A c \in calls' : c.id \in OfKind(c.fn)
      /\ \E new : /\ calls' = calls \cup {new} /\ new.fn = "patch" /\ new.id = id
  BY <1>1, <1>2, SentFits
<1>4. TypeOK'
  BY <1>1, <1>3, ClickedWhen DEF Inv, Typed, TypeOK
<1>5. KindsInv'
  BY <1>1, <1>3 DEF Inv, Typed, KindsInv
<1>6. ~env.wander => PatientInv'
  <2>1. SUFFICES ASSUME ~env.wander PROVE PatientInv'
    OBVIOUS
  <2>2. PatientInv
    BY <2>1 DEF Inv
  <2>3. PICK new : calls' = calls \cup {new} /\ new.fn = "patch" /\ new.id = id
    BY <1>3
  <2>4. AboutOpen(new.fn, new.id)
    BY <1>1, <2>2, <2>3 DEF PatientInv, ShowsOpen, AboutOpen, id
  <2>5. QED
    BY <1>1, <2>1, <2>2, <2>3, <2>4, ClickedWhen, PatientSends
<1>7. QED
  BY <1>1, <1>3, <1>4, <1>5, <1>6, ClickedWhen, StayKeeps

LEMMA AskNodeKeeps ==
  ASSUME Inv, handleToggleLocalUIPolicy \/ handleForget
  PROVE  Inv'
<1> USE Nulls
<1>1. /\ Acts /\ Uncovered /\ nodeDialog.rec # None
      /\ UNCHANGED <<known, stored, history, pos, nodeDialog, upsDialog, editor, calls,
                     misdirected, leftByClose, env>>
  BY DEF handleToggleLocalUIPolicy, handleForget, AtNode, server, browser, dialogs
<1>2. /\ nodeDialog.rec \in Record /\ nodeDialog.rec.id \in Nodes
  BY <1>1 DEF Inv, Typed, TypeOK, KindsInv, Dialog
<1>3. /\ confirm' \in [kind : {"none", "patch", "forget", "command"},
                        id : Things \cup {None}, value : Value]
      /\ confirm'.kind \in {"patch", "forget"} /\ confirm'.id = nodeDialog.rec.id
  BY <1>2 DEF handleToggleLocalUIPolicy, handleForget, requestConfirmation, Record, Value,
              Other, Things
<1>4. TypeOK'
  BY <1>1, <1>3, ClickedWhen DEF Inv, Typed, TypeOK
<1>5. KindsInv'
  BY <1>1, <1>2, <1>3 DEF Inv, Typed, KindsInv, OfKind
<1>6. ~env.wander => PatientInv'
  <2>1. SUFFICES ASSUME ~env.wander PROVE PatientInv'
    OBVIOUS
  <2>2. PatientInv
    BY <2>1 DEF Inv
  <2>3. AboutOpen(confirm'.kind, confirm'.id)
    BY <1>1, <1>3, <2>2 DEF PatientInv, ShowsOpen, AboutOpen
  <2>4. QED
    BY <1>1, <2>1, <2>2, <2>3, ClickedWhen, PatientAsks
<1>7. IsFiniteSet(calls') /\ Cardinality(calls') <= MaxCalls
  BY <1>1 DEF Inv, Typed, CallsInv
<1>8. QED
  BY <1>1, <1>4, <1>5, <1>6, <1>7, ClickedWhen, StayKeeps

LEMMA handleCommandKeeps ==
  ASSUME Inv, NEW destructive \in BOOLEAN, handleCommand(destructive)
  PROVE  Inv'
<1> USE Nulls
<1> DEFINE silent == FALSE
<1>1. /\ Acts /\ Uncovered /\ Room(1) /\ upsDialog.rec # None /\ Here.ups # None
      /\ Sends("command", upsDialog.rec.id)
      /\ UNCHANGED <<known, stored, history, pos, nodeDialog, upsDialog, editor,
                     leftByClose, env>>
  BY DEF handleCommand, AtUPS, server, browser, dialogs
<1>2. /\ destructive => /\ confirm' = [kind |-> "command", id |-> Here.ups, value |-> 0]
                        /\ calls' = calls
      /\ ~destructive => /\ calls' = Send(calls, "command", Here.ups, 0, silent)
                         /\ confirm' = confirm
  BY DEF handleCommand, requestConfirmation
<1>3. /\ Here.ups \in OfKind("command") /\ Here.ups \in Things
      /\ "command" \in Writes \cup {"node", "ups"} /\ silent \in BOOLEAN /\ 0 \in Value
  BY <1>1, HereTyped DEF Inv, Typed, OfKind, Writes, Things, Value
<1>4. /\ misdirected' \in {misdirected, misdirected \cup {"command"}}
      /\ upsDialog.rec.id = Here.ups => misdirected' = misdirected
  BY <1>1 DEF Sends
<1>5. ~env.wander => PatientInv /\ upsDialog.rec.id = Here.ups /\ misdirected' = misdirected
  BY <1>1, <1>4 DEF Inv, PatientInv, ShowsOpen
<1> HIDE DEF silent
<1>6. CASE destructive
  <2>1. /\ confirm' \in [kind : {"none", "patch", "forget", "command"},
                          id : Things \cup {None}, value : Value]
        /\ confirm'.kind = "command" /\ confirm'.id = Here.ups
    BY <1>2, <1>3, <1>6
  <2>2. TypeOK'
    BY <1>1, <1>2, <1>4, <1>6, <2>1, ClickedWhen DEF Inv, Typed, TypeOK
  <2>3. KindsInv'
    BY <1>1, <1>2, <1>3, <1>6, <2>1 DEF Inv, Typed, KindsInv
  <2>4. ~env.wander => PatientInv'
    <3>1. SUFFICES ASSUME ~env.wander PROVE PatientInv'
      OBVIOUS
    <3>2. AboutOpen(confirm'.kind, confirm'.id)
      BY <2>1 DEF AboutOpen
    <3>3. QED
      BY <1>1, <1>2, <1>5, <1>6, <3>1, <3>2, ClickedWhen, PatientAsks
  <2>5. IsFiniteSet(calls') /\ Cardinality(calls') <= MaxCalls
    BY <1>2, <1>6 DEF Inv, Typed, CallsInv
  <2>6. QED
    BY <1>1, <2>2, <2>3, <2>4, <2>5, ClickedWhen, StayKeeps
<1>7. CASE ~destructive
  <2>1. /\ calls' \subseteq CallType
        /\ IsFiniteSet(calls') /\ Cardinality(calls') <= MaxCalls
        /\ \A c \in calls' : c.id \in OfKind(c.fn)
        /\ \E new : /\ calls' = calls \cup {new} /\ new.fn = "command"
                    /\ new.id = Here.ups
    BY <1>1, <1>2, <1>3, <1>7, SentFits
  <2>2. TypeOK'
    BY <1>1, <1>2, <1>4, <1>7, <2>1, ClickedWhen DEF Inv, Typed, TypeOK
  <2>3. KindsInv'
    BY <1>1, <1>2, <1>7, <2>1 DEF Inv, Typed, KindsInv
  <2>4. ~env.wander => PatientInv'
    <3>1. SUFFICES ASSUME ~env.wander PROVE PatientInv'
      OBVIOUS
    <3>2. PICK new : calls' = calls \cup {new} /\ new.fn = "command" /\ new.id = Here.ups
      BY <2>1
    <3>3. AboutOpen(new.fn, new.id)
      BY <3>2 DEF AboutOpen
    <3>4. QED
      BY <1>1, <1>2, <1>5, <1>7, <3>1, <3>2, <3>3, ClickedWhen, PatientSends
  <2>5. QED
    BY <1>1, <2>1, <2>2, <2>3, <2>4, ClickedWhen, StayKeeps
<1>8. QED
  BY <1>6, <1>7

(* While there is a question or an editor, the page is there.              *)
LEMMA PageIsThere ==
  ASSUME Inv, confirm # NoConfirm \/ editor.open \/ calls # {}
  PROVE  pos # 1
  BY Nulls DEF Inv, Typed, CallsInv

LEMMA closeConfirmationKeeps ==
  ASSUME Inv, NEW accepted \in BOOLEAN, closeConfirmation(accepted)
  PROVE  Inv'
<1> USE Nulls
<1> DEFINE silent == FALSE
           fn == confirm.kind
           id == confirm.id
<1>1. /\ Room(1) /\ confirm # NoConfirm /\ confirm' = NoConfirm /\ pos # 1
      /\ acts' \in 0 .. MaxActs
      /\ UNCHANGED <<known, stored, history, pos, nodeDialog, upsDialog, editor,
                     misdirected, leftByClose, env>>
  BY ActsAreCounted, PageIsThere DEF closeConfirmation, server, browser, dialogs
<1>2. /\ accepted => calls' = Send(calls, fn, id, confirm.value, silent)
      /\ ~accepted => calls' = calls
  BY DEF closeConfirmation
<1>3. /\ fn \in Writes \cup {"node", "ups"} /\ id \in OfKind(fn)
      /\ silent \in BOOLEAN /\ confirm.value \in Value
      /\ fn \in {"patch", "forget", "command"}
  BY <1>1 DEF Inv, Typed, TypeOK, KindsInv, Writes
<1>4. ~env.wander => /\ PatientInv /\ AboutOpen(fn, id) /\ ~editor.open
                     /\ \A c \in calls : c.fn \notin Writes
  BY <1>1 DEF Inv, PatientInv, Writing
<1> HIDE DEF silent, fn, id
<1>5. CASE accepted
  <2>1. /\ calls' \subseteq CallType
        /\ IsFiniteSet(calls') /\ Cardinality(calls') <= MaxCalls
        /\ \A c \in calls' : c.id \in OfKind(c.fn)
        /\ \E new : /\ calls' = calls \cup {new} /\ new.fn = fn /\ new.id = id
    BY <1>1, <1>2, <1>3, <1>5, SentFits
  <2>2. TypeOK'
    BY <1>1, <2>1 DEF Inv, Typed, TypeOK
  <2>3. KindsInv'
    BY <1>1, <2>1 DEF Inv, Typed, KindsInv
  <2>4. ~env.wander => PatientInv'
    <3>1. SUFFICES ASSUME ~env.wander PROVE PatientInv'
      OBVIOUS
    <3>2. PICK new : calls' = calls \cup {new} /\ new.fn = fn /\ new.id = id
      BY <2>1
    <3>3. QED
      BY <1>1, <1>4, <3>1, <3>2, PatientSends
  <2>5. QED
    BY <1>1, <2>1, <2>2, <2>3, <2>4, StayKeeps
<1>6. CASE ~accepted
  <2>1. TypeOK' /\ KindsInv'
    BY <1>1, <1>2, <1>6 DEF Inv, Typed, TypeOK, KindsInv
  <2>2. IsFiniteSet(calls') /\ Cardinality(calls') <= MaxCalls
    BY <1>2, <1>6 DEF Inv, Typed, CallsInv
  <2>3. ~env.wander => PatientInv'
    BY <1>1, <1>2, <1>6 DEF Inv, PatientInv, Here, ShowsOpen, AboutOpen
  <2>4. QED
    BY <1>1, <2>1, <2>2, <2>3, StayKeeps
<1>7. QED
  BY <1>5, <1>6

-----------------------------------------------------------------------------
LEMMA openMetadataEditorKeeps ==
  ASSUME Inv, openMetadataEditor
  PROVE  Inv'
<1> USE Nulls
<1>1. /\ Acts /\ Uncovered /\ upsDialog.rec # None
      /\ UNCHANGED <<known, stored, history, pos, nodeDialog, upsDialog, confirm, calls,
                     misdirected, leftByClose, env>>
  BY DEF openMetadataEditor, AtUPS, server, browser, dialogs
<1>2. upsDialog.rec \in Record /\ upsDialog.rec.id \in UPSes
  BY <1>1 DEF Inv, Typed, TypeOK, KindsInv, Dialog
<1>3. /\ editor' \in [open : BOOLEAN, from : UPSes \cup {None}, value : Value,
                       saving : BOOLEAN]
      /\ editor'.from = upsDialog.rec.id
  <2>1. Other(upsDialog.rec.value) \in Value
    BY <1>2 DEF Record, Value, Other
  <2>2. editor' = [open |-> TRUE, from |-> upsDialog.rec.id,
                   value |-> Other(upsDialog.rec.value), saving |-> FALSE]
    BY DEF openMetadataEditor, NoEditor
  <2>3. QED
    BY <1>2, <2>1, <2>2
<1>4. TypeOK' /\ KindsInv'
  BY <1>1, <1>3, ClickedWhen DEF Inv, Typed, TypeOK, KindsInv
<1>5. IsFiniteSet(calls') /\ Cardinality(calls') <= MaxCalls
  BY <1>1 DEF Inv, Typed, CallsInv
<1>6. ~env.wander => PatientInv'
  <2>1. SUFFICES ASSUME ~env.wander PROVE PatientInv'
    OBVIOUS
  <2>2. /\ PatientInv /\ confirm = NoConfirm /\ upsDialog.rec.id = Here.ups
        /\ \A c \in calls : c.fn \notin Writes
    BY <1>1, <2>1, ClickedWhen DEF Inv, PatientInv, ShowsOpen
  <2>3. QED
    BY <1>1, <1>3, <2>2 DEF PatientInv, Here, ShowsOpen, AboutOpen
<1>7. QED
  BY <1>1, <1>4, <1>5, <1>6, ClickedWhen, StayKeeps

LEMMA CancelEditorKeeps ==
  ASSUME Inv, CancelEditor
  PROVE  Inv'
<1> USE Nulls
<1>1. /\ pos # 1 /\ acts' \in 0 .. MaxActs /\ editor' = NoEditor
      /\ editor.open /\ ~editor.saving
      /\ UNCHANGED <<known, stored, history, pos, nodeDialog, upsDialog, confirm, calls,
                     misdirected, leftByClose, env>>
  BY ActsAreCounted, PageIsThere DEF CancelEditor, server, browser, dialogs
<1>2. TypeOK' /\ KindsInv'
  BY <1>1 DEF Inv, Typed, TypeOK, KindsInv
<1>3. IsFiniteSet(calls') /\ Cardinality(calls') <= MaxCalls
  BY <1>1 DEF Inv, Typed, CallsInv
<1>4. ~env.wander => PatientInv'
  <2>1. Here' = Here /\ (Writing' <=> Writing)
    BY <1>1 DEF Here, Writing
  <2>2. SUFFICES ASSUME ~env.wander PROVE PatientInv'
    OBVIOUS
  <2>3. /\ PatientInv /\ confirm = NoConfirm /\ ~editor'.open
        /\ \A c \in calls : AboutOpen(c.fn, c.id)' = AboutOpen(c.fn, c.id)
    BY <1>1, <2>1, <2>2 DEF Inv, PatientInv, AboutOpen
  <2>4. QED
    BY <1>1, <2>1, <2>3 DEF PatientInv, ShowsOpen
<1>5. QED
  BY <1>1, <1>2, <1>3, <1>4, StayKeeps

LEMMA handleMetadataSaveKeeps ==
  ASSUME Inv, handleMetadataSave
  PROVE  Inv'
<1> USE Nulls
<1> DEFINE silent == FALSE
           id == Here.ups
<1>1. /\ pos # 1 /\ acts' \in 0 .. MaxActs /\ Room(1)
      /\ editor.open /\ ~editor.saving /\ confirm = NoConfirm /\ id # None
      /\ editor' = [editor EXCEPT !.saving = TRUE]
      /\ calls' = Send(calls, "metadata", id, editor.value, silent)
      /\ UNCHANGED <<known, stored, history, pos, nodeDialog, upsDialog, confirm,
                     leftByClose, env>>
  BY ActsAreCounted, PageIsThere DEF handleMetadataSave, server, browser, dialogs
<1>2. editor \in [open : BOOLEAN, from : UPSes \cup {None}, value : Value, saving : BOOLEAN]
  BY DEF Inv, Typed, TypeOK
<1>3. /\ editor' \in [open : BOOLEAN, from : UPSes \cup {None}, value : Value,
                       saving : BOOLEAN]
      /\ editor'.from = editor.from /\ editor'.saving /\ editor.value \in Value
  BY <1>1, <1>2
<1>4. /\ id \in OfKind("metadata") /\ silent \in BOOLEAN
      /\ "metadata" \in Writes \cup {"node", "ups"}
  BY <1>1, HereTyped DEF Inv, Typed, OfKind, Writes
<1>5. /\ misdirected' \in {misdirected, misdirected \cup {"metadata"}}
      /\ editor.from = id => misdirected' = misdirected
  BY DEF handleMetadataSave, Sends
<1> HIDE DEF silent, id
<1>6. /\ calls' \subseteq CallType
      /\ IsFiniteSet(calls') /\ Cardinality(calls') <= MaxCalls
      /\ \A c \in calls' : c.id \in OfKind(c.fn)
      /\ \E new : /\ calls' = calls \cup {new} /\ new.fn = "metadata" /\ new.id = id
  BY <1>1, <1>3, <1>4, SentFits
<1>7. TypeOK'
  BY <1>1, <1>3, <1>5, <1>6 DEF Inv, Typed, TypeOK
<1>8. KindsInv'
  BY <1>1, <1>6 DEF Inv, Typed, KindsInv
<1>9. ~env.wander => PatientInv'
  <2>1. SUFFICES ASSUME ~env.wander PROVE PatientInv'
    OBVIOUS
  <2>2. /\ PatientInv /\ editor.from = Here.ups
        /\ \A c \in calls : c.fn \notin Writes
    BY <1>1, <2>1 DEF Inv, PatientInv
  <2>3. misdirected' = misdirected
    BY <1>5, <2>2 DEF id
  <2>4. PICK new : calls' = calls \cup {new} /\ new.fn = "metadata" /\ new.id = id
    BY <1>6
  <2>5. AboutOpen(new.fn, new.id)
    BY <2>4 DEF AboutOpen, id
  <2>6. QED
    BY <1>1, <1>3, <2>2, <2>3, <2>4, <2>5, PatientSends
<1>10. QED
  BY <1>1, <1>6, <1>7, <1>8, <1>9, StayKeeps

-----------------------------------------------------------------------------
(* A call that has been answered is one fewer.                             *)
LEMMA CallEnds ==
  ASSUME Inv, NEW c \in calls
  PROVE  /\ c \in CallType /\ c.id \in OfKind(c.fn) /\ pos # 1
         /\ calls \ {c} \subseteq CallType /\ IsFiniteSet(calls \ {c})
         /\ Cardinality(calls \ {c}) \in Nat /\ Cardinality(calls \ {c}) < MaxCalls
         /\ Cardinality(calls \ {c}) <= MaxCalls
         /\ \A d \in calls \ {c} : d.id \in OfKind(d.fn)
<1>1. /\ IsFiniteSet(calls) /\ Cardinality(calls) \in Nat /\ Cardinality(calls) <= MaxCalls
  BY FS_CardinalityType DEF Inv, Typed, CallsInv
<1>2. IsFiniteSet(calls \ {c}) /\ Cardinality(calls \ {c}) = Cardinality(calls) - 1
  BY <1>1, FS_RemoveElement
<1>3. Cardinality(calls \ {c}) \in Nat
  BY <1>2, FS_CardinalityType
<1>4. QED
  BY <1>1, <1>2, <1>3, PageIsThere, Nulls DEF Inv, Typed, TypeOK, KindsInv

(* A patient user's page after an answer, without a new write.             *)
LEMMA PatientEnds ==
  ASSUME PatientInv, UNCHANGED <<history, pos, confirm, misdirected>>, NEW c \in calls,
         calls' = calls \ {c},
         ShowsOpen(nodeDialog', Here.node), ShowsOpen(upsDialog', Here.ups),
         editor'.open => editor.open /\ editor'.from = editor.from
                         /\ (editor'.saving = editor.saving \/ c.fn \in Writes)
  PROVE  PatientInv'
<1>1. Here' = Here /\ (Writing' => Writing)
  BY DEF Here, Writing
<1>2. editor'.open => \A d \in calls' : d.fn \in Writes => editor'.saving /\ d.fn = "metadata"
  BY DEF PatientInv
<1>3. /\ \A d \in calls' : AboutOpen(d.fn, d.id)'
      /\ \A d, e \in calls' : d.fn \in Writes /\ e.fn \in Writes => d = e
  BY <1>1 DEF PatientInv, AboutOpen
<1>4. QED
  BY <1>1, <1>2, <1>3 DEF PatientInv, ShowsOpen, AboutOpen

LEMMA RecTyped ==
  ASSUME NEW c \in CallType
  PROVE  /\ Rec(c) \in Record /\ Rec(c).id = c.id
         /\ \A dialog \in Dialog :
              LET updated == [dialog EXCEPT !.rec = Rec(c)] IN
              updated \in Dialog /\ updated.rec = Rec(c)
  BY DEF Rec, Record, CallType, Dialog

(* The guard of load: what it lets through is about what is open.          *)
LEMMA LoadedFits ==
  ASSUME NEW dialog \in Dialog, NEW open, NEW c \in CallType
  PROVE  /\ Loaded(dialog, open, c) \in Dialog
         /\ Loaded(dialog, open, c).rec \in {dialog.rec, Rec(c)}
         /\ ShowsOpen(dialog, open) => ShowsOpen(Loaded(dialog, open, c), open)
<1>1. Rec(c) \in Record /\ Rec(c).id = c.id
  BY RecTyped
<1>2. /\ [rec |-> Rec(c), error |-> FALSE] \in Dialog
      /\ [dialog EXCEPT !.error = TRUE] \in Dialog
      /\ [dialog EXCEPT !.error = TRUE].rec = dialog.rec
  BY <1>1 DEF Dialog
<1>3. QED
  BY <1>1, <1>2 DEF Loaded, ShowsOpen

LEMMA LoadAnsweredKeeps ==
  ASSUME Inv, NEW c \in calls, LoadAnswered(c)
  PROVE  Inv'
<1> USE Nulls
<1>1. /\ calls' = calls \ {c}
      /\ UNCHANGED <<known, stored, history, pos, editor, confirm, misdirected, leftByClose,
                     acts, env>>
      /\ \/ /\ c.fn = "node" /\ nodeDialog' = Loaded(nodeDialog, Here.node, c)
            /\ upsDialog' = upsDialog
         \/ /\ c.fn = "ups" /\ upsDialog' = Loaded(upsDialog, Here.ups, c)
            /\ nodeDialog' = nodeDialog
  BY DEF LoadAnswered, server, browser
<1>2. nodeDialog \in Dialog /\ upsDialog \in Dialog /\ c \in CallType /\ c.id \in OfKind(c.fn)
  BY CallEnds DEF Inv, Typed, TypeOK
<1>3. /\ nodeDialog' \in Dialog
      /\ nodeDialog'.rec = nodeDialog.rec \/ (c.fn = "node" /\ nodeDialog'.rec = Rec(c))
      /\ ShowsOpen(nodeDialog, Here.node) => ShowsOpen(nodeDialog', Here.node)
  BY <1>1, <1>2, LoadedFits
<1>4. /\ upsDialog' \in Dialog
      /\ upsDialog'.rec = upsDialog.rec \/ (c.fn = "ups" /\ upsDialog'.rec = Rec(c))
      /\ ShowsOpen(upsDialog, Here.ups) => ShowsOpen(upsDialog', Here.ups)
  BY <1>1, <1>2, LoadedFits
<1>5. TypeOK'
  BY <1>1, <1>3, <1>4, CallEnds DEF Inv, Typed, TypeOK
<1>6. KindsInv'
  <2>1. c.fn = "node" => Rec(c).id \in Nodes
    BY <1>2, RecTyped DEF OfKind
  <2>2. c.fn = "ups" => Rec(c).id \in UPSes
    BY <1>2, RecTyped DEF OfKind
  <2>3. QED
    BY <1>1, <1>3, <1>4, <2>1, <2>2, CallEnds DEF Inv, Typed, KindsInv
<1>7. ~env.wander => PatientInv'
  BY <1>1, <1>3, <1>4, PatientEnds DEF Inv, PatientInv
<1>8. IsFiniteSet(calls') /\ Cardinality(calls') <= MaxCalls
  BY <1>1, CallEnds
<1>9. QED
  BY <1>1, <1>5, <1>6, <1>7, <1>8, CallEnds, StayKeeps

LEMMA PatchAnsweredKeeps ==
  ASSUME Inv, NEW c \in calls, PatchAnswered(c)
  PROVE  Inv'
<1> USE Nulls
<1>1. /\ calls' = calls \ {c} /\ c.fn = "patch"
      /\ nodeDialog' = IF c.ok THEN [nodeDialog EXCEPT !.rec = Rec(c)] ELSE nodeDialog
      /\ UNCHANGED <<known, stored, history, pos, upsDialog, editor, confirm, misdirected,
                     leftByClose, acts, env>>
  BY DEF PatchAnswered, server, browser
<1>2. /\ nodeDialog \in Dialog /\ c \in CallType /\ Rec(c).id = c.id
      /\ c.id \in Nodes
  BY <1>1, CallEnds, RecTyped DEF Inv, Typed, TypeOK, OfKind
<1>3. /\ nodeDialog' \in Dialog
      /\ nodeDialog'.rec \in {nodeDialog.rec, Rec(c)}
  BY <1>1, <1>2, RecTyped
<1>4. TypeOK'
  BY <1>1, <1>3, CallEnds DEF Inv, Typed, TypeOK
<1>5. KindsInv'
  BY <1>1, <1>2, <1>3, CallEnds DEF Inv, Typed, KindsInv
<1>6. ~env.wander => PatientInv'
  <2>1. SUFFICES ASSUME ~env.wander PROVE PatientInv'
    OBVIOUS
  <2>2. PatientInv /\ c.id = Here.node
    BY <1>1, <2>1 DEF Inv, PatientInv, AboutOpen
  <2>3. ShowsOpen(nodeDialog', Here.node) /\ ShowsOpen(upsDialog', Here.ups)
    BY <1>1, <1>2, <1>3, <2>2 DEF PatientInv, ShowsOpen
  <2>4. QED
    BY <1>1, <2>2, <2>3, PatientEnds
<1>7. IsFiniteSet(calls') /\ Cardinality(calls') <= MaxCalls
  BY <1>1, CallEnds
<1>8. QED
  BY <1>1, <1>4, <1>5, <1>6, <1>7, CallEnds, StayKeeps

LEMMA ForgetAnsweredKeeps ==
  ASSUME Inv, NEW c \in calls, ForgetAnswered(c)
  PROVE  Inv'
<1> USE Nulls
<1>1. c.fn = "forget" /\ UNCHANGED <<known, stored, misdirected, acts, env>>
  BY DEF ForgetAnswered, server
<1>2. /\ pos # 1 /\ c.id \in Nodes /\ acts' \in 0 .. MaxActs
  BY <1>1, CallEnds DEF Inv, Typed, TypeOK, OfKind
<1>3. CASE c.ok
  <2>1. Close(calls \ {c})
    BY <1>3 DEF ForgetAnswered
  <2>2. ~env.wander => /\ confirm = NoConfirm /\ ~editor.open /\ Here # Plain
                       /\ \A d \in calls \ {c} : d.fn \notin Writes
    <3>1. SUFFICES ASSUME ~env.wander
                   PROVE  /\ confirm = NoConfirm /\ ~editor.open /\ Here # Plain
                          /\ \A d \in calls \ {c} : d.fn \notin Writes
      OBVIOUS
    <3>2. PatientInv /\ c.fn \in Writes
      BY <1>1, <3>1 DEF Inv, Writes
    <3>3. Here.node = c.id
      BY <1>1, <3>2 DEF PatientInv, AboutOpen
    <3>4. confirm = NoConfirm
      BY <3>2 DEF PatientInv, Writing
    <3>5. ~editor.open
      BY <1>1, <3>2 DEF PatientInv
    <3>6. \A d \in calls \ {c} : d.fn \notin Writes
      BY <3>2 DEF PatientInv
    <3>7. QED
      BY <1>2, <3>3, <3>4, <3>5, <3>6
  <2>3. QED
    BY <1>1, <1>2, <2>1, <2>2, CloseKeeps DEF server
<1>4. CASE ~c.ok
  <2>1. /\ calls' = calls \ {c}
        /\ UNCHANGED <<history, pos, nodeDialog, upsDialog, editor, confirm, leftByClose>>
    BY <1>4 DEF ForgetAnswered, browser, dialogs
  <2>2. TypeOK' /\ KindsInv'
    BY <1>1, <2>1, CallEnds DEF Inv, Typed, TypeOK, KindsInv
  <2>3. ~env.wander => PatientInv'
    BY <1>1, <2>1, PatientEnds DEF Inv, PatientInv
  <2>4. IsFiniteSet(calls') /\ Cardinality(calls') <= MaxCalls
    BY <2>1, CallEnds
  <2>5. QED
    BY <1>1, <1>2, <2>1, <2>2, <2>3, <2>4, StayKeeps
<1>5. QED
  BY <1>3, <1>4

LEMMA CommandAnsweredKeeps ==
  ASSUME Inv, NEW c \in calls, CommandAnswered(c)
  PROVE  Inv'
<1> USE Nulls
<1> DEFINE silent == FALSE
<1>1. /\ UNCHANGED <<known, stored, history, pos, nodeDialog, editor, confirm, misdirected,
                     leftByClose, acts, env>>
      /\ c.fn \in {"command", "reload"}
      /\ \/ /\ c.fn = "command" /\ c.ok /\ upsDialog' = upsDialog
            /\ calls' = Send(calls \ {c}, "reload", c.id, 0, silent)
         \/ /\ calls' = calls \ {c}
            /\ \/ upsDialog' = upsDialog
               \/ upsDialog' = [upsDialog EXCEPT !.rec = Rec(c)]
  BY DEF CommandAnswered, server, browser
<1>2. /\ c \in CallType /\ c.id \in UPSes /\ Rec(c).id = c.id
      /\ upsDialog \in Dialog
  BY <1>1, CallEnds, RecTyped DEF Inv, Typed, TypeOK, OfKind
<1>3. ~env.wander => /\ PatientInv /\ c.id = Here.ups
                     /\ confirm = NoConfirm /\ ~editor.open
                     /\ \A d \in calls \ {c} : d.fn \notin Writes
  <2>1. SUFFICES ASSUME ~env.wander
                 PROVE  /\ PatientInv /\ c.id = Here.ups
                        /\ confirm = NoConfirm /\ ~editor.open
                        /\ \A d \in calls \ {c} : d.fn \notin Writes
    OBVIOUS
  <2>2. PatientInv /\ c.fn \in Writes
    BY <1>1, <2>1 DEF Inv, Writes
  <2>3. c.id = Here.ups
    BY <1>1, <2>2 DEF PatientInv, AboutOpen
  <2>4. confirm = NoConfirm
    BY <2>2 DEF PatientInv, Writing
  <2>5. ~editor.open /\ \A d \in calls \ {c} : d.fn \notin Writes
    BY <1>1, <2>2 DEF PatientInv
  <2>6. QED
    BY <2>2, <2>3, <2>4, <2>5
<1> HIDE DEF silent
<1>4. CASE c.fn = "command" /\ upsDialog' = upsDialog
           /\ calls' = Send(calls \ {c}, "reload", c.id, 0, silent)
  <2>1. /\ c.id \in OfKind("reload") /\ "reload" \in Writes \cup {"node", "ups"}
        /\ silent \in BOOLEAN /\ 0 \in Value
    BY <1>2 DEF OfKind, Writes, Value, silent
  <2>2. /\ calls' \subseteq CallType
        /\ IsFiniteSet(calls') /\ Cardinality(calls') <= MaxCalls
        /\ \A d \in calls' : d.id \in OfKind(d.fn)
        /\ \E new : calls' = (calls \ {c}) \cup {new} /\ new.fn = "reload" /\ new.id = c.id
    <3> DEFINE cs == calls \ {c}
               id == c.id
    <3>1. cs \in SUBSET calls /\ Cardinality(cs) < MaxCalls
      BY CallEnds
    <3> HIDE DEF cs, id
    <3>2. id \in OfKind("reload") /\ calls' = Send(cs, "reload", id, 0, silent)
      BY <1>4, <2>1 DEF cs, id
    <3>3. /\ calls' \subseteq CallType
          /\ IsFiniteSet(calls') /\ Cardinality(calls') <= MaxCalls
          /\ \A d \in calls' : d.id \in OfKind(d.fn)
          /\ \E new : calls' = cs \cup {new} /\ new.fn = "reload" /\ new.id = id
      BY <2>1, <3>1, <3>2, SentTo
    <3>4. QED
      BY <3>3 DEF cs, id
  <2>3. TypeOK'
    BY <1>1, <1>4, <2>2 DEF Inv, Typed, TypeOK
  <2>4. KindsInv'
    BY <1>1, <1>4, <2>2 DEF Inv, Typed, KindsInv
  <2>5. ~env.wander => PatientInv'
    <3>1. SUFFICES ASSUME ~env.wander PROVE PatientInv'
      OBVIOUS
    <3>2. PICK new : calls' = (calls \ {c}) \cup {new} /\ new.fn = "reload" /\ new.id = c.id
      BY <2>2
    <3>3. AboutOpen(new.fn, new.id)
      BY <1>3, <3>1, <3>2 DEF AboutOpen
    <3>4. QED
      BY <1>1, <1>3, <1>4, <3>1, <3>2, <3>3, PatientSends
  <2>6. QED
    BY <1>1, <2>2, <2>3, <2>4, <2>5, CallEnds, StayKeeps
<1>5. CASE calls' = calls \ {c} /\ (\/ upsDialog' = upsDialog
                                    \/ upsDialog' = [upsDialog EXCEPT !.rec = Rec(c)])
  <2>1. upsDialog' \in Dialog /\ upsDialog'.rec \in {upsDialog.rec, Rec(c)}
    <3>1. CASE upsDialog' = upsDialog
      BY <1>2, <3>1
    <3>2. CASE upsDialog' = [upsDialog EXCEPT !.rec = Rec(c)]
      BY <1>2, <3>2, RecTyped
    <3>3. QED
      BY <1>5, <3>1, <3>2
  <2>2. TypeOK'
    BY <1>1, <1>5, <2>1, CallEnds DEF Inv, Typed, TypeOK
  <2>3. KindsInv'
    BY <1>1, <1>2, <1>5, <2>1, CallEnds DEF Inv, Typed, KindsInv
  <2>4. ~env.wander => PatientInv'
    <3>1. SUFFICES ASSUME ~env.wander PROVE PatientInv'
      OBVIOUS
    <3>2. ShowsOpen(nodeDialog', Here.node) /\ ShowsOpen(upsDialog', Here.ups)
      BY <1>1, <1>2, <1>3, <2>1, <3>1 DEF PatientInv, ShowsOpen
    <3>3. QED
      BY <1>1, <1>3, <1>5, <3>1, <3>2, PatientEnds
  <2>5. IsFiniteSet(calls') /\ Cardinality(calls') <= MaxCalls
    BY <1>5, CallEnds
  <2>6. QED
    BY <1>1, <2>2, <2>3, <2>4, <2>5, CallEnds, StayKeeps
<1>6. QED
  BY <1>1, <1>4, <1>5

LEMMA MetadataAnsweredKeeps ==
  ASSUME Inv, NEW c \in calls, MetadataAnswered(c)
  PROVE  Inv'
<1> USE Nulls
<1>1. /\ calls' = calls \ {c} /\ c.fn = "metadata" /\ c.fn \in Writes
      /\ UNCHANGED <<known, stored, history, pos, nodeDialog, confirm, misdirected,
                     leftByClose, acts, env>>
  BY DEF MetadataAnswered, server, browser, Writes
<1>2. /\ upsDialog \in Dialog /\ c \in CallType /\ c.value \in Value
      /\ editor \in [open : BOOLEAN, from : UPSes \cup {None}, value : Value,
                     saving : BOOLEAN]
  BY CallEnds DEF Inv, Typed, TypeOK, CallType
<1>3. /\ editor' \in [open : BOOLEAN, from : UPSes \cup {None}, value : Value,
                      saving : BOOLEAN]
      /\ editor'.open => editor.open /\ editor'.from = editor.from
  BY <1>2 DEF MetadataAnswered
<1>4. /\ upsDialog' \in Dialog
      /\ upsDialog'.rec # None => upsDialog.rec # None /\ upsDialog'.rec.id = upsDialog.rec.id
  <2>1. CASE upsDialog' = upsDialog
    BY <1>2, <2>1
  <2>2. CASE upsDialog.rec # None /\ upsDialog' = [upsDialog EXCEPT !.rec.value = c.value]
    BY <1>2, <2>2 DEF Dialog, Record
  <2>3. QED
    BY <2>1, <2>2 DEF MetadataAnswered
<1>5. TypeOK'
  BY <1>1, <1>3, <1>4, CallEnds DEF Inv, Typed, TypeOK
<1>6. KindsInv'
  BY <1>1, <1>4, CallEnds DEF Inv, Typed, KindsInv
<1>7. ~env.wander => PatientInv'
  <2>1. SUFFICES ASSUME ~env.wander PROVE PatientInv'
    OBVIOUS
  <2>2. PatientInv
    BY <2>1 DEF Inv
  <2>3. ShowsOpen(nodeDialog', Here.node) /\ ShowsOpen(upsDialog', Here.ups)
    BY <1>1, <1>4, <2>2 DEF PatientInv, ShowsOpen
  <2>4. QED
    BY <1>1, <1>3, <2>2, <2>3, PatientEnds
<1>8. IsFiniteSet(calls') /\ Cardinality(calls') <= MaxCalls
  BY <1>1, CallEnds
<1>9. QED
  BY <1>1, <1>5, <1>6, <1>7, <1>8, CallEnds, StayKeeps

(* The interval sends another load of what is open.                        *)
LEMMA LiveRefreshKeeps ==
  ASSUME Inv, LiveRefresh
  PROVE  Inv'
<1> USE Nulls
<1> DEFINE silent == TRUE
<1>1. /\ pos # 1 /\ Room(1)
      /\ UNCHANGED <<known, stored, history, pos, nodeDialog, upsDialog, editor, confirm,
                     misdirected, leftByClose, acts, env>>
      /\ \E fn \in {"node", "ups"}, id \in Things :
           id \in OfKind(fn) /\ calls' = Send(calls, fn, id, 0, silent)
  <2>1. Here.node \in Nodes \cup {None} /\ Here.ups \in UPSes \cup {None} /\ pos \in Nat
    BY HereTyped DEF Inv, Typed
  <2>2. pos # 1 /\ Room(1)
    BY <2>1 DEF LiveRefresh
  <2>3. UNCHANGED <<known, stored, history, pos, nodeDialog, upsDialog, editor, confirm,
                    misdirected, leftByClose, acts, env>>
    BY DEF LiveRefresh, server, browser, dialogs
  <2>4. \/ Here.node # None /\ calls' = Send(calls, "node", Here.node, 0, silent)
        \/ Here.ups # None /\ calls' = Send(calls, "ups", Here.ups, 0, silent)
    BY Zenon DEF LiveRefresh
  <2> HIDE DEF silent
  <2>5. \/ Here.node \in OfKind("node")
           /\ calls' = Send(calls, "node", Here.node, 0, silent)
        \/ Here.ups \in OfKind("ups")
           /\ calls' = Send(calls, "ups", Here.ups, 0, silent)
    BY <2>1, <2>4 DEF OfKind
  <2>6. OfKind("node") \subseteq Things /\ OfKind("ups") \subseteq Things
    BY DEF OfKind, Things
  <2>7. \E fn \in {"node", "ups"}, id \in Things :
          id \in OfKind(fn) /\ calls' = Send(calls, fn, id, 0, silent)
    BY <2>5, <2>6, Zenon
  <2>8. QED
    BY <2>2, <2>3, <2>7
<1>2. PICK fn \in {"node", "ups"}, id \in Things :
        id \in OfKind(fn) /\ calls' = Send(calls, fn, id, 0, silent)
  BY <1>1
<1>3. silent \in BOOLEAN /\ 0 \in Value /\ fn \in Writes \cup {"node", "ups"}
  BY DEF Value
<1> HIDE DEF silent
<1>4. /\ calls' \subseteq CallType
      /\ IsFiniteSet(calls') /\ Cardinality(calls') <= MaxCalls
      /\ \A c \in calls' : c.id \in OfKind(c.fn)
      /\ \E new : calls' = calls \cup {new} /\ new.fn = fn /\ new.id = id
  BY <1>1, <1>2, <1>3, SentFits
<1>5. TypeOK' /\ KindsInv'
  BY <1>1, <1>4 DEF Inv, Typed, TypeOK, KindsInv
<1>6. ~env.wander => PatientInv'
  <2>1. SUFFICES ASSUME ~env.wander PROVE PatientInv'
    OBVIOUS
  <2>2. PatientInv /\ Here' = Here
    BY <1>1, <2>1 DEF Inv, Here
  <2>3. PICK new : calls' = calls \cup {new} /\ new.fn = fn
    BY <1>4
  <2>4. new.fn \notin Writes /\ AboutOpen(new.fn, new.id)'
    BY <2>3 DEF Writes, AboutOpen
  <2>5. /\ \A c \in calls' : c.fn \in Writes => c \in calls
        /\ \A c \in calls' : AboutOpen(c.fn, c.id)'
        /\ Writing' => Writing
    BY <2>2, <2>3, <2>4 DEF PatientInv, AboutOpen, Writing
  <2>6. confirm # NoConfirm => AboutOpen(confirm.kind, confirm.id)'
    BY <1>1, <2>2 DEF PatientInv, AboutOpen
  <2>7. QED
    BY <1>1, <2>2, <2>5, <2>6 DEF PatientInv, ShowsOpen
<1>7. QED
  BY <1>1, <1>4, <1>5, <1>6, StayKeeps

LEMMA ControllerAnswersKeeps ==
  ASSUME Inv, NEW c \in calls, ControllerAnswers(c)
  PROVE  Inv'
<1> USE Nulls
<1> DEFINE after(ok) == IF ok /\ c.fn \in {"patch", "metadata"}
                        THEN [stored EXCEPT ![c.id] = c.value] ELSE stored
           value(ok) == IF ok THEN after(ok)[c.id] ELSE 0
           new(ok) == [c EXCEPT !.answered = TRUE, !.ok = ok, !.value = value(ok)]
           there == c.id \in known \cup UPSes
<1>1. PICK ok \in IF Trouble THEN {there, FALSE} ELSE {there} :
        /\ stored' = after(ok)
        /\ known' = IF ok /\ c.fn = "forget" THEN known \ {c.id} ELSE known
        /\ calls' = (calls \ {c}) \cup {new(ok)}
  BY DEF ControllerAnswers
<1>2. UNCHANGED <<history, pos, nodeDialog, upsDialog, editor, confirm, misdirected,
                  leftByClose, acts, env>>
  BY DEF ControllerAnswers, browser, dialogs
<1>3. ok \in BOOLEAN /\ c \in CallType /\ c.id \in Things /\ c.value \in Value
  <2>1. there \in BOOLEAN
    OBVIOUS
  <2> HIDE DEF there
  <2>2. ok \in BOOLEAN
    BY <2>1
  <2>3. c \in CallType
    BY CallEnds
  <2>4. QED
    BY <2>2, <2>3 DEF CallType
<1>4. stored \in [Things -> Value] /\ known \subseteq Nodes
  BY DEF Inv, Typed, TypeOK
<1>5. after(ok) \in [Things -> Value]
  BY <1>3, <1>4
<1>6. known' \subseteq Nodes /\ stored' \in [Things -> Value]
  BY <1>1, <1>4, <1>5
<1> HIDE DEF after
<1>7. value(ok) \in Value
  BY <1>3, <1>5 DEF Value
<1> HIDE DEF value
<1>8. new(ok) \in CallType /\ new(ok).fn = c.fn /\ new(ok).id = c.id
  BY <1>3, <1>7 DEF CallType
<1> HIDE DEF new
<1>9. /\ calls' \subseteq CallType
      /\ IsFiniteSet(calls') /\ Cardinality(calls') <= MaxCalls
      /\ \A d \in calls' : d.id \in OfKind(d.fn)
  <2> DEFINE cs == calls \ {c}
  <2>1. /\ cs \subseteq CallType /\ IsFiniteSet(cs)
        /\ Cardinality(cs) \in Nat /\ Cardinality(cs) < MaxCalls
        /\ c.id \in OfKind(c.fn) /\ \A d \in cs : d.id \in OfKind(d.fn)
    BY CallEnds
  <2> HIDE DEF cs
  <2>2. calls' = cs \cup {new(ok)}
    BY <1>1 DEF cs
  <2>3. IsFiniteSet(calls') /\ Cardinality(calls') \in {Cardinality(cs), Cardinality(cs) + 1}
    BY <2>1, <2>2, FS_AddElement
  <2>4. QED
    BY <1>8, <2>1, <2>2, <2>3
<1>10. TypeOK' /\ KindsInv'
  BY <1>2, <1>6, <1>9 DEF Inv, Typed, TypeOK, KindsInv
<1>11. ~env.wander => PatientInv'
  <2>1. SUFFICES ASSUME ~env.wander PROVE PatientInv'
    OBVIOUS
  <2>2. PatientInv /\ Here' = Here
    BY <1>2, <2>1 DEF Inv, Here
  <2>3. \A d \in calls' : \/ d \in calls /\ d # c
                          \/ d = new(ok)
    BY <1>1
  <2>4. /\ \A d \in calls' : AboutOpen(d.fn, d.id)'
        /\ \A d, e \in calls' : d.fn \in Writes /\ e.fn \in Writes => d = e
        /\ Writing' => Writing
    BY <1>8, <2>2, <2>3 DEF PatientInv, AboutOpen, Writing
  <2>5. confirm # NoConfirm => AboutOpen(confirm.kind, confirm.id)'
    BY <1>2, <2>2 DEF PatientInv, AboutOpen
  <2>6. editor.open =>
          \A d \in calls' : d.fn \in Writes => editor.saving /\ d.fn = "metadata"
    BY <1>8, <2>2, <2>3 DEF PatientInv
  <2>7. QED
    BY <1>2, <2>2, <2>4, <2>5, <2>6 DEF PatientInv, ShowsOpen
<1>12. QED
  BY <1>2, <1>9, <1>10, <1>11, CallEnds, StayKeeps

LEMMA StutterKeeps ==
  ASSUME Inv, UNCHANGED vars
  PROVE  Inv'
<1>1. UNCHANGED <<known, stored, history, pos, nodeDialog, upsDialog, editor, confirm, calls,
                  misdirected, leftByClose, acts, env>>
  BY DEF vars, server, browser, dialogs
<1>2. Typed'
  BY <1>1 DEF Inv, Typed, TypeOK, HistoryInv, CallsInv, KindsInv
<1>3. ~env'.wander => PatientInv'
  BY <1>1 DEF Inv, PatientInv, Here, ShowsOpen, AboutOpen, Writing
<1>4. QED
  BY <1>1, <1>2, <1>3 DEF Inv, ClosingStaysOnPage

LEMMA StepInv == Inv /\ [Next]_vars => Inv'
<1> SUFFICES ASSUME Inv, [Next]_vars PROVE Inv'
  OBVIOUS
<1>1. ASSUME NEW c \in calls, ControllerAnswers(c) \/ GoesOn(c) PROVE Inv'
  BY <1>1, ControllerAnswersKeeps, LoadAnsweredKeeps, PatchAnsweredKeeps,
     ForgetAnsweredKeeps, CommandAnsweredKeeps, MetadataAnsweredKeeps DEF GoesOn
<1>2. CASE \/ \E n \in Nodes : openDetail(n)
           \/ \E u \in UPSes : openUPS(u)
           \/ closeDialog
           \/ \E p \in DOMAIN history : BackOrForward(p)
  BY <1>2, openDetailKeeps, openUPSKeeps, closeDialogKeeps, BackOrForwardKeeps
<1>3. CASE \/ \E v \in Value : handleEdit(v)
           \/ handleToggleLocalUIPolicy \/ handleForget
           \/ \E destructive \in BOOLEAN : handleCommand(destructive)
           \/ \E accepted \in BOOLEAN : closeConfirmation(accepted)
  BY <1>3, handleEditKeeps, AskNodeKeeps, handleCommandKeeps, closeConfirmationKeeps
<1>4. CASE openMetadataEditor \/ CancelEditor \/ handleMetadataSave \/ LiveRefresh
  BY <1>4, openMetadataEditorKeeps, CancelEditorKeeps, handleMetadataSaveKeeps,
     LiveRefreshKeeps
<1>5. CASE UNCHANGED vars
  BY <1>5, StutterKeeps
<1>6. QED
  BY <1>1, <1>2, <1>3, <1>4, <1>5 DEF Next

LEMMA Invariance == Spec => []Inv
  BY InitInv, StepInv, PTL DEF Spec

-----------------------------------------------------------------------------
(* Every variable keeps its type: the effects and functions of both        *)
(* dialogs never handle a node as a UPS or a record that is not there, and *)
(* the slots suffice for what a step starts.                               *)
THEOREM TypeCorrect == Spec => []TypeOK
<1>1. Inv => TypeOK
  BY DEF Inv, Typed
<1>2. QED
  BY <1>1, Invariance, PTL

(* The guards of both loads, the effects that forget, and the writes that  *)
(* have no guard: for a user who waits for writes a dialog shows the node  *)
(* or UPS that is open.                                                    *)
THEOREM DialogIsRight == Spec => []DialogShowsOpen
<1>1. Inv => DialogShowsOpen
  BY DEF Inv, PatientInv, DialogShowsOpen
<1>2. QED
  BY <1>1, Invariance, PTL

(* handleCommand and handleMetadataSave send to the UPS of the parameters, *)
(* which for such a user is the one that is shown or was edited.           *)
THEOREM ActionsAreRight == Spec => []ActionsHitShown
<1>1. Inv => ActionsHitShown
  BY DEF Inv, PatientInv, ActionsHitShown
<1>2. QED
  BY <1>1, Invariance, PTL

(* navigate(-1) pops the entry that opening pushed, so closing leaves the  *)
(* application only after a link to a dialog or for a user who moved on.   *)
THEOREM ClosingStays == Spec => []ClosingStaysOnPage
<1>1. Inv => ClosingStaysOnPage
  BY DEF Inv
<1>2. QED
  BY <1>1, Invariance, PTL
=============================================================================
