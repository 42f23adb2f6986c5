------------------------- MODULE MetricDetailProofs -------------------------
(***************************************************************************)
(* Proofs about MetricDetail, for every set of metrics, windows and call   *)
(* slots, every bound and every set of environments: also for a user who   *)
(* acts while a window is being fetched, where a property does not exclude *)
(* one.                                                                    *)
(***************************************************************************)
EXTENDS MetricDetail, TLAPS

IsSelecting(c) == calls[c].by = "select"

(* The history of the selected window.                                     *)
HistoryShown == IF window = Narrow THEN metricHistory ELSE metricHistoryLong

(* The cards, and with them the dialog, come with the first health event;  *)
(* and the hover finds the chart that is on the screen.                    *)
ChartInv ==
    label # NoLabel =>
      /\ health
      /\ ~Selecting =>
           /\ drawn = [label |-> label, window |-> window, data |-> HistoryShown]
           /\ trendCache[label] = drawn

(* A dialog that waits for nothing on a wide window has its interval.      *)
IntervalIsThere ==
    (label # NoLabel /\ window \in Wide /\ ~Selecting) => refreshTimer \in running

(* For a user who waits: one window is fetched at a time, and meanwhile no *)
(* interval runs and the dialog stays.                                     *)
IntervalIsAlone ==
    ~env.overlap =>
      /\ \A c, d \in Calls : IsSelecting(c) /\ IsSelecting(d) => c = d
      /\ running \subseteq {refreshTimer}
      /\ running # {} => ~Selecting /\ label # NoLabel /\ window \in Wide
      /\ Selecting => label # NoLabel /\ window \in Wide

DetailInv == TypeOK /\ ChartInv /\ IntervalIsThere /\ IntervalIsAlone

-----------------------------------------------------------------------------
LEMMA IdleType == Idle \in CallType
  BY ConstantsAssumption DEF ConstantsAssumption, CallType, Idle, History

(* What the drawing function does to the chart and the cache.              *)
LEMMA RenderTypes ==
  ASSUME TypeOK, NEW lab \in Labels \cup {NoLabel}, NEW win \in Windows,
         NEW short \in History, NEW long \in History,
         renderMetricDetailChart(lab, win, short, long)
  PROVE  /\ drawn' \in Chart \cup {NoChart}
         /\ trendCache' \in [Labels -> Chart \cup {NoChart}]
<1>1. CASE lab = NoLabel
  BY <1>1 DEF TypeOK, renderMetricDetailChart, chart
<1>2. CASE lab # NoLabel
  <2>1. drawn' \in Chart
    BY <1>2 DEF renderMetricDetailChart, Chart
  <2>2. trendCache' = [trendCache EXCEPT ![lab] = drawn']
    BY <1>2 DEF renderMetricDetailChart
  <2>3. QED
    BY <2>1, <2>2 DEF TypeOK
<1>3. QED
  BY <1>1, <1>2

LEMMA RenderDraws ==
  ASSUME TypeOK, NEW lab \in Labels, NEW win, NEW short, NEW long, lab # NoLabel,
         renderMetricDetailChart(lab, win, short, long)
  PROVE  /\ drawn' = [label |-> lab, window |-> win,
                      data |-> IF win = Narrow THEN short ELSE long]
         /\ trendCache'[lab] = drawn'
<1>1. drawn' = [label |-> lab, window |-> win,
                data |-> IF win = Narrow THEN short ELSE long]
  BY DEF renderMetricDetailChart
<1>2. trendCache' = [trendCache EXCEPT ![lab] = drawn']
  BY DEF renderMetricDetailChart
<1>3. QED
  BY <1>1, <1>2 DEF TypeOK

-----------------------------------------------------------------------------
LEMMA InitInv == Init => DetailInv
<1> SUFFICES ASSUME Init PROVE DetailInv
  OBVIOUS
<1>1. calls = [c \in Calls |-> Idle] /\ calls \in [Calls -> CallType]
  BY IdleType DEF Init
<1>2. trendCache \in [Labels -> Chart \cup {NoChart}]
  BY DEF Init
<1>3. TypeOK
  <2>1. 0 \in History /\ MaxActs \in 0..MaxActs
    BY ConstantsAssumption DEF ConstantsAssumption, History
  <2>2. env \in EnvType /\ health \in BOOLEAN
    BY ConstantsAssumption DEF ConstantsAssumption, Init
  <2>3. /\ label \in Labels \cup {NoLabel} /\ window \in Windows
        /\ refreshTimer \in Timers \cup {NoTimer} /\ running \subseteq Timers
        /\ drawn \in Chart \cup {NoChart} /\ marker \in Chart \cup {NoChart}
    BY DEF Init, Windows
  <2>4. QED
    BY <1>1, <1>2, <2>1, <2>2, <2>3 DEF Init, TypeOK
<1>4. ~Selecting
  BY <1>1 DEF Selecting, Idle
<1>5. ChartInv /\ IntervalIsThere
  BY DEF Init, ChartInv, IntervalIsThere
<1>6. IntervalIsAlone
  BY <1>1, <1>4 DEF Init, IntervalIsAlone, IsSelecting, Idle
<1>7. QED
  BY <1>3, <1>5, <1>6 DEF DetailInv

-----------------------------------------------------------------------------
(* Events of the stream.                                                   *)
LEMMA RenderHealth ==
  ASSUME DetailInv, NEW short \in History, renderHealth(short),
         UNCHANGED <<samples, metricHistoryLong, selection, timers, calls, marker, acts, env>>,
         metricHistory' = short, health' \in BOOLEAN, label # NoLabel => health'
  PROVE  DetailInv'
<1>1. TypeOK /\ label \in Labels \cup {NoLabel} /\ window \in Windows
      /\ metricHistoryLong \in History
  BY DEF DetailInv, TypeOK
<1>2. /\ drawn' \in Chart \cup {NoChart}
      /\ trendCache' \in [Labels -> Chart \cup {NoChart}]
  <2>1. CASE window = Narrow
    BY <1>1, <2>1, RenderTypes DEF renderHealth
  <2>2. CASE window # Narrow
    BY <1>1, <2>2 DEF renderHealth, chart, TypeOK
  <2>3. QED
    BY <2>1, <2>2
<1>3. TypeOK'
  BY <1>1, <1>2 DEF TypeOK, selection, timers
<1>4. Selecting' = Selecting
  BY DEF Selecting
<1>5. ASSUME label # NoLabel, ~Selecting
      PROVE  /\ drawn' = [label |-> label, window |-> window,
                          data |-> IF window = Narrow THEN short ELSE metricHistoryLong]
             /\ trendCache'[label] = drawn'
  <2>1. CASE window = Narrow
    BY <1>1, <1>5, <2>1, RenderDraws DEF renderHealth
  <2>2. CASE window # Narrow
    BY <1>5, <2>2 DEF renderHealth, chart, DetailInv, ChartInv, HistoryShown
  <2>3. QED
    BY <2>1, <2>2
<1>6. ChartInv'
  BY <1>4, <1>5 DEF ChartInv, HistoryShown, selection
<1>7. (IntervalIsThere /\ IntervalIsAlone)'
  BY <1>4 DEF DetailInv, IntervalIsThere, IntervalIsAlone, IsSelecting, selection, timers
<1>8. QED
  BY <1>3, <1>6, <1>7 DEF DetailInv

LEMMA HistoryEventInv == ASSUME DetailInv, HistoryEvent PROVE DetailInv'
<1>0. samples \in History /\ TypeOK
  BY DEF DetailInv, TypeOK
<1>1. CASE health
  BY <1>0, <1>1, RenderHealth DEF HistoryEvent
<1>2. CASE ~health
  <2>1. label = NoLabel /\ UNCHANGED <<chart, selection, timers, calls, env>>
    BY <1>2 DEF DetailInv, ChartInv, HistoryEvent
  <2>2. TypeOK'
    BY <1>0, <1>2 DEF TypeOK, HistoryEvent, chart, selection, timers
  <2>3. (ChartInv /\ IntervalIsThere /\ IntervalIsAlone)'
    BY <2>1 DEF DetailInv, ChartInv, IntervalIsThere, IntervalIsAlone, IsSelecting,
                Selecting, selection, timers
  <2>4. QED
    BY <2>2, <2>3 DEF DetailInv
<1>3. QED
  BY <1>1, <1>2

LEMMA HealthEventInv == ASSUME DetailInv, HealthEvent PROVE DetailInv'
<1>1. metricHistory \in History
  BY DEF DetailInv, TypeOK
<1>2. QED
  BY <1>1, RenderHealth DEF HealthEvent, histories

-----------------------------------------------------------------------------
(* The user.                                                               *)
LEMMA ActsType == ASSUME TypeOK, UserActs PROVE acts' \in 0..MaxActs
  BY ConstantsAssumption DEF ConstantsAssumption, TypeOK, UserActs

(* Choosing a metric or a window, with the dialog open or opening.         *)
LEMMA SelectInv ==
  ASSUME DetailInv, NEW c \in Calls, NEW lab \in Labels, NEW win \in Windows, UserActs,
         health, selectMetricDetailWindow(c, lab, win),
         UNCHANGED <<samples, health, histories, marker, env>>
  PROVE  DetailInv'
<1>1. TypeOK /\ lab # NoLabel
  BY ConstantsAssumption DEF ConstantsAssumption, DetailInv
<1>2. label' = lab /\ window' = win /\ refreshTimer' = NoTimer
      /\ running' = running \ {refreshTimer}
  BY DEF selectMetricDetailWindow, Stop
<1>3. metricHistory \in History /\ metricHistoryLong \in History
  BY <1>1 DEF TypeOK
<1>4. ~env.overlap => running' = {} /\ ~Selecting
  BY <1>2 DEF DetailInv, IntervalIsAlone, UserActs
<1>5. CASE win = Narrow
  <2>1. renderMetricDetailChart(lab, win, metricHistory, metricHistoryLong)
        /\ UNCHANGED calls
    BY <1>5 DEF selectMetricDetailWindow
  <2>2. /\ drawn' \in Chart \cup {NoChart}
        /\ trendCache' \in [Labels -> Chart \cup {NoChart}]
    BY <1>1, <1>3, <2>1, RenderTypes
  <2>3. /\ drawn' = [label |-> lab, window |-> win, data |-> metricHistory]
        /\ trendCache'[lab] = drawn'
    BY <1>1, <1>5, <2>1, RenderDraws
  <2>4. TypeOK'
    BY <1>1, <1>2, <2>1, <2>2, ActsType DEF TypeOK, histories
  <2>5. ChartInv'
    BY <1>2, <1>5, <2>3 DEF ChartInv, HistoryShown, histories
  <2>6. IntervalIsThere'
    BY <1>2, <1>5, ConstantsAssumption DEF ConstantsAssumption, IntervalIsThere
  <2>7. IntervalIsAlone'
    BY <1>2, <1>4, <2>1 DEF DetailInv, IntervalIsAlone, IsSelecting, Selecting
  <2>8. QED
    BY <2>4, <2>5, <2>6, <2>7 DEF DetailInv
<1>6. CASE win # Narrow
  <2>1. calls' = [calls EXCEPT ![c] = [Idle EXCEPT !.by = "select"]] /\ UNCHANGED chart
    BY <1>6 DEF selectMetricDetailWindow, refreshMetricHistoryLong
  <2>2. [Idle EXCEPT !.by = "select"] \in CallType
    BY IdleType DEF CallType, Idle
  <2>3. calls' \in [Calls -> CallType]
    BY <1>1, <2>1, <2>2 DEF TypeOK
  <2>4. calls'[c].by = "select" /\ \A d \in Calls \ {c} : calls'[d] = calls[d]
    BY <1>1, <2>1 DEF TypeOK, Idle
  <2>5. Selecting'
    BY <2>4 DEF Selecting
  <2>6. TypeOK'
    BY <1>1, <1>2, <2>1, <2>3, ActsType DEF TypeOK, histories, chart
  <2>7. (ChartInv /\ IntervalIsThere)'
    BY <2>5 DEF ChartInv, IntervalIsThere
  <2>8. IntervalIsAlone'
    BY <1>1, <1>2, <1>4, <1>6, <2>4 DEF IntervalIsAlone, IsSelecting, Selecting, Windows
  <2>9. QED
    BY <2>6, <2>7, <2>8 DEF DetailInv
<1>7. QED
  BY <1>5, <1>6

LEMMA OpenInv ==
  ASSUME DetailInv, NEW c \in Calls, NEW l \in Labels, openMetricDetailModal(c, l)
  PROVE  DetailInv'
<1>1. window \in Windows
  BY DEF DetailInv, TypeOK
<1>2. QED
  BY <1>1, SelectInv DEF openMetricDetailModal, CardIsThere

LEMMA SelectWindowInv ==
  ASSUME DetailInv, NEW c \in Calls, NEW w \in Windows, SelectWindow(c, w)
  PROVE  DetailInv'
<1>1. label \in Labels /\ health
  BY DEF DetailInv, TypeOK, ChartInv, SelectWindow
<1>2. QED
  BY <1>1, SelectInv DEF SelectWindow

LEMMA CloseInv == ASSUME DetailInv, closeMetricDetailModal PROVE DetailInv'
<1>1. TypeOK /\ label' = NoLabel /\ running' = running \ {refreshTimer}
  BY DEF DetailInv, closeMetricDetailModal, Stop
<1>2. TypeOK'
  BY <1>1, ActsType DEF TypeOK, closeMetricDetailModal, histories, chart
<1>3. (ChartInv /\ IntervalIsThere)'
  BY <1>1 DEF ChartInv, IntervalIsThere
<1>4. IntervalIsAlone'
  BY <1>1 DEF DetailInv, IntervalIsAlone, IsSelecting, Selecting, UserActs,
              closeMetricDetailModal
<1>5. QED
  BY <1>2, <1>3, <1>4 DEF DetailInv

-----------------------------------------------------------------------------
(* Answers and the interval.                                               *)
LEMMA AnswerInv ==
  ASSUME DetailInv, NEW c \in Calls, LongHistoryAnswered(c) PROVE DetailInv'
<1> DEFINE long == IF calls[c].ok THEN calls[c].data ELSE metricHistoryLong
<1>1. /\ TypeOK /\ label \in Labels \cup {NoLabel} /\ window \in Windows
      /\ metricHistory \in History /\ metricHistoryLong \in History
      /\ calls[c] \in CallType
  BY DEF DetailInv, TypeOK
<1>2. long \in History
  BY <1>1 DEF CallType
<1>3. /\ metricHistoryLong' = long
      /\ renderMetricDetailChart(label, window, metricHistory, long)
      /\ UNCHANGED <<samples, health, metricHistory, label, window, marker, acts, env>>
  BY DEF LongHistoryAnswered, selection
<1> HIDE DEF long
<1>4. /\ drawn' \in Chart \cup {NoChart}
      /\ trendCache' \in [Labels -> Chart \cup {NoChart}]
  BY <1>1, <1>2, <1>3, RenderTypes
<1>5. calls' = [calls EXCEPT ![c] = Idle]
  BY DEF LongHistoryAnswered
<1>6. calls' \in [Calls -> CallType]
  BY <1>1, <1>5, IdleType DEF TypeOK
<1>7. ~IsSelecting(c)' /\ \A d \in Calls \ {c} : calls'[d] = calls[d]
  BY <1>1, <1>5 DEF TypeOK, IsSelecting, Idle
<1>8. \/ /\ ~IsSelecting(c) /\ UNCHANGED timers
      \/ /\ IsSelecting(c)
         /\ \E t \in Timers \ running : refreshTimer' = t /\ running' = running \cup {t}
  BY DEF LongHistoryAnswered, IsSelecting
<1>9. TypeOK'
  BY <1>1, <1>2, <1>3, <1>4, <1>6, <1>8 DEF TypeOK, timers
<1>10. label # NoLabel => /\ drawn' = [label |-> label, window |-> window,
                             data |-> IF window = Narrow THEN metricHistory ELSE long]
                          /\ trendCache'[label] = drawn'
  BY <1>1, <1>3, RenderDraws
<1>11. ChartInv'
  BY <1>3, <1>10 DEF DetailInv, ChartInv, HistoryShown
<1>12. IntervalIsThere'
  BY <1>3, <1>7, <1>8 DEF DetailInv, IntervalIsThere, Selecting, IsSelecting, timers
<1>13. IntervalIsAlone'
  <2>1. CASE ~IsSelecting(c)
    BY <1>3, <1>7, <1>8, <2>1 DEF DetailInv, IntervalIsAlone, Selecting, IsSelecting, timers
  <2>2. CASE IsSelecting(c)
    <3>1. ~env.overlap => /\ running = {} /\ ~Selecting'
                          /\ label # NoLabel /\ window \in Wide
      BY <1>7, <2>2 DEF DetailInv, IntervalIsAlone, Selecting, IsSelecting
    <3>2. QED
      BY <1>3, <1>7, <1>8, <2>2, <3>1 DEF IntervalIsAlone, Selecting, IsSelecting
  <2>3. QED
    BY <2>1, <2>2
<1>14. QED
  BY <1>9, <1>11, <1>12, <1>13 DEF DetailInv

(* A call changes that fetches no window, before or after.                 *)
LEMMA CallInv ==
  ASSUME DetailInv, calls' \in [Calls -> CallType],
         \A d \in Calls : IsSelecting(d)' <=> IsSelecting(d),
         UNCHANGED <<samples, health, histories, selection, timers, chart, marker, acts, env>>
  PROVE  DetailInv'
<1>1. TypeOK'
  BY DEF DetailInv, TypeOK, histories, selection, timers, chart
<1>2. Selecting' <=> Selecting
  BY DEF Selecting, IsSelecting
<1>3. ChartInv'
  BY <1>2 DEF DetailInv, ChartInv, HistoryShown, histories, selection, chart
<1>4. (IntervalIsThere /\ IntervalIsAlone)'
  BY <1>2 DEF DetailInv, IntervalIsThere, IntervalIsAlone, selection, timers
<1>5. QED
  BY <1>1, <1>3, <1>4 DEF DetailInv

LEMMA IntervalInv ==
  ASSUME DetailInv, NEW c \in Calls, IntervalFires(c) PROVE DetailInv'
<1>1. calls[c] = Idle /\ calls' = [calls EXCEPT ![c] = [Idle EXCEPT !.by = "tick"]]
  BY DEF IntervalFires, refreshMetricHistoryLong
<1>2. [Idle EXCEPT !.by = "tick"] \in CallType
  BY IdleType DEF CallType, Idle
<1>3. calls \in [Calls -> CallType]
  BY DEF DetailInv, TypeOK
<1>4. calls' \in [Calls -> CallType]
  BY <1>1, <1>2, <1>3
<1>5. \A d \in Calls : IsSelecting(d)' <=> IsSelecting(d)
  BY <1>1, <1>3 DEF IsSelecting, Idle
<1>6. QED
  BY <1>4, <1>5, CallInv DEF IntervalFires

LEMMA NodeAnswersInv == ASSUME DetailInv, NEW c \in Calls, NodeAnswers(c) PROVE DetailInv'
<1>1. calls \in [Calls -> CallType] /\ samples \in History /\ 0 \in History
  BY ConstantsAssumption DEF ConstantsAssumption, DetailInv, TypeOK, History
<1>2. PICK ok \in BOOLEAN :
        calls' = [calls EXCEPT ![c].answered = TRUE, ![c].ok = ok,
                               ![c].data = IF ok THEN samples ELSE 0]
  BY DEF NodeAnswers
<1>3. (IF ok THEN samples ELSE 0) \in History
  BY <1>1
<1> DEFINE answer == [calls[c] EXCEPT !.answered = TRUE, !.ok = ok,
                                      !.data = IF ok THEN samples ELSE 0]
<1>4. calls[c] \in CallType
  BY <1>1
<1>5. answer \in CallType /\ answer.by = calls[c].by
  BY <1>3, <1>4 DEF CallType
<1>6. calls' = [calls EXCEPT ![c] = answer]
  BY <1>1, <1>2 DEF CallType
<1> HIDE DEF answer
<1>7. calls' \in [Calls -> CallType] /\ \A d \in Calls : calls'[d].by = calls[d].by
  BY <1>1, <1>5, <1>6
<1>8. QED
  BY <1>7, CallInv DEF NodeAnswers, IsSelecting

-----------------------------------------------------------------------------
(* The cursor, and the node's clock.                                       *)
LEMMA HoverInv == ASSUME DetailInv, handleMetricDetailHover PROVE DetailInv'
<1>1. marker' \in Chart \cup {NoChart}
  BY DEF DetailInv, TypeOK, handleMetricDetailHover
<1>2. TypeOK'
  BY <1>1 DEF DetailInv, TypeOK, handleMetricDetailHover, histories, selection, timers, chart
<1>3. (ChartInv /\ IntervalIsThere /\ IntervalIsAlone)'
  BY DEF DetailInv, ChartInv, HistoryShown, IntervalIsThere, IntervalIsAlone, IsSelecting,
         Selecting, handleMetricDetailHover, histories, selection, timers, chart
<1>4. QED
  BY <1>2, <1>3 DEF DetailInv

LEMMA OtherInv ==
  ASSUME DetailInv, handleMetricDetailLeave \/ NodeSamples \/ UNCHANGED vars
  PROVE  DetailInv'
<1>1. /\ UNCHANGED <<health, histories, selection, timers, calls, chart, acts, env>>
      /\ samples' \in History /\ marker' \in Chart \cup {NoChart}
  BY ConstantsAssumption
  DEF ConstantsAssumption, DetailInv, TypeOK, History, handleMetricDetailLeave, NodeSamples,
      vars
<1>2. TypeOK'
  BY <1>1 DEF DetailInv, TypeOK, histories, selection, timers, chart
<1>3. (ChartInv /\ IntervalIsThere /\ IntervalIsAlone)'
  BY <1>1 DEF DetailInv, ChartInv, HistoryShown, IntervalIsThere, IntervalIsAlone,
         IsSelecting, Selecting, histories, selection, timers, chart
<1>4. QED
  BY <1>2, <1>3 DEF DetailInv

LEMMA StepInv == ASSUME DetailInv, [Next]_vars PROVE DetailInv'
<1>1. CASE HistoryEvent \/ HealthEvent
  BY <1>1, HistoryEventInv, HealthEventInv
<1>2. CASE \E c \in Calls, l \in Labels : openMetricDetailModal(c, l)
  BY <1>2, OpenInv
<1>3. CASE \E c \in Calls, w \in Windows : SelectWindow(c, w)
  BY <1>3, SelectWindowInv
<1>4. CASE closeMetricDetailModal
  BY <1>4, CloseInv
<1>5. CASE \E c \in Calls : LongHistoryAnswered(c) \/ IntervalFires(c) \/ NodeAnswers(c)
  BY <1>5, AnswerInv, IntervalInv, NodeAnswersInv
<1>6. CASE handleMetricDetailHover
  BY <1>6, HoverInv
<1>7. CASE handleMetricDetailLeave \/ NodeSamples \/ UNCHANGED vars
  BY <1>7, OtherInv
<1>8. QED
  BY <1>1, <1>2, <1>3, <1>4, <1>5, <1>6, <1>7 DEF Next

(* The inductive invariant of the three theorems below.                    *)
THEOREM DetailInvariant == Spec => []DetailInv
  BY InitInv, StepInv, PTL DEF Spec

(* Whatever the user does, however fetches fail and in whichever order     *)
(* they are answered, an open dialog that is not waiting for a window      *)
(* shows the selected metric over the selected window.                     *)
THEOREM ChartIsSelected == Spec => []DrawnIsSelected
<1>1. DetailInv => DrawnIsSelected
  BY DEF DetailInv, ChartInv, HistoryShown, DrawnIsSelected
<1>2. QED
  BY <1>1, DetailInvariant, PTL

(* The interval is there when a wide dialog needs it; and for a user who   *)
(* waits for each window it is the only one and belongs to such a dialog.  *)
THEOREM IntervalBelongsToDialog == Spec => []OneIntervalPerWideDialog
<1>1. DetailInv => OneIntervalPerWideDialog
  BY DEF DetailInv, IntervalIsThere, IntervalIsAlone, OneIntervalPerWideDialog
<1>2. QED
  BY <1>1, DetailInvariant, PTL

(* Only the hover sets the marker, and it finds the chart on the screen.   *)
LEMMA MarkerStep ==
  ASSUME DetailInv, [Next]_vars, marker' # marker, marker' # NoChart, ~Selecting
  PROVE  marker' = drawn
<1>1. handleMetricDetailHover
  BY DEF Next, vars, HistoryEvent, HealthEvent, openMetricDetailModal, SelectWindow,
         closeMetricDetailModal, LongHistoryAnswered, IntervalFires, NodeAnswers,
         handleMetricDetailLeave, NodeSamples
<1>2. QED
  BY <1>1 DEF handleMetricDetailHover, DetailInv, ChartInv

(* The marker is put on a vertex of the line that is drawn.                *)
THEOREM MarkerIsOnLine == Spec => MarkerOnPolyline
<1>1. DetailInv /\ [Next]_vars
        => [(marker' # marker /\ marker' # NoChart /\ ~Selecting) => marker' = drawn]_vars
  BY MarkerStep
<1>2. QED
  BY <1>1, DetailInvariant, PTL DEF Spec, MarkerOnPolyline
=============================================================================
