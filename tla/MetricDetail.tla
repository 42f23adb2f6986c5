---------------------------- MODULE MetricDetail ----------------------------
(***************************************************************************)
(* The metric dialog of the node's dashboard page                          *)
(* (agent/internal/api/web/app.js): a chart of one metric over a window of *)
(* time. The narrow window is drawn from the history the event stream      *)
(* pushes, the wide ones from a longer history that is fetched when such a *)
(* window is selected and then once a minute by an interval timer.         *)
(*                                                                         *)
(* What matters of a history is which one it is: it is the number of the   *)
(* node's last sample in it, 0 while it is too short to draw. The geometry *)
(* of a chart is in DashboardRules.                                        *)
(***************************************************************************)
EXTENDS Integers, FiniteSets

CONSTANTS
    Labels,       \* metrics with a chart
    Narrow,       \* the window served by the stream, "10m"
    Wide,         \* the other windows
    Calls,        \* slots for fetches in flight; bounds their number
    NoLabel,      \* null for a label
    NoChart,      \* nothing is drawn
    MaxSamples,   \* bound on the samples the node takes
    MaxActs,      \* bound on what the user does
    Environments  \* what the surroundings may do, see EnvType

(* An environment: whether the user acts while a window is being fetched,  *)
(* and whether fetches fail.                                               *)
EnvType == [overlap : BOOLEAN, fail : BOOLEAN]

ASSUME ConstantsAssumption ==
    /\ NoLabel \notin Labels /\ Narrow \notin Wide
    /\ MaxSamples \in Nat /\ MaxActs \in Nat
    /\ Environments \subseteq EnvType

VARIABLES
    samples,             \* the node: number of its newest sample
    health,              \* state.health is there, so the cards are drawn
    metricHistory,       \* state.metricHistory
    metricHistoryLong,   \* state.metricHistoryLong
    label,               \* state.metricDetailLabel, the dialog is open
    window,              \* state.metricDetailWindow
    refreshTimer,        \* state.metricDetailRefreshTimer
    running,             \* intervals the browser runs
    calls,               \* fetches of the long history in flight
    drawn,               \* what the chart shows
    trendCache,          \* state.trendCache
    marker,              \* the chart the hover marker was taken from
    acts,                \* what the user may still do
    env                  \* the environment, fixed in a behaviour

histories == <<metricHistory, metricHistoryLong>>
selection == <<label, window>>
timers == <<refreshTimer, running>>
chart == <<drawn, trendCache>>
vars == <<samples, health, histories, selection, timers, calls, chart, marker, acts, env>>

-----------------------------------------------------------------------------
Windows == Wide \cup {Narrow}
NoTimer == 0
Timers == 1..MaxActs
History == 0..MaxSamples
Chart == [label : Labels, window : Windows, data : History]

(* by tells who waits for the answer: the selection of a window or a tick  *)
(* of the interval.                                                        *)
CallType == [by : {"none", "select", "tick"}, answered : BOOLEAN, ok : BOOLEAN,
             data : History]
Idle == [by |-> "none", answered |-> FALSE, ok |-> FALSE, data |-> 0]

Selecting == \E c \in Calls : calls[c].by = "select"

Init ==
    /\ env \in Environments
    /\ samples = 0 /\ health = FALSE
    /\ metricHistory = 0 /\ metricHistoryLong = 0
    /\ label = NoLabel /\ window = Narrow
    /\ refreshTimer = NoTimer /\ running = {}
    /\ calls = [c \in Calls |-> Idle]
    /\ drawn = NoChart /\ trendCache = [l \in Labels |-> NoChart]
    /\ marker = NoChart
    /\ acts = MaxActs

-----------------------------------------------------------------------------
(* renderMetricDetailChart draws the selected metric and window from the   *)
(* history that belongs to the window, and remembers what it drew.         *)
renderMetricDetailChart(lab, win, short, long) ==
    IF lab = NoLabel THEN UNCHANGED chart
    ELSE /\ drawn' = [label |-> lab, window |-> win,
                      data |-> IF win = Narrow THEN short ELSE long]
         /\ trendCache' = [trendCache EXCEPT ![lab] = drawn']

(* Mutant: the open dialog is not redrawn.                                 *)
renderHealth_CardsOnly(short) == UNCHANGED chart

(* The cards are drawn anew; an open dialog on the narrow window follows.  *)
renderHealth(short) ==
    IF window = Narrow
    THEN renderMetricDetailChart(label, window, short, metricHistoryLong)
    ELSE UNCHANGED chart

HistoryEvent ==
    /\ metricHistory' = samples
    /\ IF health THEN renderHealth(samples) ELSE UNCHANGED chart
    /\ UNCHANGED <<samples, health, metricHistoryLong, selection, timers, calls,
                   marker, acts, env>>

HealthEvent ==
    /\ health' = TRUE
    /\ renderHealth(metricHistory)
    /\ UNCHANGED <<samples, histories, selection, timers, calls, marker, acts, env>>

-----------------------------------------------------------------------------
Stop(t) == running' = running \ {t}

refreshMetricHistoryLong(c, by) ==
    /\ calls[c] = Idle
    /\ calls' = [calls EXCEPT ![c] = [Idle EXCEPT !.by = by]]

(* selectMetricDetailWindow up to its await: the interval of the window    *)
(* before is stopped, the narrow window is drawn at once.                  *)
selectMetricDetailWindow(c, lab, win) ==
    /\ label' = lab /\ window' = win
    /\ refreshTimer' = NoTimer /\ Stop(refreshTimer)
    /\ IF win = Narrow
       THEN /\ renderMetricDetailChart(lab, win, metricHistory, metricHistoryLong)
            /\ UNCHANGED calls
       ELSE refreshMetricHistoryLong(c, "select") /\ UNCHANGED chart

UserActs ==
    /\ acts > 0 /\ acts' = acts - 1
    /\ env.overlap \/ ~Selecting

(* The cards are drawn with the first health event; the dialog covers them. *)
CardIsThere == health /\ label = NoLabel

openMetricDetailModal(c, l) ==
    /\ UserActs
    /\ CardIsThere
    /\ selectMetricDetailWindow(c, l, window)
    /\ UNCHANGED <<samples, health, histories, marker, env>>

(* A button of the dialog.                                                 *)
SelectWindow(c, w) ==
    /\ UserActs
    /\ label # NoLabel
    /\ selectMetricDetailWindow(c, label, w)
    /\ UNCHANGED <<samples, health, histories, marker, env>>

(* Mutant: the interval runs on.                                           *)
closeMetricDetailModal_KeepTimer ==
    /\ UserActs
    /\ label # NoLabel
    /\ label' = NoLabel
    /\ UNCHANGED <<samples, health, histories, window, timers, calls, chart, marker,
                   env>>

(* The close button, a click beside the dialog, Escape.                    *)
closeMetricDetailModal ==
    /\ UserActs
    /\ label # NoLabel
    /\ label' = NoLabel
    /\ refreshTimer' = NoTimer /\ Stop(refreshTimer)
    /\ UNCHANGED <<samples, health, histories, window, calls, chart, marker, env>>

(* Mutant: a tick only fetches.                                            *)
LongHistoryAnswered_NoDraw(c) ==
    /\ calls[c].answered
    /\ calls' = [calls EXCEPT ![c] = Idle]
    /\ LET long == IF calls[c].ok THEN calls[c].data ELSE metricHistoryLong
       IN /\ metricHistoryLong' = long
          /\ IF calls[c].by = "select"
             THEN renderMetricDetailChart(label, window, metricHistory, long)
             ELSE UNCHANGED chart
    /\ IF calls[c].by = "select"
       THEN \E t \in Timers \ running : refreshTimer' = t /\ running' = running \cup {t}
       ELSE UNCHANGED timers
    /\ UNCHANGED <<samples, health, metricHistory, selection, marker, acts, env>>

(* The fetch is answered: whatever is selected now is drawn, and the       *)
(* function that selected a window starts its interval.                    *)
LongHistoryAnswered(c) ==
    /\ calls[c].answered
    /\ calls' = [calls EXCEPT ![c] = Idle]
    /\ LET long == IF calls[c].ok THEN calls[c].data ELSE metricHistoryLong
       IN /\ metricHistoryLong' = long
          /\ renderMetricDetailChart(label, window, metricHistory, long)
    /\ IF calls[c].by = "select"
       THEN \E t \in Timers \ running : refreshTimer' = t /\ running' = running \cup {t}
       ELSE UNCHANGED timers
    /\ UNCHANGED <<samples, health, metricHistory, selection, marker, acts, env>>

(* A running interval fires.                                               *)
IntervalFires(c) ==
    /\ running # {}
    /\ refreshMetricHistoryLong(c, "tick")
    /\ UNCHANGED <<samples, health, histories, selection, timers, chart, marker, acts,
                   env>>

-----------------------------------------------------------------------------
(* Mutant: the marker of the metric that was shown before.                 *)
handleMetricDetailHover_Any ==
    /\ label # NoLabel
    /\ \E l \in Labels :
         marker' = IF trendCache[l] = NoChart \/ trendCache[l].data = 0
                   THEN NoChart ELSE trendCache[l]
    /\ UNCHANGED <<samples, health, histories, selection, timers, calls, chart, acts, env>>

(* The cursor moves over the chart: the marker snaps to a vertex of what   *)
(* was last drawn for the metric.                                          *)
handleMetricDetailHover ==
    /\ label # NoLabel
    /\ marker' = IF trendCache[label] = NoChart \/ trendCache[label].data = 0
                 THEN NoChart ELSE trendCache[label]
    /\ UNCHANGED <<samples, health, histories, selection, timers, calls, chart, acts, env>>

(* The cursor leaves the plotted area or the chart.                        *)
handleMetricDetailLeave ==
    /\ marker' = NoChart
    /\ UNCHANGED <<samples, health, histories, selection, timers, calls, chart, acts, env>>

-----------------------------------------------------------------------------
(* The node answers with the history it has.                               *)
NodeAnswers(c) ==
    /\ calls[c].by # "none" /\ ~calls[c].answered
    /\ \E ok \in IF env.fail THEN BOOLEAN ELSE {TRUE} :
         calls' = [calls EXCEPT ![c].answered = TRUE, ![c].ok = ok,
                                ![c].data = IF ok THEN samples ELSE 0]
    /\ UNCHANGED <<samples, health, histories, selection, timers, chart, marker, acts,
                   env>>

NodeSamples ==
    /\ samples < MaxSamples
    /\ samples' = samples + 1
    /\ UNCHANGED <<health, histories, selection, timers, calls, chart, marker, acts, env>>

Next ==
    \/ HistoryEvent
    \/ HealthEvent
    \/ \E c \in Calls :
         \/ \E l \in Labels : openMetricDetailModal(c, l)
         \/ \E w \in Windows : SelectWindow(c, w)
         \/ NodeAnswers(c)
         \/ LongHistoryAnswered(c)
         \/ IntervalFires(c)
    \/ closeMetricDetailModal
    \/ handleMetricDetailHover
    \/ handleMetricDetailLeave
    \/ NodeSamples

Spec == Init /\ [][Next]_vars

(* Fetches are answered and intervals fire.                                *)
Fairness ==
    /\ WF_vars(\E c \in Calls : IntervalFires(c))
    /\ \A c \in Calls : WF_vars(NodeAnswers(c)) /\ WF_vars(LongHistoryAnswered(c))

FairSpec == Spec /\ Fairness

-----------------------------------------------------------------------------
(* The types of the variables.                                             *)
TypeOK ==
    /\ samples \in History /\ health \in BOOLEAN
    /\ metricHistory \in History /\ metricHistoryLong \in History
    /\ label \in Labels \cup {NoLabel} /\ window \in Windows
    /\ refreshTimer \in Timers \cup {NoTimer} /\ running \subseteq Timers
    /\ calls \in [Calls -> CallType]
    /\ drawn \in Chart \cup {NoChart} /\ marker \in Chart \cup {NoChart}
    /\ trendCache \in [Labels -> Chart \cup {NoChart}]
    /\ acts \in 0..MaxActs /\ env \in EnvType

(* renderMetricDetailChart is called from events, answers, ticks and       *)
(* buttons, and each caller relies on the others for what it does not      *)
(* redraw. Unless a window is still being fetched, the open dialog shows   *)
(* the selected metric and window with the newest history of that window   *)
(* the page has.                                                           *)
DrawnIsSelected ==
    (label # NoLabel /\ ~Selecting)
      => drawn = [label |-> label, window |-> window,
                  data |-> IF window = Narrow THEN metricHistory ELSE metricHistoryLong]

(* The refresh interval exists for a dialog that is open on a wide window  *)
(* (app.js:69-72). There is one whenever such a dialog is waiting for      *)
(* nothing. Another one, or one for nothing, is left behind only by a user *)
(* who closed the dialog or switched windows while one was being fetched.  *)
OneIntervalPerWideDialog ==
    /\ (label # NoLabel /\ window \in Wide /\ ~Selecting) => refreshTimer \in running
    /\ ~env.overlap => /\ running \subseteq {refreshTimer}
                       /\ running # {} => label # NoLabel /\ window \in Wide

(* The marker lands on a vertex of the polyline that is drawn              *)
(* (app.js:58-62) when the cursor moves, unless a window is being fetched: *)
(* then what was drawn for this metric earlier may not be what is on the   *)
(* chart.                                                                  *)
MarkerOnPolyline ==
    [][(marker' # marker /\ marker' # NoChart /\ ~Selecting) => marker' = drawn]_vars

(* A dialog left open on a wide window ends up showing the node's samples, *)
(* even if fetches were answered out of order.                             *)
WideChartCatchesUp ==
    \A n \in History :
      <>[](~env.fail /\ samples = n /\ label # NoLabel /\ window \in Wide)
        => <>[](drawn # NoChart /\ drawn.data = n)
=============================================================================
