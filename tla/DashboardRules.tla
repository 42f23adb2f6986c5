--------------------------- MODULE DashboardRules ---------------------------
(***************************************************************************)
(* What the two dashboards compute from the records they are given: how    *)
(* alarming a UPS status is, the numbers above the controller's fleet and  *)
(* the cards below them (controller/web/src: lib/format.ts, FleetPage,     *)
(* NodeCard), the charts of UPS history (ChartCard) and the charts of the  *)
(* node's metrics, with the marker that follows the pointer                *)
(* (agent/internal/api/web/app.js).                                        *)
(*                                                                         *)
(* A behaviour is given one set of records, draws it, and moves the        *)
(* pointer. Time and the horizontal position in a chart have the same      *)
(* unit, so a plot is as wide as its window is long; the vertical position *)
(* is the distance from the smallest value. Colours and wording are not    *)
(* modelled. A filter is modelled by the positions it keeps, and a sorted  *)
(* or reversed array by the order of its positions. The module is extended *)
(* together with NodeDashboard: the usual names have a prefix of its own.  *)
(***************************************************************************)
EXTENDS Integers, FiniteSets, SequencesExt

CONSTANTS
    ErrorTokens, WarningTokens, OKTokens,  \* UPS_STATUS_ERROR, _WARNING, _OK
    OtherTokens,   \* tokens NUT may report that are in none of the three
    MaxTokens,     \* bound on the tokens of a status
    MaxNodes,      \* bound on the nodes of the fleet
    Times,         \* times of samples
    Ends,          \* times at which a chart is drawn
    Readings,      \* values of samples
    NoValue,       \* a sample without a usable value
    MaxSamples,    \* bound on the samples
    WindowLength,  \* what METRIC_DETAIL_WINDOWS says of the window
    TickInterval,  \* what METRIC_DETAIL_TICK_INTERVALS_MS says of it
    Nothing        \* no chart, no marker

CommsStates == {"unknown", "healthy", "degraded", "offline"}

ASSUME RulesAssumption ==
    /\ ErrorTokens \cap (WarningTokens \cup OKTokens) = {}
    /\ WarningTokens \cap OKTokens = {}
    /\ OtherTokens \cap (ErrorTokens \cup WarningTokens \cup OKTokens) = {}
    /\ Times \subseteq Nat /\ Ends \subseteq Nat /\ Readings \subseteq Int
    /\ NoValue \notin Readings
    /\ MaxTokens \in Nat /\ MaxNodes \in Nat /\ MaxSamples \in Nat
    /\ WindowLength \in Nat \ {0} /\ TickInterval \in Nat \ {0}
    /\ Nothing \notin CommsStates \cup {"adopted-online", "adopted-offline"}

VARIABLES
    page,      \* what is on the screen: "fleet", "ups" or "metric"
    nodes,     \* the fleet, as the controller serves it
    samples,   \* the samples, as they are served
    end,       \* the browser's time
    drawn,     \* what was computed from them
    pointer,   \* where the pointer is
    marker     \* the vertex that is marked

given == <<page, nodes, samples, end>>
rulesVars == <<given, drawn, pointer, marker>>

-----------------------------------------------------------------------------
Tokens == ErrorTokens \cup WarningTokens \cup OKTokens \cup OtherTokens
Statuses == BoundedSeq(Tokens, MaxTokens)

(* toNodeResponse: only adopted nodes are polled; ups holds the statuses   *)
(* of the node's UPSes.                                                    *)
NodeRecord == {n \in [adopted : BOOLEAN, live : BOOLEAN, comms : CommsStates,
                      ups : BoundedSeq(Statuses, 1)] :
                 ~n.adopted => n.comms = "unknown"}
Status(n) == CASE ~n.adopted -> "pending"
               [] n.adopted /\ n.live -> "adopted-online"
               [] n.adopted /\ ~n.live -> "adopted-offline"

Sample == [at : Times, value : Readings \cup {NoValue}]
NewestFirst(s) == \A i, j \in DOMAIN s : i < j => s[i].at >= s[j].at

RulesInit ==
    /\ \/ /\ page = "fleet"
          /\ nodes \in BoundedSeq(NodeRecord, MaxNodes)
          /\ samples = <<>>
       \/ /\ page = "ups"
          /\ samples \in {s \in BoundedSeq(Sample, MaxSamples) : NewestFirst(s)}
          /\ nodes = <<>>
       \/ /\ page = "metric"
          /\ samples \in BoundedSeq(Sample, MaxSamples)
          /\ nodes = <<>>
    /\ end \in IF page = "metric" THEN Ends ELSE {0}
    /\ drawn = Nothing /\ marker = Nothing /\ pointer = -1

-----------------------------------------------------------------------------
(* How alarming a status is.                                               *)

(* Mutant: a harmless token after a warning makes up for it.               *)
TakeToken_LastWins(severity, token) ==
    CASE severity = "error" \/ token \in ErrorTokens -> "error"
      [] severity # "error" /\ token \in WarningTokens -> "warning"
      [] severity # "error" /\ token \in OKTokens -> "success"
      [] OTHER -> severity

(* One turn of the loop; after an error it has returned.                   *)
TakeToken(severity, token) ==
    CASE severity = "error" \/ token \in ErrorTokens -> "error"
      [] severity # "error" /\ token \in WarningTokens -> "warning"
      [] severity = "default" /\ token \in OKTokens -> "success"
      [] OTHER -> severity

statusToSeverity(status) ==
    LET severity[i \in 0..Len(status)] ==
          IF i = 0 THEN "default" ELSE TakeToken(severity[i - 1], status[i])
    IN severity[Len(status)]

commsStateToSeverity(comms) ==
    CASE comms = "healthy" -> "success"
      [] comms = "degraded" -> "warning"
      [] comms = "offline" -> "error"
      [] OTHER -> "default"

-----------------------------------------------------------------------------
(* The fleet page.                                                         *)
Alarming(ups) ==
    {j \in DOMAIN ups : statusToSeverity(ups[j]) \in {"error", "warning"}}

offlineNodes ==
    {i \in DOMAIN nodes : \/ Status(nodes[i]) = "adopted-offline"
                          \/ commsStateToSeverity(nodes[i].comms) = "error"}
degradedNodes ==
    {i \in DOMAIN nodes : commsStateToSeverity(nodes[i].comms) = "warning"}
upsAttention == UNION {{i} \X Alarming(nodes[i].ups) : i \in DOMAIN nodes}
alertCount == Cardinality(offlineNodes) + Cardinality(degradedNodes)
                + Cardinality(upsAttention)

(* Mutant: the row is left out for every node that is online.              *)
NodeCard_OnlineNeedsNoRow(n) ==
    [chip |-> IF Status(n) = "pending" THEN Nothing ELSE Status(n),
     comms |-> IF Status(n) \in {"pending", "adopted-online"} THEN Nothing ELSE n.comms,
     alerting |-> Alarming(n.ups)]

(* A card has a chip, a row about communications unless they are healthy   *)
(* or never began, and a list of alarming UPSes.                           *)
NodeCard(n) ==
    [chip |-> IF Status(n) = "pending" THEN Nothing ELSE Status(n),
     comms |-> IF \/ Status(n) = "pending"
                  \/ Status(n) = "adopted-online" /\ n.comms = "healthy"
               THEN Nothing ELSE n.comms,
     alerting |-> Alarming(n.ups)]

FleetPage ==
    [nodes |-> Len(nodes), offline |-> Cardinality(offlineNodes),
     alerts |-> alertCount,
     cards |-> [i \in DOMAIN nodes |-> NodeCard(nodes[i])]]

DrawFleet ==
    /\ page = "fleet" /\ drawn = Nothing
    /\ drawn' = FleetPage
    /\ UNCHANGED <<given, pointer, marker>>

-----------------------------------------------------------------------------
(* The charts.                                                             *)
Usable(s) == {i \in DOMAIN s : s[i].value # NoValue}

(* Orders of the positions; Array.prototype.sort keeps equals in place.    *)
AsServed(s) == {p \in (DOMAIN s) \X (DOMAIN s) : p[1] <= p[2]}
Reversed(s) == {p \in (DOMAIN s) \X (DOMAIN s) : p[2] <= p[1]}
ByTime(s) == {p \in (DOMAIN s) \X (DOMAIN s) :
                \/ s[p[1]].at < s[p[2]].at
                \/ s[p[1]].at = s[p[2]].at /\ p[1] <= p[2]}

(* The elements of s at the positions K, in the order R.                   *)
Arrange(s, K, R) ==
    LET place == [k \in K |-> Cardinality({j \in K : <<j, k>> \in R})]
    IN [i \in 1..Cardinality(K) |-> s[CHOOSE k \in K : place[k] = i]]

ValuesOf(s) == {s[i].value : i \in DOMAIN s}
Least(s) == CHOOSE v \in ValuesOf(s) : \A w \in ValuesOf(s) : v <= w
Greatest(s) == CHOOSE v \in ValuesOf(s) : \A w \in ValuesOf(s) : w <= v

(* Mutant: the order of the answer is kept.                                *)
toChartSeries_AsServed(s) == Arrange(s, Usable(s), AsServed(s))

(* The history of a UPS is served newest first and drawn oldest first.     *)
toChartSeries(s) == Arrange(s, Usable(s), Reversed(s))

(* The text that stands for the chart.                                     *)
summarizeSeries(s) ==
    IF s = <<>> THEN Nothing
    ELSE [latest |-> Last(s).value, latestAt |-> Last(s).at,
          min |-> Least(s), max |-> Greatest(s), count |-> Len(s)]

DrawUPS ==
    /\ page = "ups" /\ drawn = Nothing
    /\ drawn' = summarizeSeries(toChartSeries(samples))
    /\ drawn' # Nothing
    /\ UNCHANGED <<given, pointer, marker>>

(* The preview on a card of the node's dashboard: one step per sample.     *)
buildSparkline(s) ==
    LET plotted == Arrange(s, Usable(s), AsServed(s))
    IN IF Len(plotted) < 2 THEN Nothing
       ELSE [i \in DOMAIN plotted |->
               [x |-> i - 1, y |-> plotted[i].value - Least(plotted)]]

(* Mutant: one step per sample, as in the preview.                         *)
buildTimeSeriesChart_Uniform(s, start) ==
    LET plotted == Arrange(s, Usable(s), ByTime(s))
    IN IF Len(plotted) < 2 THEN Nothing
       ELSE [i \in DOMAIN plotted |->
               [at |-> plotted[i].at, value |-> plotted[i].value,
                x |-> i - 1, y |-> plotted[i].value - Least(plotted)]]

(* The chart of the dialog: x is the time since the start.                 *)
buildTimeSeriesChart(s, start) ==
    LET plotted == Arrange(s, Usable(s), ByTime(s))
    IN IF Len(plotted) < 2 THEN Nothing
       ELSE [i \in DOMAIN plotted |->
               [at |-> plotted[i].at, value |-> plotted[i].value,
                x |-> plotted[i].at - start, y |-> plotted[i].value - Least(plotted)]]

(* Gridlines at whole multiples of the interval.                           *)
computeTimeTicks(start, stop) ==
    LET first == ((start + TickInterval - 1) \div TickInterval) * TickInterval
        count == IF first > stop THEN 0 ELSE (stop - first) \div TickInterval + 1
    IN [i \in 1..count |-> first + (i - 1) * TickInterval]

renderMetricDetailChart ==
    LET start == end - WindowLength
        recent == Arrange(samples, {i \in DOMAIN samples : samples[i].at >= start},
                          AsServed(samples))
    IN [preview |-> buildSparkline(samples),
        plotted |-> buildTimeSeriesChart(recent, start),
        xTicks |-> [i \in DOMAIN computeTimeTicks(start, end) |->
                      [at |-> computeTimeTicks(start, end)[i],
                       x |-> computeTimeTicks(start, end)[i] - start]]]

DrawMetric ==
    /\ page = "metric" /\ drawn = Nothing
    /\ drawn' = renderMetricDetailChart
    /\ UNCHANGED <<given, pointer, marker>>

(* The first of those that are nearest.                                    *)
Distance(a, b) == IF a < b THEN b - a ELSE a - b
Nearest(places, p) ==
    CHOOSE i \in DOMAIN places : \A j \in DOMAIN places :
      \/ Distance(places[i], p) < Distance(places[j], p)
      \/ Distance(places[i], p) = Distance(places[j], p) /\ i <= j
NearestTick(p) ==
    LET ticks == drawn.xTicks
    IN ticks[Nearest([i \in DOMAIN ticks |-> ticks[i].x], p)]
NearestSample(t) ==
    LET line == drawn.plotted
    IN line[Nearest([i \in DOMAIN line |-> line[i].at], t.at)]

(* The pointer is snapped to a gridline, and the gridline to a sample.     *)
Mark(p) ==
    IF p \in 0..WindowLength /\ drawn.xTicks # <<>> /\ drawn.plotted # Nothing
    THEN NearestSample(NearestTick(p)) ELSE Nothing

handleMetricDetailHover(p) ==
    /\ page = "metric" /\ drawn # Nothing /\ p # pointer
    /\ pointer' = p
    /\ marker' = Mark(p)
    /\ UNCHANGED <<given, drawn>>

RulesNext ==
    \/ DrawFleet \/ DrawUPS \/ DrawMetric
    \/ \E p \in -1..(WindowLength + 1) : handleMetricDetailHover(p)

RulesSpec == RulesInit /\ [][RulesNext]_rulesVars

-----------------------------------------------------------------------------
(* "report the most severe token present" (format.ts:7-8), wherever in the *)
(* status it stands: what a warning before or after an OK does to it.      *)
MostSevere(tokens) ==
    LET has(T) == tokens \cap T # {}
    IN CASE has(ErrorTokens) -> "error"
         [] ~has(ErrorTokens) /\ has(WarningTokens) -> "warning"
         [] ~has(ErrorTokens \cup WarningTokens) /\ has(OKTokens) -> "success"
         [] OTHER -> "default"
SeverityIsMostSevere ==
    \A i \in DOMAIN nodes : \A j \in DOMAIN nodes[i].ups :
      statusToSeverity(nodes[i].ups[j]) = MostSevere(Range(nodes[i].ups[j]))

(* Each alert the number above the fleet counts can be found on a card,    *)
(* and is counted once: a node that is offline by its chip or by its row,  *)
(* one whose row says degraded, each UPS in a card's list. Page and card   *)
(* decide separately.                                                      *)
AlertsAreOnCards ==
    page = "fleet" /\ drawn # Nothing =>
      LET cards == drawn.cards
          offline == {i \in DOMAIN cards : \/ cards[i].chip = "adopted-offline"
                                           \/ cards[i].comms = "offline"}
          degraded == {i \in DOMAIN cards : cards[i].comms = "degraded"}
          rows == UNION {{i} \X cards[i].alerting : i \in DOMAIN cards}
      IN /\ drawn.offline = Cardinality(offline)
         /\ drawn.alerts = Cardinality(offline) + Cardinality(degraded) + Cardinality(rows)

(* Every chart ends with the newest usable sample, whatever order the      *)
(* samples are served in (newest first by the controller, oldest first by  *)
(* the node unless its clock was set back); the preview, which keeps the   *)
(* order, only does while the node's clock was not set back.               *)
ChartsEndWithNewest ==
    LET usable == Usable(samples)
        newest == {k \in usable : \A i \in usable : samples[i].at <= samples[k].at}
    IN drawn # Nothing =>
         /\ page = "ups" =>
              \E k \in newest : /\ drawn.latestAt = samples[k].at
                                /\ drawn.latest = samples[k].value
         /\ (page = "metric" /\ drawn.plotted # Nothing) =>
              \E k \in newest : /\ Last(drawn.plotted).at = samples[k].at
                                /\ Last(drawn.plotted).value = samples[k].value
         /\ (/\ page = "metric" /\ drawn.preview # Nothing
             /\ \A i, j \in DOMAIN samples : i < j => samples[i].at <= samples[j].at) =>
              \E k \in newest : Last(drawn.preview).y
                                 = samples[k].value - Least([i \in usable |-> samples[i]])

(* The marker is at a vertex of the line, at one that no other is closer   *)
(* to the gridline than, and moving the pointer to the right never moves   *)
(* it to the left, although it is snapped twice.                           *)
HoverFollowsPointer ==
    [][marker' # Nothing =>
         /\ \A i \in DOMAIN drawn.plotted :
              Distance(marker'.x, NearestTick(pointer').x)
                <= Distance(drawn.plotted[i].x, NearestTick(pointer').x)
         /\ (marker # Nothing /\ pointer <= pointer') => marker.x <= marker'.x]_rulesVars
=============================================================================
