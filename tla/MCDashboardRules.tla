--------------------------- MODULE MCDashboardRules -------------------------
(* Times for the runs of DashboardRules.                                   *)
EXTENDS DashboardRules

(* The last samples may be younger than the browser's time.                *)
SampleTimes == 0..6
DrawTimes == {4, 5}
SampleReadings == {0, 1}
=============================================================================
