-------------------------- MODULE MCNodeDashboard --------------------------
(* Environments for the runs of NodeDashboard.                             *)
EXTENDS NodeDashboard

(* With the stream: nothing goes wrong; the user overtakes slow answers;   *)
(* UPSes come and go and calls fail. And once without the stream.          *)
DashboardEnvironments ==
    {[sse |-> TRUE, unplug |-> FALSE, overlap |-> FALSE, fail |-> FALSE],
     [sse |-> TRUE, unplug |-> FALSE, overlap |-> TRUE, fail |-> FALSE],
     [sse |-> TRUE, unplug |-> TRUE, overlap |-> TRUE, fail |-> TRUE],
     [sse |-> FALSE, unplug |-> FALSE, overlap |-> TRUE, fail |-> TRUE]}
=============================================================================
