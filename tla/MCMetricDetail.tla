--------------------------- MODULE MCMetricDetail ---------------------------
(* Environments for the run of MetricDetail.                               *)
EXTENDS MetricDetail

(* The user waits for each window or does not; fetches work or fail.       *)
DetailEnvironments ==
    {[overlap |-> FALSE, fail |-> TRUE], [overlap |-> TRUE, fail |-> FALSE],
     [overlap |-> TRUE, fail |-> TRUE]}
=============================================================================
