--------------------------- MODULE MCFleetDialogs ---------------------------
(* Environments for the runs of FleetDialogs.                              *)
EXTENDS FleetDialogs

(* A patient user with failing calls, one who follows a link to a dialog,  *)
(* and one who moves on while things are pending.                          *)
DialogEnvironments ==
    {[deepLink |-> FALSE, wander |-> FALSE, fail |-> TRUE],
     [deepLink |-> TRUE, wander |-> FALSE, fail |-> FALSE],
     [deepLink |-> FALSE, wander |-> TRUE, fail |-> FALSE]}

(* Nothing is refused; the user moves on.                                  *)
WanderEnvironment == {[deepLink |-> FALSE, wander |-> TRUE, fail |-> FALSE]}
=============================================================================
