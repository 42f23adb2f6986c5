---------------------------- MODULE MCAdoption ----------------------------
(***************************************************************************)
(* Environments and symmetry for the model checker.                        *)
(***************************************************************************)
EXTENDS Adoption, TLC

Calm == [losses |-> 0, late |-> FALSE, concurrent |-> FALSE,
         forget |-> FALSE, reset |-> FALSE, stop |-> FALSE,
         reload |-> FALSE, hotplug |-> FALSE]

(* Calls that time out before their handler has written, restarts,         *)
(* abandoned requests, failing reloads, hotplug events, forgetting.        *)
Faulty == [Calm EXCEPT !.losses = 1, !.late = TRUE, !.forget = TRUE,
                       !.stop = TRUE, !.reload = TRUE, !.hotplug = TRUE]

(* Two timeouts, none of them early, and nobody forgets the node.          *)
Lossy == [Faulty EXCEPT !.losses = 2, !.late = FALSE, !.forget = FALSE]

(* The same without hotplug events, and with an early timeout.             *)
Plain == [Lossy EXCEPT !.hotplug = FALSE]
Early == [Plain EXCEPT !.losses = 1, !.late = TRUE]

(* Overlapping sessions and resets.                                        *)
Crowded == [Calm EXCEPT !.losses = 1, !.concurrent = TRUE, !.reset = TRUE,
                        !.reload = TRUE]

(* All three calls of a session may time out.                              *)
Deaf == [Calm EXCEPT !.losses = 3]

SafetyEnvironments == {Faulty, Lossy, Plain, Early, Crowded, Deaf}

(* Sessions one after the other on a node that may forget and restart, and *)
(* a calm one that loses two of the three calls of a session.              *)
PromiseEnvironments ==
    {[Lossy EXCEPT !.forget = TRUE], [Calm EXCEPT !.losses = 2]}

SessionSymmetry == Permutations(Sessions)
=============================================================================
