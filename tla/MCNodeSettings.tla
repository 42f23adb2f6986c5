--------------------------- MODULE MCNodeSettings ---------------------------
(***************************************************************************)
(* Environments and symmetry for the model checker.                        *)
(***************************************************************************)
EXTENDS NodeSettings, TLC

Serial == [concurrent |-> FALSE, restart |-> FALSE, reboot |-> FALSE,
           fail |-> FALSE, passwords |-> Passwords]

Overlapping == [Serial EXCEPT !.concurrent = TRUE,
                              !.passwords = {CHOOSE p \in Passwords : TRUE}]

(* Everything goes wrong; only reboots strike; requests overlap.           *)
SafetyEnvironments ==
    {[Serial EXCEPT !.restart = TRUE, !.reboot = TRUE, !.fail = TRUE],
     [Serial EXCEPT !.reboot = TRUE],
     Overlapping}

HandlerSymmetry == Permutations(Handlers)
=============================================================================
