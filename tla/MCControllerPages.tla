-------------------------- MODULE MCControllerPages -------------------------
(* Environments for the runs of ControllerPages.                           *)
EXTENDS ControllerPages

Calm == [overlap |-> FALSE, fail |-> FALSE, others |-> FALSE, strict |-> FALSE,
         abrupt |-> FALSE]

(* Failing calls for a user who waits; a hasty user, others who change     *)
(* things and a tab that closes early; a development build.                *)
PageEnvironments ==
    {[Calm EXCEPT !.fail = TRUE],
     [Calm EXCEPT !.overlap = TRUE, !.others = TRUE, !.abrupt = TRUE],
     [Calm EXCEPT !.strict = TRUE]}
=============================================================================
