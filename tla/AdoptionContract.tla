-------------------------- MODULE AdoptionContract --------------------------
(***************************************************************************)
(* What adoption promises, without messages, files or retries: a node has  *)
(* at most one owner, which nothing but a reset (left out here) replaces,  *)
(* and the controller only ever stores the secret of the session that owns *)
(* the node.                                                               *)
(***************************************************************************)
CONSTANTS
    Sessions,  \* adoption attempts, each with its own fresh token
    Nobody     \* no owner, no stored secret

VARIABLES
    owner,    \* the session whose token the node accepts
    trusted   \* the session whose token the controller's registry holds

Init == owner = Nobody /\ trusted = Nobody

(* An unowned node accepts an adoption.                                    *)
Claim(s) == owner = Nobody /\ owner' = s /\ UNCHANGED trusted

(* The controller stores the secret of the owner.                          *)
Trust(s) == owner = s /\ trusted' = s /\ UNCHANGED owner

(* The controller forgets the node; the node keeps its owner.              *)
Drop == trusted' = Nobody /\ UNCHANGED owner

Next == Drop \/ \E s \in Sessions : Claim(s) \/ Trust(s)

Spec == Init /\ [][Next]_<<owner, trusted>>
=============================================================================
