-------------------------- MODULE ReleaseContract --------------------------
(***************************************************************************)
(* What the release slots promise, without binaries, pending.json, budgets *)
(* or crashes: the node moves up one release at a time, always with the    *)
(* one it leaves as its fallback; it accepts a release only while it holds *)
(* it, or a newer one both as active and as fallback; and it falls back    *)
(* only from a release it has not accepted. So it never runs out of its    *)
(* slots below a release it has accepted.                                  *)
(***************************************************************************)
EXTENDS Naturals

CONSTANTS
    Releases,  \* versions, ordered as naturals
    None       \* below every release

VARIABLES
    active,    \* the release the node starts in, or None
    fallback,  \* the release a rollback returns to, or None
    accepted   \* releases that have proved healthy

Init == active = None /\ fallback = None /\ accepted = {}

(* The active release becomes the fallback, ahead of an upgrade.           *)
Promote ==
    /\ active # None
    /\ fallback' = active
    /\ UNCHANGED <<active, accepted>>

(* An upgrade, of nothing else than what was promoted.                     *)
Upgrade(v) ==
    /\ v > active
    /\ active \in {None, fallback}
    /\ active' = v
    /\ UNCHANGED <<fallback, accepted>>

(* A release is accepted while no rollback can take the node below it.     *)
Accept(v) ==
    /\ v <= active
    /\ v = active \/ v <= fallback
    /\ accepted' = accepted \cup {v}
    /\ UNCHANGED <<active, fallback>>

(* The active release is given up for the fallback.                        *)
Rollback ==
    /\ active \notin accepted
    /\ active' = fallback
    /\ UNCHANGED <<fallback, accepted>>

Next ==
    \/ Promote
    \/ Rollback
    \/ \E v \in Releases : Upgrade(v) \/ Accept(v)

Spec == Init /\ [][Next]_<<active, fallback, accepted>>

(* Neither the active release nor what a rollback of an unaccepted one     *)
(* returns to is below a release the node has accepted.                    *)
AcceptedIsKept ==
    \A v \in accepted : v <= active /\ (v = active \/ v <= fallback)
=============================================================================
