---------------------------- MODULE ServerLedger ----------------------------
(***************************************************************************)
(* What the controller promises about the server it buys, with no loop, no *)
(* git and no provider in sight: there is at most one deployment at a time *)
(* in which a server runs or is about to, and none is ever created that an *)
(* operator's ask does not pay for.  An ask pays for a bounded number of   *)
(* launches; anything else can only take some of them back.                *)
(***************************************************************************)
EXTENDS Naturals

CONSTANTS
    Deployment,     \* the deployments there may ever be
    MaxLaunches     \* the launches one ask authorises

VARIABLES
    held,           \* the deployments that hold, or will hold, a server
    credit          \* the launches that are authorised and not yet used

ledger == <<held, credit>>

Init == held = {} /\ credit = 0

\* An operator asks for a server.
Authorise == credit' = MaxLaunches /\ UNCHANGED held

\* The launch fails before it creates anything, or the ask is withdrawn.
Forgo == credit' \in 0 .. credit /\ UNCHANGED held

\* A deployment is created, which takes an authorised launch and an empty hand.
Acquire == /\ held = {} /\ credit > 0
           /\ \E d \in Deployment : held' = {d}
           /\ credit' = credit - 1

\* A deployment is closed, or its provider abandons it.
Release == held' \subseteq held /\ UNCHANGED credit

Next == Authorise \/ Forgo \/ Acquire \/ Release

Spec == Init /\ [][Next]_ledger
=============================================================================
