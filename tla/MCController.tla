---------------------------- MODULE MCController ----------------------------
(* The controller's loop on small instances.                               *)
EXTENDS ControllerProps, TLC

CONSTANTS d1, d2, d3, r1, r2, nodseq, noreq

\* Deployments and request identities are interchangeable.
Symmetry == Permutations(DSeq) \cup Permutations(ReqID)
=============================================================================
