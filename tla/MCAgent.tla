------------------------------ MODULE MCAgent ------------------------------
(* The supervisor on small instances.                                      *)
EXTENDS AgentProps, TLC

CONSTANTS d1, d2, r1, p1, p2, nodseq, noreq, noproc

\* Deployments and processes are interchangeable; for safety only.
Symmetry == Permutations(DSeq) \cup Permutations(Procs)
=============================================================================
