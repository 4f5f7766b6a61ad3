------------------------------- MODULE Filter -------------------------------
(***************************************************************************)
(* What a loop over a list has kept that appends each entry it keeps: the  *)
(* entries of seq at the places in S, in their order.                      *)
(***************************************************************************)
EXTENDS Integers, Sequences

\* After so many entries, and in the end.
KeptSoFar(seq, S) ==
    LET kept[n \in 0..Len(seq)] ==
            IF n = 0 THEN <<>> ELSE IF n \in S THEN Append(kept[n - 1], seq[n]) ELSE kept[n - 1]
    IN  kept
Kept(seq, S) == KeptSoFar(seq, S)[Len(seq)]
=============================================================================
