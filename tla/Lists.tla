------------------------------- MODULE Lists --------------------------------
(***************************************************************************)
(* Walks along a list that keep some of its entries.  SelectSeq says the   *)
(* same, but as a walk, entry by entry, that proofs can follow.            *)
(***************************************************************************)
EXTENDS Naturals, Sequences

\* The entries of s that are in S, in their order.
Keep(s, S) ==
    LET kept[i \in 0 .. Len(s)] ==
          IF i = 0 THEN <<>>
          ELSE IF s[i] \in S THEN Append(kept[i - 1], s[i]) ELSE kept[i - 1]
    IN  kept[Len(s)]
=============================================================================
