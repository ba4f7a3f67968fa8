--------------------------- MODULE SequenceFilter ---------------------------
(***************************************************************************)
(* What is left of a sequence when some of its values are taken out:       *)
(* Array.prototype.filter, and a Map whose entries are deleted one by one. *)
(* It is SelectSeq, as a function that proofs can unfold.                  *)
(***************************************************************************)
EXTENDS Naturals, Sequences

\* The elements of q that are in T, in their order.
Keep(q, T) ==
    LET kept[i \in 0 .. Len(q)] ==
            IF i = 0 THEN << >>
            ELSE IF q[i] \in T THEN Append(kept[i - 1], q[i])
            ELSE kept[i - 1]
    IN  kept[Len(q)]
=============================================================================
