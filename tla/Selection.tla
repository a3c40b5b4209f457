------------------------------ MODULE Selection -----------------------------
(***************************************************************************)
(* The elements of a sequence that are in a set, in their order.  It is    *)
(* SelectSeq with the test as a set, written as a recursive function that  *)
(* proofs can reason about.                                                *)
(***************************************************************************)
EXTENDS Integers, Sequences

Selected(s, T) ==
  LET kept[i \in 0..Len(s)] ==
        IF i = 0 THEN <<>>
        ELSE IF s[i] \in T THEN Append(kept[i - 1], s[i]) ELSE kept[i - 1]
  IN  kept[Len(s)]

=============================================================================
