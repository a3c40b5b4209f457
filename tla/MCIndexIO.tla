----------------------------- MODULE MCIndexIO ------------------------------
(***************************************************************************)
(* Two words, documents 1 and 2, ints from -3 to 2, numbers to base 2.     *)
(***************************************************************************)
EXTENDS IndexIO, TLC

MCDocs == {0, 1, 2}
MCCounts == {-1, 1, 2}
MCNumbers == {-1, 1, 2, 6}

\* The words are interchangeable: no definition tells one from another.
WordSymmetry == Permutations(Words)

=============================================================================
