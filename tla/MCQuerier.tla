----------------------------- MODULE MCQuerier ------------------------------
(***************************************************************************)
(* The files of all indexes of one or two words with four choices for the  *)
(* documents of each, document 3 out of the querier's range.  The count 6  *)
(* is one less than IntMax, so that sums of two of them overflow.          *)
(***************************************************************************)
EXTENDS Querier

CONSTANTS
  apple, banana,
  MaxTokens   \* bound: the tokens of a query

MCPostings ==
  {<<>>, <<Posting(1, 6)>>, <<Posting(2, 1), Posting(1, 1)>>, <<Posting(3, 1), Posting(2, 3)>>}

Entry(w, ps) == [word |-> w, postings |-> ps]

MCImages ==
  {<<Entry(apple, p)>> : p \in MCPostings}
    \cup {<<Entry(banana, p), Entry(apple, q)>> : p, q \in MCPostings}

\* The file of page 2 is cut before its first line.
MCDirectories ==
  {[d \in {1, 2} |-> [header |-> IF d = 1 THEN <<"url", 0, 0>> ELSE <<>>]]}

MCQueries == UNION {[1..n -> Tokens] : n \in 0..MaxTokens}

=============================================================================
