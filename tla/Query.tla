-------------------------------- MODULE Query -------------------------------
(***************************************************************************)
(* A query of querier/query.c as a value: parse_query turns a sequence of  *)
(* tokens into sequences of words, which are alternatives, and             *)
(* process_query ranks a document by the counts of the words in it.        *)
(***************************************************************************)
EXTENDS Index, FiniteSets

CONSTANTS
  And, Or,   \* the tokens "and" and "or"
  Long,      \* words of three letters and more
  Short,     \* shorter ones
  Bad,       \* tokens with any other character than letters
  MAX_WORDS,
  Invalid    \* parse_query returns false

\* A long word is not an operator and not short.
ASSUME QueryAssumption ==
  /\ MAX_WORDS \in Nat \ {0}
  /\ Long \cap ({And, Or} \cup Short) = {}
  /\ Invalid \notin Seq(Seq(Long))

Operators == {And, Or}
Tokens == Operators \cup Long \cup Short \cup Bad

\* The tokens that strtok hands out before the array is full.
Taken(toks) == SubSeq(toks, 1, IF Len(toks) < MAX_WORDS THEN Len(toks) ELSE MAX_WORDS)

\* Faulty variant: an operator may follow an operator.
WordLaxly(toks, seqs, i) ==
  IF seqs = Invalid THEN Invalid
  ELSE IF toks[i] \in Operators
  THEN IF Last(seqs) = <<>> THEN Invalid
       ELSE IF toks[i] = Or THEN Append(seqs, <<>>) ELSE seqs
  ELSE IF toks[i] \in Short THEN seqs
  ELSE [seqs EXCEPT ![Len(seqs)] = Append(@, toks[i])]

\* Token i in the main loop of parse_query.
Word(toks, seqs, i) ==
  IF seqs = Invalid THEN Invalid
  ELSE IF toks[i] \in Operators
  THEN IF \/ Last(seqs) = <<>>
          \/ i < Len(toks) /\ toks[i + 1] \in Operators THEN Invalid
       ELSE IF toks[i] = Or THEN Append(seqs, <<>>) ELSE seqs
  ELSE IF toks[i] \in Short THEN seqs
  ELSE [seqs EXCEPT ![Len(seqs)] = Append(@, toks[i])]

\* The sequences of a query whose tokens are letters and whose ends are words.
Sequences(toks) ==
  LET seqs == FoldLeft(LAMBDA s, i : Word(toks, s, i), << <<>> >>, [i \in DOMAIN toks |-> i])
  IN  IF seqs = Invalid \/ Last(seqs) = <<>> THEN Invalid ELSE seqs

\* parse_query: Invalid, or the sequences, none of them for an empty line.
Parse(line) ==
  LET toks == Taken(line)
  IN  IF \E i \in DOMAIN toks : toks[i] \in Bad THEN Invalid
      ELSE IF toks = <<>> THEN <<>>
      ELSE IF Head(toks) \in Operators \/ Last(toks) \in Operators THEN Invalid
      ELSE Sequences(toks)

-----------------------------------------------------------------------------
\* Faulty variant: the last word of a sequence decides.
MinScoreLast(count, seq) ==
  IF \E i \in DOMAIN seq : count[seq[i]] = 0 THEN 0 ELSE count[Last(seq)]

\* What a sequence adds to the rank of a document, count the counts of the words in
\* it: nothing if one is missing, else the least; min_score is -1 at first.
MinScore(count, seq) ==
  IF \E i \in DOMAIN seq : count[seq[i]] = 0 THEN 0
  ELSE FoldLeft(LAMBDA min, w : IF min < 0 \/ count[w] < min THEN count[w] ELSE min, -1, seq)

\* total_score is an int.
Score(count, seqs) ==
  FoldLeft(LAMBDA total, seq : ToInt(total + MinScore(count, seq)), 0, seqs)

-----------------------------------------------------------------------------
(* The same from the grammar: a query is alternatives separated by or, an  *)
(* alternative is words, and between any two of them.                      *)

\* The number of tokens or before position i.
Ors(toks, i) == Cardinality({j \in 1..(i - 1) : toks[j] = Or})

\* The tokens, each with the number of its alternative.
Numbered(toks) == [i \in DOMAIN toks |-> [word |-> toks[i], alt |-> Ors(toks, i) + 1]]

\* The long words of alternative k.
Alternative(toks, k) ==
  LET own == Selected(Numbered(toks), [word : Long, alt : {k}])
  IN  [n \in DOMAIN own |-> own[n].word]

Alternatives(toks) == [k \in 1..(Ors(toks, Len(toks) + 1) + 1) |-> Alternative(toks, k)]

\* No foreign character, no operator at an end or after another, and a long word
\* before an operator in its alternative, and in the last alternative.
Grammatical(toks) ==
  LET n == Len(toks)
      LongBefore(i) == \E j \in 1..(i - 1) : toks[j] \in Long /\ Ors(toks, j) = Ors(toks, i)
  IN  /\ \A i \in 1..n : toks[i] \notin Bad
      /\ n > 0 => toks[1] \notin Operators /\ toks[n] \notin Operators
      /\ \A i \in 1..(n - 1) : toks[i] \in Operators => toks[i + 1] \notin Operators
      /\ \A i \in 1..n : toks[i] \in Operators => LongBefore(i)
      /\ n > 0 => LongBefore(n + 1)

\* The least count of the words of an alternative, 0 if a document has not all of them.
LeastCount(count, alt) ==
  IF \A i \in DOMAIN alt : count[alt[i]] > 0 THEN Min({count[alt[i]] : i \in DOMAIN alt}) ELSE 0

\* The sum of these over the alternatives.
Rank(count, alts) == FoldLeft(LAMBDA sum, alt : sum + LeastCount(count, alt), 0, alts)

=============================================================================
