-------------------------------- MODULE Index -------------------------------
(***************************************************************************)
(* The index of utils/indexio.c as a value: a list of entries, one for     *)
(* every word, each with a list of postings, one for every document.  An   *)
(* index file is a list of lines, a line a word followed by numbers.       *)
(***************************************************************************)
EXTENDS Integers, Sequences, SequencesExt, Selection

CONSTANTS
  IntMax,   \* INT_MAX
  NoIndex   \* a NULL Index pointer

ASSUME IndexAssumption == IntMax \in Nat \ {0}

\* Conversion to int, and what int arithmetic leaves of a sum.
ToInt(n) == ((n + IntMax + 1) % (2 * IntMax + 2)) - IntMax - 1

Posting(d, c) == [docid |-> d, count |-> c]

\* The positions of a word and of a document: none or one.
WordAt(idx, w) == {i \in DOMAIN idx : idx[i].word = w}
DocAt(ps, d) == {j \in DOMAIN ps : ps[j].docid = d}

\* Faulty variant: a new posting without a look at the others.
AddToPostingsBlindly(ps, d, c) == Append(ps, Posting(d, c))

AddToPostings(ps, d, c) ==
  IF DocAt(ps, d) = {} THEN Append(ps, Posting(d, c))
  ELSE [j \in DOMAIN ps |->
          IF j \in DocAt(ps, d) THEN Posting(d, ToInt(ps[j].count + c)) ELSE ps[j]]

\* The entry of the word exists, at the end of the list if it is new.
WithEntry(idx, w) ==
  IF WordAt(idx, w) = {} THEN Append(idx, [word |-> w, postings |-> <<>>]) ELSE idx

\* Faulty variant: document 0 is taken.
AcceptsZero(d, c) == d >= 0 /\ c > 0

Accepts(d, c) == d > 0 /\ c > 0

\* index_add_posting with memory; a refused posting leaves the index alone.
AddPosting(idx, w, d, c) ==
  IF ~Accepts(d, c) THEN idx
  ELSE [i \in DOMAIN WithEntry(idx, w) |->
          LET e == WithEntry(idx, w)[i]
          IN  IF e.word = w THEN [e EXCEPT !.postings = AddToPostings(@, d, c)] ELSE e]

-----------------------------------------------------------------------------
\* indexsave

\* Faulty variant: the last posting of a word is left out.
LineShort(e) ==
  [word    |-> e.word,
   numbers |-> FlattenSeq([j \in 1..(Len(e.postings) - 1) |->
                 <<e.postings[j].docid, e.postings[j].count>>])]

Line(e) ==
  [word    |-> e.word,
   numbers |-> FlattenSeq([j \in DOMAIN e.postings |->
                 <<e.postings[j].docid, e.postings[j].count>>])]

Lines(idx) == [i \in DOMAIN idx |-> Line(idx[i])]

\* What is left of a number when its last digits are not written, power the power of the
\* base that says how many, 0 if none is left.
CutNumber(n, power) == IF n < 0 THEN -((-n) \div power) ELSE n \div power

\* What may be left of a line when the write stops in it: one of the stumps of its
\* word, what comes before a token, or a number that is cut.
TornLines(line, stumps, Powers) ==
  {[word |-> w, numbers |-> <<>>] : w \in stumps}
    \cup {[line EXCEPT !.numbers = SubSeq(@, 1, k)] : k \in DOMAIN line.numbers}
    \cup UNION {{[line EXCEPT !.numbers = Append(SubSeq(@, 1, k - 1), CutNumber(@[k], B))] :
                   k \in {k \in DOMAIN line.numbers : CutNumber(line.numbers[k], B) # 0}} :
                  B \in Powers}

\* What an indexsave that stops early leaves in the file: the lines before one, and a
\* part of it.
TornFile(idx, stumps, Powers) ==
  LET before(n) == SubSeq(Lines(idx), 1, n)
  IN  {before(n) : n \in 0..Len(idx)}
        \cup UNION {{Append(before(n), part) : part \in
                       TornLines(Line(idx[n + 1]), stumps[idx[n + 1].word], Powers)} :
                      n \in 0..(Len(idx) - 1)}

\* Faulty variant: a docid without count at the end of a line gets the count 1.
PairsPadded(line) ==
  [j \in 1..((Len(line.numbers) + 1) \div 2) |->
     <<line.numbers[2 * j - 1],
       IF 2 * j > Len(line.numbers) THEN 1 ELSE line.numbers[2 * j]>>]

\* The pairs of a line; a number without partner at the end is ignored.
Pairs(line) ==
  [j \in 1..(Len(line.numbers) \div 2) |->
     <<line.numbers[2 * j - 1], line.numbers[2 * j]>>]

\* One pair of a line in indexload: the test is made on the long, the conversion
\* afterwards, and a posting that index_add_posting refuses ends the load.
LoadPair(idx, w, pair) ==
  IF idx = NoIndex \/ ~Accepts(pair[1], pair[2]) THEN idx
  ELSE IF Accepts(ToInt(pair[1]), ToInt(pair[2]))
  THEN AddPosting(idx, w, ToInt(pair[1]), ToInt(pair[2]))
  ELSE NoIndex

\* A line whose word is not lower case letters is skipped.
LoadLine(idx, line, Valid) ==
  IF line.word \notin Valid THEN idx
  ELSE FoldLeft(LAMBDA i, pair : LoadPair(i, line.word, pair), idx, Pairs(line))

\* indexload
Load(file, Valid) ==
  FoldLeft(LAMBDA i, line : LoadLine(i, line, Valid), <<>>, file)

-----------------------------------------------------------------------------
\* The count of a word in a document, 0 if there is no posting.
CountOf(idx, w, d) ==
  IF \E i \in WordAt(idx, w) : DocAt(idx[i].postings, d) # {}
  THEN LET i == CHOOSE i \in WordAt(idx, w) : TRUE
           j == CHOOSE j \in DocAt(idx[i].postings, d) : TRUE
       IN  idx[i].postings[j].count
  ELSE 0

\* An index without the words that have no posting.
NonEmpty(idx) == Selected(idx, {e \in Range(idx) : e.postings # <<>>})

\* One entry for a word, one posting for a document in it.
NoDuplicates(idx) ==
  /\ \A i, j \in DOMAIN idx : idx[i].word = idx[j].word => i = j
  /\ \A i \in DOMAIN idx : \A j, k \in DOMAIN idx[i].postings :
       idx[i].postings[j].docid = idx[i].postings[k].docid => j = k

=============================================================================
