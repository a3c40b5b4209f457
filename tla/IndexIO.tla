------------------------------- MODULE IndexIO ------------------------------
(***************************************************************************)
(* utils/indexio.c in use: an index that is built posting by posting,      *)
(* written to a file and read back, with allocations and writes that fail  *)
(* and files that someone else has written.                                *)
(***************************************************************************)
EXTENDS Index, FiniteSets

CONSTANTS
  Words,     \* words of lower case letters
  OddWords,  \* first tokens with any other character
  Docs,      \* docid arguments, zero and negative ones included
  Counts,    \* count arguments, likewise
  Numbers,   \* the longs in a foreign file
  Powers,    \* the powers of the base that numbers are written in
  MaxTotal   \* bound: the sum of the counts in memory

ASSUME IndexIOAssumption ==
  /\ Docs \cup Counts \subseteq (-IntMax - 1)..IntMax
  /\ Numbers \subseteq Int /\ Powers \subseteq Nat \ {0, 1}
  /\ NoIndex \notin Seq([word : Words, postings : Seq([docid : 1..IntMax, count : Int])])

VARIABLES
  index,   \* the Index in memory, or NoIndex
  total,   \* the sum of the counts accepted for a word in a document
  file,    \* the index file
  saved,   \* the index that was written to file, NoIndex if it is foreign
  whole    \* all of saved was written

vars == <<index, total, file, saved, whole>>

NoCounts == [w \in Words |-> [d \in Docs |-> 0]]

Init ==
  /\ index = NoIndex /\ total = NoCounts
  /\ file = <<>> /\ saved = NoIndex /\ whole = FALSE

\* A bound of the model: a new index is only built while there is no file.
IndexNew ==
  /\ index = NoIndex /\ file = <<>>
  /\ index' = <<>> /\ total' = NoCounts
  /\ UNCHANGED <<file, saved, whole>>

IndexFree ==
  /\ index # NoIndex
  /\ index' = NoIndex /\ total' = NoCounts
  /\ UNCHANGED <<file, saved, whole>>

\* All counts in memory.
Sum(counts) ==
  FoldFunction(LAMBDA row, n : n + SumFunction(row), 0, counts)

Add(w, d, c) ==
  /\ index # NoIndex /\ Sum(total) + c <= MaxTotal
  /\ index' = AddPosting(index, w, d, c)
  /\ total' = IF Accepts(d, c) THEN [total EXCEPT ![w][d] = @ + c] ELSE total
  /\ UNCHANGED <<file, saved, whole>>

\* malloc or strdup fails: nothing happens, or a new word is left without posting.
\* A word and document that are there need no memory.
AddFails(w, d, c) ==
  /\ index # NoIndex /\ Accepts(d, c)
  /\ \A i \in WordAt(index, w) : DocAt(index[i].postings, d) = {}
  /\ index' \in {index, WithEntry(index, w)}
  /\ UNCHANGED <<total, file, saved, whole>>

Save ==
  /\ index # NoIndex
  /\ file' = Lines(index) /\ saved' = index /\ whole' = TRUE
  /\ UNCHANGED <<index, total>>

\* A write fails: the file keeps the lines before it and a part of one more, and the
\* process that saved the index ends.
SaveFails ==
  /\ index # NoIndex
  /\ file' \in TornFile(index, [w \in Words |-> Words], Powers)
  /\ saved' = index /\ whole' = FALSE
  /\ index' = NoIndex /\ total' = NoCounts

\* Someone else writes the index file; a bound: before anything is saved to it.
Foreign ==
  /\ index = NoIndex /\ file = <<>>
  /\ \E w \in Words \cup OddWords, ns \in UNION {[1..n -> Numbers] : n \in 0..4} :
       file' = <<[word |-> w, numbers |-> ns]>>
  /\ saved' = NoIndex /\ whole' = FALSE
  /\ UNCHANGED <<index, total>>

\* indexload; the counts of what it reads are a new start for the totals.
IndexLoad ==
  /\ index = NoIndex
  /\ index' = Load(file, Words)
  /\ total' = IF index' = NoIndex THEN NoCounts
              ELSE [w \in Words |-> [d \in Docs |-> CountOf(index', w, d)]]
  /\ UNCHANGED <<file, saved, whole>>

Next ==
  \/ IndexNew \/ IndexFree
  \/ \E w \in Words, d \in Docs, c \in Counts : Add(w, d, c) \/ AddFails(w, d, c)
  \/ Save \/ SaveFails \/ Foreign \/ IndexLoad

Spec == Init /\ [][Next]_vars

-----------------------------------------------------------------------------
\* Every variable has its type: the numbers of an index are ints, and it never has two
\* entries for a word nor two postings of a word for a document, however it was made.
TypeOK ==
  /\ \A idx \in {index, saved} : idx # NoIndex =>
       NoDuplicates(idx) /\ \A i \in DOMAIN idx :
         /\ idx[i].word \in Words
         /\ \A j \in DOMAIN idx[i].postings :
              /\ idx[i].postings[j].docid \in 1..IntMax
              /\ idx[i].postings[j].count \in (-IntMax - 1)..IntMax
  /\ total \in [Words -> [Docs -> Int]]
  /\ whole \in BOOLEAN

\* An index counts every accepted posting once, whatever allocations failed before,
\* as long as the sums are ints.
CountsAreSums ==
  index # NoIndex =>
    \A w \in Words, d \in Docs :
      total[w][d] \in 0..IntMax => CountOf(index, w, d) = total[w][d]

\* Adding up counts has overflowed in the index.
Overflown(idx) ==
  \E i \in DOMAIN idx : \E j \in DOMAIN idx[i].postings : idx[i].postings[j].count <= 0

\* What indexsave has written without error, indexload reads as it was, in its
\* order; only words that a failed allocation left without posting are gone.
RoundTrip == whole /\ ~Overflown(saved) => Load(file, Words) = NonEmpty(saved)

\* The words and documents for which two indexes have different counts.
Differ(a, b) ==
  {p \in Words \X Docs : CountOf(a, p[1], p[2]) \notin {0, CountOf(b, p[1], p[2])}}

\* A file that an interrupted indexsave left behind still loads, and what it holds
\* is a part of the index: no word gets a document it is not in, no count is too
\* high, and at most the one count that was torn is too low.
TornIsPart ==
  saved # NoIndex /\ ~whole /\ ~Overflown(saved) =>
    LET part == Load(file, Words)
    IN  /\ part # NoIndex
        /\ \A w \in Words, d \in Docs : CountOf(part, w, d) <= CountOf(saved, w, d)
        /\ Cardinality(Differ(part, saved)) <= 1

=============================================================================
