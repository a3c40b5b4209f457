-------------------------------- MODULE Scan --------------------------------
(***************************************************************************)
(* The scanner for words of webpage.c, which the indexer calls: html is a  *)
(* sequence of tokens, of which some are letters, and "<" and ">" enclose  *)
(* tags.                                                                   *)
(***************************************************************************)
EXTENDS Integers, Sequences, SequencesExt

CONSTANT Letters   \* the tokens of isalpha characters

ASSUME ScanAssumption == {"<", ">"} \cap Letters = {}

\* The word that begins at position i.
WordFrom(doc, i) ==
  LET after == SelectInSubSeq(doc, i, Len(doc), LAMBDA c : c \notin Letters)
  IN  [kind |-> "found", first |-> i, last |-> IF after = 0 THEN Len(doc) ELSE after - 1]

\* Faulty variant: tags are not skipped.
FindWordAnywhere(doc, start) ==
  LET i == SelectInSubSeq(doc, start, Len(doc), LAMBDA c : c \in Letters)
  IN  IF i = 0 THEN [kind |-> "end"] ELSE WordFrom(doc, i)

\* The scan from position start on finds a word, the end, or a tag that is not closed:
\* there strchr returns NULL, which is read from.
FindWord(doc, start) ==
  LET scan[i \in 1..(Len(doc) + 1)] ==
        LET close == SelectInSubSeq(doc, i, Len(doc), LAMBDA c : c = ">")
        IN  IF i > Len(doc) THEN [kind |-> "end"]
            ELSE IF doc[i] \in Letters THEN WordFrom(doc, i)
            ELSE IF doc[i] # "<" THEN scan[i + 1]
            ELSE IF close = 0 THEN [kind |-> "crash"]
            ELSE IF close = Len(doc) THEN [kind |-> "end"]
            ELSE scan[close + 1]
  IN  scan[start]

\* A token of letters is a whole word: no two of them follow each other.
WordsApart(doc) == \A i \in 1..(Len(doc) - 1) : doc[i] \in Letters => doc[i + 1] \notin Letters

-----------------------------------------------------------------------------
\* Inside a tag: after a "<" with no ">" in between.
InTag(doc, i) ==
  \E j \in 1..i : doc[j] = "<" /\ \A k \in (j + 1)..(i - 1) : doc[k] # ">"

=============================================================================
