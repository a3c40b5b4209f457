------------------------------- MODULE Querier ------------------------------
(***************************************************************************)
(* querier/query.c: the index file is read chunk by chunk into gtab, then  *)
(* every line of input is parsed and the documents are ranked, with a URL  *)
(* from the page directory.  Both files belong to the environment; here    *)
(* the index file is one that indexsave has written for some index, and    *)
(* what the querier answers is compared with that index.                   *)
(***************************************************************************)
EXTENDS Query

CONSTANTS
  Images,       \* the indexes whose files are read
  Directories,  \* page directories
  Queries,      \* the lines of input, sequences of tokens
  MAX_DOCS,
  LineMax,      \* the tokens of an index line that fit into buf
  Unknown       \* the url of a page that cannot be read

ASSUME QuerierAssumption ==
  MAX_DOCS \in Nat \ {0} /\ LineMax \in Nat \ {0} /\ Queries \subseteq Seq(Tokens)

VARIABLES
  pagedir,  \* the page files, a function on their ids
  file,     \* the index file, or NoIndex
  written,  \* history: what it was made of
  phase,    \* "off", "load", "prompt", "rank" or "answered"
  source,   \* history: what the file was made of when it was opened
  chunks,   \* what fgets has still to read from it
  gtab,     \* the entries, a word and its counts each
  query,    \* the tokens of the line of input
  seqs,     \* what parse_query has made of them
  docID,
  output    \* the documents printed for it, with rank and URL

locals == <<source, chunks, gtab, query, seqs, docID, output>>
querierVars == <<pagedir, file, written, phase, locals>>

DocIds == 0..(MAX_DOCS - 1)

\* A line of the index file as fgets returns it: in pieces of LineMax tokens, each of
\* which the code takes for a line.
Pieces(line) ==
  LET toks == <<line.word>> \o line.numbers
  IN  [n \in 1..((Len(toks) + LineMax - 1) \div LineMax) |->
         SubSeq(toks, (n - 1) * LineMax + 1,
                IF n * LineMax < Len(toks) THEN n * LineMax ELSE Len(toks))]

\* What fgets returns of an index file.
Chunks(f) == FlattenSeq([i \in DOMAIN f |-> Pieces(f[i])])

\* No querier runs, and the index is NULL.
QuerierOff ==
  /\ phase = "off"
  /\ source = written /\ chunks = <<>> /\ gtab = <<>>
  /\ query = <<>> /\ seqs = <<>> /\ docID = 0 /\ output = {}

QuerierInit ==
  /\ pagedir \in Directories
  /\ written \in Images /\ file = Lines(written)
  /\ QuerierOff

-----------------------------------------------------------------------------
\* main goes on if there are a page 1 and an index file, and opens the latter.
Open ==
  /\ phase = "off" /\ 1 \in DOMAIN pagedir /\ file # NoIndex
  /\ phase' = "load"
  /\ source' = written
  /\ chunks' = Chunks(file)
  /\ UNCHANGED <<pagedir, file, written, gtab, query, seqs, docID, output>>

\* The counts of a line: the last pair of a document counts, a token without partner
\* is ignored, a document from MAX_DOCS on is left out.
LineCounts(toks) ==
  FoldLeft(LAMBDA cs, p : IF p[1] \in DocIds THEN [cs EXCEPT ![p[1]] = ToInt(p[2])] ELSE cs,
           [d \in DocIds |-> 0], Pairs([numbers |-> Tail(toks)]))

\* add_entry: the counts of a word that is there are replaced.
AddEntry(tab, w, cs) ==
  IF \E i \in DOMAIN tab : tab[i].w = w
  THEN [i \in DOMAIN tab |-> IF tab[i].w = w THEN [w |-> w, cs |-> cs] ELSE tab[i]]
  ELSE Append(tab, [w |-> w, cs |-> cs])

ReadLine ==
  /\ phase = "load" /\ chunks # <<>>
  /\ gtab' = AddEntry(gtab, Head(Head(chunks)), LineCounts(Head(chunks)))
  /\ chunks' = Tail(chunks)
  /\ UNCHANGED <<pagedir, file, written, phase, source, query, seqs, docID, output>>

EndOfIndex ==
  /\ phase = "load" /\ chunks = <<>>
  /\ phase' = "prompt"
  /\ UNCHANGED <<pagedir, file, written, locals>>

\* The end of the input, or no memory for the index: free_index, or exit.
End ==
  /\ phase \in {"load", "prompt"}
  /\ phase' = "off"
  /\ source' = written /\ chunks' = <<>> /\ gtab' = <<>>
  /\ UNCHANGED <<pagedir, file, written, query, seqs, docID, output>>

-----------------------------------------------------------------------------
\* fgets, and the head of process_query: a line that is empty or no query is done with.
ReadQuery(toks) ==
  /\ phase = "prompt"
  /\ query' = toks /\ seqs' = Parse(toks)
  /\ phase' = IF seqs' \in {Invalid, <<>>} THEN "answered" ELSE "rank"
  /\ docID' = 1
  /\ UNCHANGED <<pagedir, file, written, source, chunks, gtab, output>>

\* get_count for every word of a query in a document.
GetCounts(tab, d) ==
  [w \in Long |->
     IF \E i \in DOMAIN tab : tab[i].w = w
     THEN tab[CHOOSE i \in DOMAIN tab :
                tab[i].w = w /\ \A j \in 1..(i - 1) : tab[j].w # w].cs[d]
     ELSE 0]

\* Faulty variant: the page files are numbered from 0.
GetUrlBefore(d) ==
  IF d - 1 \in DOMAIN pagedir /\ pagedir[d - 1].header # <<>> THEN pagedir[d - 1].header[1] ELSE Unknown

\* The first line of a page file that opens.
GetUrl(d) ==
  IF d \in DOMAIN pagedir /\ pagedir[d].header # <<>> THEN pagedir[d].header[1] ELSE Unknown

\* One round of the loop over the documents.  For a page file that does not open or
\* cannot be read the url is Unknown, too.
RankDoc ==
  /\ phase = "rank" /\ docID < MAX_DOCS
  /\ docID' = docID + 1
  /\ LET total == Score(GetCounts(gtab, docID), seqs)
     IN  \E url \in {GetUrl(docID), Unknown} :
           output' = output \cup (IF total > 0 THEN {[doc |-> docID, rank |-> total, url |-> url]}
                                  ELSE {})
  /\ UNCHANGED <<pagedir, file, written, phase, source, chunks, gtab, query, seqs>>

EndOfDocs ==
  /\ phase = "rank" /\ docID = MAX_DOCS
  /\ phase' = "answered"
  /\ UNCHANGED <<pagedir, file, written, locals>>

\* process_query returns.
NextQuery ==
  /\ phase = "answered"
  /\ phase' = "prompt"
  /\ query' = <<>> /\ seqs' = <<>> /\ docID' = 0 /\ output' = {}
  /\ UNCHANGED <<pagedir, file, written, source, chunks, gtab>>

QuerierNext ==
  \/ Open \/ ReadLine \/ EndOfIndex \/ End
  \/ \E toks \in Queries : ReadQuery(toks)
  \/ RankDoc \/ EndOfDocs \/ NextQuery

QuerierSpec == QuerierInit /\ [][QuerierNext]_querierVars

-----------------------------------------------------------------------------
\* parse_query accepts the queries of the grammar and no others, and the sequences it
\* makes are the alternatives, with the long words in their order.
ParsesGrammar ==
  LET toks == Taken(query)
  IN  phase \in {"rank", "answered"} =>
        seqs = IF ~Grammatical(toks) THEN Invalid
               ELSE IF toks = <<>> THEN <<>> ELSE Alternatives(toks)

\* The rank of a document for the query, counted in the index itself and not in what the
\* querier has made of its file.
IndexRank(d) ==
  IF seqs \in {Invalid, <<>>} THEN 0
  ELSE Rank([w \in Long |-> CountOf(source, w, d)], Alternatives(Taken(query)))

\* The documents that are printed are those that have all words of an alternative, with
\* the sum of the least counts as their rank and the URL of their file or none.  If the
\* sum overflows an int, the rank is less, or the document is missing.
AnswersRight ==
  phase = "answered" =>
    /\ \A r \in output : r.rank \in 1..IndexRank(r.doc) /\ r.url \in {GetUrl(r.doc), Unknown}
    /\ \A d \in DocIds \ {0} : IndexRank(d) \in 1..IntMax =>
         {r.rank : r \in {r \in output : r.doc = d}} = {IndexRank(d)}

-----------------------------------------------------------------------------
\* A line of the index file is a word and pairs of a document and a count, says the
\* comment on load_index_all: every pair of every line can be found.
LinesAreRead ==
  phase = "prompt" => \A i \in DOMAIN source : \A j \in DOMAIN source[i].postings :
    LET p == source[i].postings[j]
    IN  p.docid \in DocIds => GetCounts(gtab, p.docid)[source[i].word] = p.count

=============================================================================
