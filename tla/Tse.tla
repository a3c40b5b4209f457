--------------------------------- MODULE Tse --------------------------------
(***************************************************************************)
(* The three programs together: crawls save pages in a page directory      *)
(* which is never cleared, the indexer makes an index file of it, and the  *)
(* querier answers from both.  They run side by side, fail and are killed  *)
(* at any point, and know nothing of each other but the files.             *)
(*                                                                         *)
(* Of a crawl, only what it does to the directory is here: a page that was *)
(* fetched takes the next id, and several pagesaves are under way at once  *)
(* in the threads of tcrawler.c.  That a crawl saves no page twice and no  *)
(* two pages in one file is shown for module TCrawler.                     *)
(***************************************************************************)
EXTENDS PageIO, Scan, Querier

CONSTANTS
  Sites,                         \* sets of pages
  Norm, Stumps, Powers,          \* see Indexer
  MaxRuns, MaxPages, MaxFaults   \* bounds: runs of crawler and indexer, pages of a crawl,
                                 \* kinds of faults

\* The html of a page is not longer than webpage_getHTMLlen can say, and a token of letters
\* in it is a whole word; ids are ints.
ASSUME TseAssumption ==
  /\ \A S \in Sites : \A p \in S :
       /\ p = [url |-> p.url, depth |-> p.depth, html |-> p.html]
       /\ p.html \in Seq({p.html[i] : i \in DOMAIN p.html}) /\ Len(p.html) <= IntMax
       /\ WordsApart(p.html)
  /\ Norm \in [DOMAIN Norm -> DOMAIN Stumps] /\ DOMAIN Norm \subseteq Letters
  /\ Powers \subseteq Nat \ {0, 1}
  /\ {MaxRuns, MaxPages, MaxFaults} \subseteq Nat /\ MaxPages <= IntMax

VARIABLES
  site,           \* the pages that crawls can fetch
  crawl,          \* the number of the crawl that runs or ran last
  crawling,       \* it runs
  page_id,        \* its next id
  fetched,        \* the pages it has fetched
  saving,         \* its pagesaves under way: the page for an id
  iphase, id, page, pos, stream_count, idx, part, read, mixed, lost,   \* the indexer
  indexings,      \* runs of the indexer so far
  moved,          \* history: the page directory has changed while the indexer read it
  replaced,       \* history: the index file has changed while the querier read it
  faults          \* history: the kinds of faults there have been

crawler == <<crawl, crawling, page_id, fetched, saving>>
indexer == <<iphase, id, page, pos, stream_count, idx, part, read, mixed, lost>>
querier == <<phase, locals>>
vars == <<site, pagedir, crawler, indexer, file, written, querier, indexings, moved, replaced,
          faults>>

I == INSTANCE Indexer WITH phase <- iphase

Init ==
  /\ site \in Sites
  /\ pagedir = [i \in {} |-> NoPage]
  /\ crawl = 0 /\ crawling = FALSE /\ page_id = 1 /\ fetched = {} /\ saving = [i \in {} |-> NoPage]
  /\ I!Init
  /\ QuerierOff
  /\ indexings = 0 /\ moved = FALSE /\ replaced = FALSE /\ faults = {}

-----------------------------------------------------------------------------
(***************************************************************************)
(* Crawls.                                                                 *)
(***************************************************************************)
By(p) == [crawl |-> crawl, page |-> p]

\* Faulty variant: the ids of a crawl go on where the last one ended.
StartCrawlLater ==
  /\ ~crawling /\ crawl + indexings < MaxRuns
  /\ crawl' = crawl + 1 /\ crawling' = TRUE /\ fetched' = {}
  /\ UNCHANGED <<page_id, saving, pagedir>>

StartCrawl ==
  /\ ~crawling /\ crawl + indexings < MaxRuns
  /\ crawl' = crawl + 1 /\ crawling' = TRUE /\ page_id' = 1 /\ fetched' = {}
  /\ UNCHANGED <<saving, pagedir>>

\* A page that was fetched takes an id.
TakeId(p) ==
  /\ crawling /\ page_id <= MaxPages /\ p \notin fetched
  /\ page_id' = page_id + 1 /\ fetched' = fetched \cup {p}
  /\ saving' = [i \in DOMAIN saving \cup {page_id} |-> IF i = page_id THEN p ELSE saving[i]]
  /\ UNCHANGED <<crawl, crawling, pagedir>>

Opened(i) == i \in DOMAIN pagedir /\ pagedir[i].by.crawl = crawl

\* A file, and what it is of.
Of(f, by) == [header |-> f.header, html |-> f.html, by |-> by]

\* The file as it is from now on, whatever it was before.
SetFile(i, f) ==
  pagedir' = [j \in DOMAIN pagedir \cup {i} |->
                IF j = i THEN Of(f, By(saving[i])) ELSE pagedir[j]]

Return(i) == saving' = [j \in DOMAIN saving \ {i} |-> saving[j]]

\* pagesave opens its file, which is empty from then on.
OpenPage(i) ==
  /\ i \in DOMAIN saving /\ ~Opened(i)
  /\ SetFile(i, EmptyFile)
  /\ UNCHANGED crawler

\* The file does not open, and the crawl goes on.
OpenPageFails(i) ==
  /\ i \in DOMAIN saving /\ ~Opened(i)
  /\ Return(i)
  /\ UNCHANGED <<crawl, crawling, page_id, fetched, pagedir>>

\* The page reaches its file at the end; what a reader may see of it before is what a
\* write that fails leaves, too.
WritePage(i) ==
  /\ i \in DOMAIN saving /\ Opened(i)
  /\ SetFile(i, File(saving[i]))
  /\ Return(i)
  /\ UNCHANGED <<crawl, crawling, page_id, fetched>>

\* A write fails, and nobody notices.
WritePageFails(i) ==
  /\ i \in DOMAIN saving /\ Opened(i)
  /\ \E f \in TornFiles(saving[i]) : SetFile(i, f)
  /\ Return(i)
  /\ UNCHANGED <<crawl, crawling, page_id, fetched>>

EndCrawl ==
  /\ crawling /\ saving = [i \in {} |-> NoPage]
  /\ crawling' = FALSE
  /\ UNCHANGED <<crawl, page_id, fetched, saving, pagedir>>

KillCrawl ==
  /\ crawling
  /\ crawling' = FALSE /\ saving' = [i \in {} |-> NoPage]
  /\ UNCHANGED <<crawl, page_id, fetched, pagedir>>

-----------------------------------------------------------------------------
(***************************************************************************)
(* All of them.                                                            *)
(***************************************************************************)
NoFault == UNCHANGED faults

\* A bound: faults of MaxFaults kinds, a file replaced while it is read among them.
Fault(kind) == faults' = faults \cup {kind} /\ Cardinality(faults') <= MaxFaults

CrawlStep ==
  \/ NoFault /\ StartCrawl
  \/ NoFault /\ EndCrawl
  \/ \E p \in site : NoFault /\ TakeId(p)
  \/ \E i \in DOMAIN saving :
       \/ NoFault /\ OpenPage(i)
       \/ NoFault /\ WritePage(i)
       \/ Fault("page not opened") /\ OpenPageFails(i)
       \/ Fault("page torn") /\ WritePageFails(i)
  \/ Fault("crawl killed") /\ KillCrawl

Crawling ==
  /\ CrawlStep
  /\ moved' = (moved \/ (iphase # "off" /\ pagedir' # pagedir))
  /\ UNCHANGED <<site, indexer, file, written, querier, indexings, replaced>>

IndexStep ==
  \/ NoFault /\ I!LoadPage
  \/ NoFault /\ I!ReadPart
  \/ Fault("page replaced") /\ I!ReadMore
  \/ NoFault /\ I!EndRead
  \/ NoFault /\ I!EndReadMixed
  \/ NoFault /\ I!NoPageLoads
  \/ NoFault /\ I!NextWord
  \/ NoFault /\ I!EndOfPage
  \/ NoFault /\ I!Crash
  \/ (IF phase = "load" THEN Fault("index replaced") ELSE NoFault) /\ I!OpenIndex
  \/ NoFault /\ I!WriteIndex
  \/ I!PageLoadFails /\ Fault("page not loaded")
  \/ (I!NextWordLost \/ I!EndOfPageLost) /\ Fault("memory")
  \/ (I!OpenIndexFails \/ I!WriteIndexFails) /\ Fault("index")
  \/ Fault("indexer killed") /\ I!Kill

\* A line that is begun in one file and goes on in another.
Joined(old, n, new, m) ==
  {<<SubSeq(old[n], 1, a) \o SubSeq(new[m], b, Len(new[m]))>> :
     a \in {a \in 1..LineMax : n \in DOMAIN old /\ a <= Len(old[n])},
     b \in {b \in 2..LineMax : m \in DOMAIN new /\ b <= Len(new[m])}}

\* What fgets has still to read when the file changes: some of what it had, and what the
\* file has from some place on, with a line between them of parts of two lines.
Spliced(old, new) ==
  UNION {{SubSeq(old, 1, n) \o seam \o SubSeq(new, m, Len(new)) :
            seam \in {<<>>} \cup Joined(old, n + 1, new, m - 1)} :
          n \in 0..Len(old), m \in 1..Len(new) + 1}

\* The index file changes, maybe while the querier reads it.
WhileLoaded ==
  IF phase = "load" /\ file' # file
  THEN /\ chunks' \in Spliced(chunks, Chunks(file')) /\ replaced' = TRUE
       /\ UNCHANGED <<phase, source, gtab, query, seqs, docID, output>>
  ELSE UNCHANGED <<querier, replaced>>

Indexing ==
  /\ \/ /\ I!Start /\ NoFault
        /\ crawl + indexings < MaxRuns /\ indexings' = indexings + 1
        /\ moved' = FALSE
     \/ IndexStep /\ UNCHANGED <<indexings, moved>>
  /\ WhileLoaded
  /\ UNCHANGED <<site, crawler>>

Querying ==
  /\ QuerierNext
  /\ replaced' = (replaced /\ phase' # "off")
  /\ UNCHANGED <<site, crawler, indexer, indexings, moved, faults>>

Next == Crawling \/ Indexing \/ Querying

Spec == Init /\ [][Next]_vars

-----------------------------------------------------------------------------
\* A page that loads is the page of which the file is, up to the first null character in
\* it: no file that is torn or not finished, and no skipped white space, makes another
\* page of it.
LoadsWhatWasSaved ==
  \A i \in DOMAIN pagedir :
    I!Loaded(i) # NoPage => I!Loaded(i) = [pagedir[i].by.page EXCEPT !.html = CString(@)]

\* The times a word occurs in html, outside of tags.
Occurrences(w, html) ==
  Cardinality({n \in DOMAIN html :
                 html[n] \in DOMAIN Norm /\ Norm[html[n]] = w /\ ~InTag(html, n)})

NormalForms == {Norm[v] : v \in DOMAIN Norm}

\* The html read for a document: that of the page as the crawl has fetched it, if its file
\* was not replaced meanwhile.
Text(files, mixes, d) ==
  IF d \in DOMAIN mixes THEN mixes[d] ELSE CString(files[d].by.page.html)

\* The count of a word in a document, in the pages that were read.
TrueCount(files, mixes, w, d) ==
  IF d \in DOMAIN files THEN Occurrences(w, Text(files, mixes, d)) ELSE 0

\* The sum of n and the counts of a list of postings, and that of all counts.
PlusCounts(n, ps) == FoldLeft(LAMBDA m, p : m + p.count, n, ps)

AllCounts(index) == FoldLeft(LAMBDA n, e : PlusCounts(n, e.postings), 0, index)

\* The index that the indexer saves has every word of the pages it has read, in that page
\* and as often as it is there, and nothing else; the number that is printed is the sum of
\* these counts, and never less if postings were lost; and if no crawl has interfered, the
\* pages are none of them mixed of two, and all before the first that does not load, or
\* before one whose load has failed.
IndexExact ==
  iphase = "save" =>
    /\ stream_count >= AllCounts(idx)
    /\ ~lost =>
         /\ stream_count = AllCounts(idx)
         /\ \A w \in NormalForms, d \in 1..MaxPages :
              CountOf(idx, w, d) = TrueCount(read, mixed, w, d)
    /\ ~moved =>
         /\ "page not loaded" \notin faults => I!Loaded(Len(read) + 1) = NoPage
         /\ \A i \in DOMAIN read :
              pagedir[i] = read[i] /\ I!Loaded(i) # NoPage /\ i \notin DOMAIN mixed

\* An index that is made when no crawl runs, after crawls all of whose files could be
\* opened and which were not killed, has the pages of the last crawl under the ids that it
\* has given, and older ones beyond them only.
StaleBeyond ==
  iphase = "save" /\ ~moved /\ ~crawling /\ faults \cap {"page not opened", "crawl killed"} = {} =>
    \A i \in DOMAIN read : read[i].by.crawl = crawl <=> i < page_id

\* The rank of a document in the pages that the index is made of.
TrueRank(d) ==
  IF seqs \in {Invalid, <<>>} THEN 0
  ELSE Rank([w \in Long |-> TrueCount(source.read, source.mixed, w, d)],
            Alternatives(Taken(query)))

\* What is printed for a query are the pages that match it, with the ranks that their
\* words give them, counted in the pages as the indexer has read them, if the index was
\* complete when it was opened and not replaced before it was read; however it was made and
\* torn, no other page is printed, and none with a higher rank.  A rank that overflows an
\* int is less.
AnswersOfPages ==
  phase = "answered" /\ ~replaced =>
    /\ \A r \in output : r.rank \in 1..TrueRank(r.doc)
    /\ source.whole /\ ~source.lost =>
         \A d \in 1..(MAX_DOCS - 1) : TrueRank(d) \in 1..IntMax =>
           {r.rank : r \in {r \in output : r.doc = d}} = {TrueRank(d)}

\* The URL printed for a document is that of the page whose words gave it its rank, or
\* none, unless a later crawl has opened its file since the indexer read it, or the index
\* was replaced while it was read.
UrlOfRanked ==
  [][\A r \in output' \ output :
       LET indexed == source.read[r.doc]
       IN  ~replaced /\ pagedir[r.doc].by = indexed.by =>
             r.url \in {indexed.by.page.url, Unknown}]_vars

-----------------------------------------------------------------------------
\* pageload creates a new page by loading a numbered file that pagesave has saved, says
\* pageio.h: a file that was written completely loads.
SavedPagesLoad ==
  \A i \in DOMAIN pagedir :
    pagedir[i] = Of(File(pagedir[i].by.page), pagedir[i].by) => I!Loaded(i) # NoPage

=============================================================================
