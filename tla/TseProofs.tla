----------------------------- MODULE TseProofs ------------------------------
(***************************************************************************)
(* Proofs about the three programs together, for any pages, queries and    *)
(* bounds, with crawls, indexers and queriers that run side by side, fail  *)
(* and are killed at any point, and files that are replaced while they are *)
(* read: what the page files hold, what the indexer has read, what a page  *)
(* file can have become since, what the index counts while it is being     *)
(* made, and what a querier makes of any index that the indexer can have   *)
(* left: its ranks, its answers and their URLs.                            *)
(***************************************************************************)
EXTENDS Tse, Lemmas

Pages == UNION Sites

\* All that a file of a page can be: empty, complete, or torn.
Versions(p) == {EmptyFile, File(p)} \cup TornFiles(p)

\* The files of a page that a crawl has saved, and all page files that there can be.
Saved(p, c) == {Of(f, [crawl |-> c, page |-> p]) : f \in Versions(p)}

Stored == UNION {UNION {Saved(p, c) : c \in Nat} : p \in Pages}

\* The header lines of a file are all there.
Full(f) == f.header = File(f.by.page).header

-----------------------------------------------------------------------------
(***************************************************************************)
(* Page files.                                                             *)
(***************************************************************************)
\* A page has a URL, a depth and a sequence of tokens as its html.
LEMMA PageType ==
  ASSUME NEW p \in Pages
  PROVE  /\ p = [url |-> p.url, depth |-> p.depth, html |-> p.html]
         /\ p.html \in Seq({p.html[i] : i \in DOMAIN p.html})
BY TseAssumption DEF Pages

\* What is stored is a file of a page, from a crawl.
LEMMA StoredFile ==
  ASSUME NEW x \in Stored
  PROVE  \E p \in Pages, c \in Nat : \E f \in Versions(p) :
           x.by = [crawl |-> c, page |-> p] /\ x.header = f.header /\ x.html = f.html
<1>1. PICK p \in Pages : x \in UNION {Saved(p, c) : c \in Nat}
  BY DEF Stored
<1>2. PICK c \in Nat : x \in Saved(p, c)
  BY <1>1
<1>3. PICK f \in Versions(p) : x = Of(f, [crawl |-> c, page |-> p])
  BY <1>2 DEF Saved
<1> QED
  BY <1>3 DEF Of

\* A file of a page, from a crawl, is stored.
LEMMA StoredOf ==
  ASSUME NEW p \in Pages, NEW c \in Nat, NEW f \in Versions(p)
  PROVE  Of(f, [crawl |-> c, page |-> p]) \in Stored
<1>1. Of(f, [crawl |-> c, page |-> p]) \in Saved(p, c)
  BY DEF Saved
<1>2. Of(f, [crawl |-> c, page |-> p]) \in UNION {Saved(p, d) : d \in Nat}
  BY <1>1
<1> QED
  BY <1>2 DEF Stored

\* Skipping white space makes the html shorter, or leaves it as it is.
LEMMA SkipLength ==
  ASSUME NEW S, NEW h \in Seq(S)
  PROVE  /\ SkipSpace(h) \in Seq(S) /\ Len(SkipSpace(h)) \in Nat /\ Len(SkipSpace(h)) <= Len(h)
         /\ Len(SkipSpace(h)) = Len(h) => SkipSpace(h) = h
<1> DEFINE first == {i \in DOMAIN h : h[i] # Space /\ \A j \in 1..(i - 1) : h[j] = Space}
<1>1. DOMAIN h = 1..Len(h) /\ Len(h) \in Nat
  OBVIOUS
<1>2. CASE first = {}
  <2>1. SkipSpace(h) = <<>>
    BY <1>2 DEF SkipSpace
  <2>2. Len(h) = 0 => h = <<>>
    BY <1>1
  <2> QED
    BY <1>1, <2>1, <2>2
<1>3. CASE first # {}
  <2>1. PICK i : i = CHOOSE n \in first : TRUE
    OBVIOUS
  <2>2. i \in first
    BY <1>3, <2>1
  <2>3. i \in 1..Len(h)
    BY <1>1, <2>2
  <2>4. SkipSpace(h) = SubSeq(h, i, Len(h))
    BY <1>3, <2>1 DEF SkipSpace
  <2>5. SubSeq(h, i, Len(h)) \in Seq(S) /\ Len(SubSeq(h, i, Len(h))) = Len(h) - i + 1
    BY <1>1, <2>3
  <2>6. SubSeq(h, 1, Len(h)) = h
    BY <1>1
  <2> QED
    BY <1>1, <2>3, <2>4, <2>5, <2>6
<1> QED
  BY <1>2, <1>3

\* A file loads only if its header and its html are there to the end; then it loads as
\* the page it was saved for, up to the first null character.
LEMMA LoadOfVersion ==
  ASSUME NEW p \in Pages, NEW f \in Versions(p), NEW x, x.header = f.header, x.html = f.html,
         PageLoad(x) # NoPage
  PROVE  f.header = File(p).header /\ PageLoad(x) = [p EXCEPT !.html = CString(@)]
<1>1. ~(Len(f.header) < 3) /\ ~(Len(SkipSpace(f.html)) < f.header[3])
  BY DEF PageLoad
<1> DEFINE S == {p.html[i] : i \in DOMAIN p.html}
<1>2. p.html \in Seq(S) /\ Len(p.html) \in Nat
  BY PageType
<1> HIDE DEF S
<1>3. /\ File(p).header = <<p.url, p.depth, Len(p.html)>> /\ File(p).html = p.html
      /\ Len(File(p).header) = 3 /\ File(p).header[3] = Len(p.html)
      /\ File(p).header[1] = p.url /\ File(p).header[2] = p.depth
  BY DEF File
<1>4. f # EmptyFile
  BY <1>1 DEF EmptyFile
<1>5. f \notin {[header |-> h, html |-> <<>>] :
                  h \in {<<UrlStump>>} \cup {SubSeq(File(p).header, 1, n) : n \in 0..2}}
  <2>1. Len(<<UrlStump>>) = 1
    OBVIOUS
  <2>2. \A n \in 0..2 : Len(SubSeq(File(p).header, 1, n)) = n
    BY <1>3 DEF File
  <2> QED
    BY <1>1, <2>1, <2>2
<1>6. ASSUME NEW n \in 0..(Len(p.html) - 1), f = [File(p) EXCEPT !.html = SubSeq(@, 1, n)] PROVE FALSE
  <2>1. f.header = File(p).header /\ f.html = SubSeq(p.html, 1, n)
    BY <1>3, <1>6 DEF File
  <2>2. SubSeq(p.html, 1, n) \in Seq(S) /\ Len(SubSeq(p.html, 1, n)) = n
    BY <1>2
  <2>3. Len(SkipSpace(f.html)) <= n /\ Len(SkipSpace(f.html)) \in Nat
    BY <2>1, <2>2, SkipLength
  <2> QED
    BY <1>1, <1>2, <1>3, <2>1, <2>3
<1>7. f = File(p)
  BY <1>4, <1>5, <1>6 DEF Versions, TornFiles
<1>8. SkipSpace(p.html) = p.html
  BY <1>1, <1>2, <1>3, <1>7, SkipLength
<1>9. SubSeq(p.html, 1, Len(p.html)) = p.html
  BY <1>2
<1>10. PageLoad(x) = [url |-> p.url, depth |-> p.depth, html |-> CString(p.html)]
  <2>1. PageLoad(x) = [url |-> x.header[1], depth |-> x.header[2],
                       html |-> CString(SubSeq(SkipSpace(x.html), 1, x.header[3]))]
    BY <1>1 DEF PageLoad
  <2>2. x.header[1] = p.url /\ x.header[2] = p.depth /\ x.header[3] = Len(p.html) /\ x.html = p.html
    BY <1>3, <1>7
  <2> QED
    BY <1>8, <1>9, <2>1, <2>2
<1>11. [p EXCEPT !.html = CString(@)] = [url |-> p.url, depth |-> p.depth, html |-> CString(p.html)]
  <2>1. PICK u, d, h : u = p.url /\ d = p.depth /\ h = p.html
    OBVIOUS
  <2>2. p = [url |-> u, depth |-> d, html |-> h]
    BY <2>1, PageType
  <2>3. [p EXCEPT !.html = CString(h)] = [url |-> u, depth |-> d, html |-> CString(h)]
    BY <2>2
  <2> QED
    BY <2>1, <2>3
<1> QED
  BY <1>7, <1>10, <1>11

\* The same of a stored file.
LEMMA LoadOfStored ==
  ASSUME NEW x \in Stored, PageLoad(x) # NoPage
  PROVE  Full(x) /\ PageLoad(x) = [x.by.page EXCEPT !.html = CString(@)]
<1>1. PICK p \in Pages, c \in Nat : \E f \in Versions(p) :
        x.by = [crawl |-> c, page |-> p] /\ x.header = f.header /\ x.html = f.html
  BY StoredFile
<1>2. PICK f \in Versions(p) :
        x.by = [crawl |-> c, page |-> p] /\ x.header = f.header /\ x.html = f.html
  BY <1>1
<1>3. f.header = File(p).header /\ PageLoad(x) = [p EXCEPT !.html = CString(@)]
  BY <1>2, LoadOfVersion
<1> QED
  BY <1>2, <1>3 DEF Full

\* No other file of three header lines is stored than one that has those of its page.
LEMMA FullOfStored ==
  ASSUME NEW x \in Stored, Len(x.header) = 3
  PROVE  Full(x)
<1>1. PICK p \in Pages, c \in Nat : \E f \in Versions(p) :
        x.by = [crawl |-> c, page |-> p] /\ x.header = f.header /\ x.html = f.html
  BY StoredFile
<1>2. PICK f \in Versions(p) :
        x.by = [crawl |-> c, page |-> p] /\ x.header = f.header /\ x.html = f.html
  BY <1>1
<1>3. Len(File(p).header) = 3 /\ File(p).header = <<p.url, p.depth, Len(p.html)>>
  BY DEF File
<1>4. CASE f = EmptyFile
  BY <1>2, <1>4 DEF EmptyFile
<1>5. CASE f = File(p)
  BY <1>2, <1>5 DEF Full
<1>6. ASSUME NEW h \in {<<UrlStump>>} \cup {SubSeq(File(p).header, 1, n) : n \in 0..2},
             f = [header |-> h, html |-> <<>>]
      PROVE  FALSE
  <2>1. Len(<<UrlStump>>) = 1
    OBVIOUS
  <2>2. \A n \in 0..2 : Len(SubSeq(File(p).header, 1, n)) = n
    BY <1>3
  <2>3. Len(h) # 3
    BY <2>1, <2>2
  <2> QED
    BY <1>2, <1>6, <2>3
<1>7. ASSUME NEW n \in 0..(Len(p.html) - 1), f = [File(p) EXCEPT !.html = SubSeq(@, 1, n)]
      PROVE  Full(x)
  <2>1. f.header = File(p).header
    BY <1>7 DEF File
  <2> QED
    BY <1>2, <2>1 DEF Full
<1> QED
  BY <1>4, <1>5, <1>6, <1>7 DEF Versions, TornFiles

-----------------------------------------------------------------------------
(***************************************************************************)
(* The invariant.                                                          *)
(***************************************************************************)
\* The types of the variables of the crawler and of the page directory.
CrawlTypes ==
  /\ site \in Sites
  /\ crawl \in Nat /\ page_id \in Nat \ {0}
  /\ \A i \in DOMAIN saving : saving[i] \in Pages /\ i \in 1..(page_id - 1)
  /\ \A i \in DOMAIN pagedir : pagedir[i] \in Stored

\* The files that the indexer has opened: those it has read and that which it is reading.
Files == IF iphase = "read" THEN Append(read, part.file) ELSE read

ReadTypes ==
  /\ id \in Nat \ {0}
  /\ read \in Seq(Stored) /\ Files \in Seq(Stored)
  /\ written.read \in Seq(Stored) /\ source.read \in Seq(Stored)
  /\ "read" \in DOMAIN written

\* Faults after which ids of a crawl may have no page of it.
Lossy == {"page not opened", "crawl killed"}

\* Every id that the crawl has given is either being saved or has a page of the crawl,
\* and no other id has one; a file that a pagesave has under way is empty.
CrawlInv ==
  /\ ~crawling => DOMAIN saving = {}
  /\ \A i \in DOMAIN pagedir :
       /\ pagedir[i].by.crawl <= crawl
       /\ pagedir[i].by.crawl = crawl => i \in 1..(page_id - 1)
  /\ \A i \in DOMAIN saving : Opened(i) => pagedir[i].header = <<>>
  /\ faults \cap Lossy = {} => \A i \in 1..(page_id - 1) : i \in DOMAIN saving \/ Opened(i)

\* The indexer has read the pages before id, and if no crawl has interfered they are
\* still what they were, and id is the first that does not load or whose load has failed.
ReadInv ==
  /\ iphase \in {"off", "load", "read", "words", "end", "save"}
  /\ iphase = "off" => read = <<>> /\ id = 1
  /\ iphase = "words" => Len(read) = id
  /\ iphase \in {"load", "read", "end", "save"} => Len(read) = id - 1
  /\ DOMAIN mixed \subseteq DOMAIN read
  /\ ~moved /\ iphase # "off" => \A i \in DOMAIN read :
       /\ i \in DOMAIN pagedir /\ pagedir[i] = read[i] /\ PageLoad(pagedir[i]) # NoPage
       /\ i \notin DOMAIN mixed
  /\ ~moved /\ iphase = "read" => pagedir[id] = part.file /\ part.now = part.file
  /\ ~moved /\ iphase \in {"end", "save"} /\ "page not loaded" \notin faults =>
       I!Loaded(id) = NoPage

\* Files that were read: they were complete, and as long as the file of the id is of the
\* same page and crawl it has its header.
HistoryInv(r) == \A i \in DOMAIN r :
  /\ Full(r[i]) /\ r[i].by.crawl <= crawl /\ i \in DOMAIN pagedir
  /\ r[i].by.crawl = crawl => i \notin DOMAIN saving /\ Opened(i)
  /\ pagedir[i].by = r[i].by => Full(pagedir[i])

TseInv ==
  /\ CrawlTypes /\ ReadTypes /\ CrawlInv /\ ReadInv
  /\ HistoryInv(Files) /\ HistoryInv(written.read) /\ HistoryInv(source.read)

-----------------------------------------------------------------------------
(***************************************************************************)
(* The steps of a crawl.                                                   *)
(***************************************************************************)
\* What a crawl keeps, for a sequence r of files that were read.
CrawlKeeps(r) == CrawlTypes /\ CrawlInv /\ HistoryInv(r)

\* A file that was stored has a number as its crawl.
LEMMA StoredBy ==
  ASSUME NEW x \in Stored
  PROVE  x.by.crawl \in Nat /\ x.by.page \in Pages
<1>1. PICK p \in Pages, c \in Nat : x.by = [crawl |-> c, page |-> p]
  BY StoredFile
<1> QED
  BY <1>1

\* What SetFile does to the directory.
LEMMA SetFileDoes ==
  ASSUME NEW i, NEW f, SetFile(i, f)
  PROVE  /\ DOMAIN pagedir' = DOMAIN pagedir \cup {i}
         /\ pagedir'[i] = Of(f, By(saving[i]))
         /\ pagedir'[i].header = f.header
         /\ pagedir'[i].by = By(saving[i]) /\ pagedir'[i].by.crawl = crawl
         /\ \A j \in DOMAIN pagedir \ {i} : pagedir'[j] = pagedir[j]
BY DEF SetFile, Of, By

\* A crawl begins with id 1 and no id given.
LEMMA StartCrawlKeeps ==
  ASSUME NEW r \in Seq(Stored), CrawlKeeps(r), StartCrawl, faults' = faults, site' = site
  PROVE  CrawlKeeps(r)'
<1>1. /\ ~crawling /\ crawl' = crawl + 1 /\ crawling' = TRUE /\ page_id' = 1
      /\ saving' = saving /\ pagedir' = pagedir /\ DOMAIN saving = {}
  BY DEF StartCrawl, CrawlKeeps, CrawlInv
<1>2. CrawlTypes'
  BY <1>1 DEF CrawlKeeps, CrawlTypes
<1>3. \A i \in DOMAIN pagedir : pagedir[i].by.crawl \in Nat /\ pagedir[i].by.crawl <= crawl /\ crawl \in Nat
  BY StoredBy DEF CrawlKeeps, CrawlTypes, CrawlInv
<1>4. CrawlInv'
  BY <1>1, <1>3 DEF CrawlInv
<1>5. HistoryInv(r)'
  <2> SUFFICES ASSUME NEW i \in DOMAIN r
               PROVE  /\ Full(r[i]) /\ r[i].by.crawl <= crawl' /\ i \in DOMAIN pagedir'
                      /\ r[i].by.crawl # crawl'
                      /\ pagedir'[i].by = r[i].by => Full(pagedir'[i])
    BY DEF HistoryInv, Full
  <2>1. r[i].by.crawl \in Nat /\ crawl \in Nat
    BY StoredBy DEF CrawlKeeps, CrawlTypes
  <2> QED
    BY <1>1, <2>1 DEF CrawlKeeps, HistoryInv
<1> QED
  BY <1>2, <1>4, <1>5 DEF CrawlKeeps

\* A crawl ends, or is killed.
LEMMA EndCrawlKeeps ==
  ASSUME NEW r \in Seq(Stored), CrawlKeeps(r), site' = site,
         \/ EndCrawl /\ faults' = faults
         \/ KillCrawl /\ faults' = faults \cup {"crawl killed"}
  PROVE  CrawlKeeps(r)'
<1>1. /\ crawling' = FALSE /\ DOMAIN saving' = {} /\ crawl' = crawl
      /\ page_id' = page_id /\ pagedir' = pagedir
      /\ \/ DOMAIN saving = {} /\ faults' = faults
         \/ "crawl killed" \in faults'
  BY DEF EndCrawl, KillCrawl
<1>2. CrawlTypes'
  BY <1>1 DEF CrawlKeeps, CrawlTypes
<1>3. CrawlInv'
  BY <1>1 DEF CrawlKeeps, CrawlInv, Opened, Lossy
<1>4. HistoryInv(r)'
  BY <1>1 DEF CrawlKeeps, HistoryInv, Opened, Full
<1> QED
  BY <1>2, <1>3, <1>4 DEF CrawlKeeps

\* A page that was fetched gets the next id.
LEMMA TakeIdKeeps ==
  ASSUME NEW r \in Seq(Stored), CrawlKeeps(r), NEW p \in site, TakeId(p), faults' = faults, site' = site
  PROVE  CrawlKeeps(r)'
<1>1. /\ crawling' = crawling /\ crawl' = crawl /\ crawling /\ pagedir' = pagedir
      /\ page_id' = page_id + 1 /\ DOMAIN saving' = DOMAIN saving \cup {page_id}
      /\ \A i \in DOMAIN saving' : saving'[i] = IF i = page_id THEN p ELSE saving[i]
  BY DEF TakeId
<1>2. /\ CrawlTypes /\ p \in Pages /\ page_id \in Nat \ {0}
      /\ 1..page_id = (1..(page_id - 1)) \cup {page_id} /\ page_id \notin 1..(page_id - 1)
  BY DEF CrawlKeeps, CrawlTypes, Pages
<1>3. page_id' - 1 = page_id
  BY <1>1, <1>2
<1>4. CrawlTypes'
  BY <1>1, <1>2, <1>3 DEF CrawlTypes
<1>5. ~Opened(page_id)
  BY <1>2 DEF CrawlKeeps, CrawlInv, Opened
<1>6. CrawlInv'
  BY <1>1, <1>2, <1>3, <1>5 DEF CrawlKeeps, CrawlInv, Opened
<1>7. HistoryInv(r)'
  <2> SUFFICES ASSUME NEW i \in DOMAIN r
               PROVE  /\ Full(r[i]) /\ r[i].by.crawl <= crawl' /\ i \in DOMAIN pagedir'
                      /\ r[i].by.crawl = crawl' => i \notin DOMAIN saving' /\ Opened(i)'
                      /\ pagedir'[i].by = r[i].by => Full(pagedir'[i])
    BY DEF HistoryInv, Full
  <2>1. r[i].by.crawl = crawl => i # page_id
    BY <1>5 DEF CrawlKeeps, HistoryInv
  <2> QED
    BY <1>1, <2>1 DEF CrawlKeeps, HistoryInv, Opened
<1> QED
  BY <1>4, <1>6, <1>7 DEF CrawlKeeps

\* Opening the file of an id empties it.
LEMMA OpenPageKeeps ==
  ASSUME NEW r \in Seq(Stored), CrawlKeeps(r), NEW i \in DOMAIN saving, OpenPage(i),
         faults' = faults, site' = site
  PROVE  CrawlKeeps(r)'
<1>1. /\ crawling' = crawling /\ crawl' = crawl /\ page_id' = page_id /\ saving' = saving
      /\ ~Opened(i) /\ SetFile(i, EmptyFile)
  BY DEF OpenPage, crawler
<1>2. /\ DOMAIN pagedir' = DOMAIN pagedir \cup {i}
      /\ pagedir'[i] = Of(EmptyFile, By(saving[i]))
      /\ pagedir'[i].header = <<>> /\ pagedir'[i].by.crawl = crawl
      /\ \A j \in DOMAIN pagedir \ {i} : pagedir'[j] = pagedir[j]
  <2>1. EmptyFile.header = <<>>
    BY DEF EmptyFile
  <2> QED
    BY <1>1, <2>1, SetFileDoes
<1>3. saving[i] \in Pages /\ i \in 1..(page_id - 1) /\ crawl \in Nat
  BY DEF CrawlKeeps, CrawlTypes
<1>4. pagedir'[i] \in Stored
  BY <1>2, <1>3, StoredOf DEF By, Versions
<1>5. CrawlTypes'
  BY <1>1, <1>2, <1>4 DEF CrawlKeeps, CrawlTypes
<1>6. CrawlInv'
  BY <1>1, <1>2, <1>3 DEF CrawlKeeps, CrawlInv, Opened
<1>7. HistoryInv(r)'
  <2> SUFFICES ASSUME NEW j \in DOMAIN r
               PROVE  /\ Full(r[j]) /\ r[j].by.crawl <= crawl' /\ j \in DOMAIN pagedir'
                      /\ r[j].by.crawl = crawl' => j \notin DOMAIN saving' /\ Opened(j)'
                      /\ pagedir'[j].by = r[j].by => Full(pagedir'[j])
    BY DEF HistoryInv, Full
  <2>1. r[j].by.crawl = crawl => j # i
    BY <1>1 DEF CrawlKeeps, HistoryInv
  <2> QED
    BY <1>1, <1>2, <2>1 DEF CrawlKeeps, HistoryInv, Opened
<1> QED
  BY <1>5, <1>6, <1>7 DEF CrawlKeeps

\* A pagesave ends, with a file that is complete or torn.
LEMMA WritePageKeeps ==
  ASSUME NEW r \in Seq(Stored), CrawlKeeps(r), NEW i \in DOMAIN saving, site' = site,
         \/ WritePage(i) /\ faults' = faults
         \/ WritePageFails(i) /\ faults' = faults \cup {"page torn"}
  PROVE  CrawlKeeps(r)'
<1>1. /\ crawling' = crawling /\ crawl' = crawl /\ page_id' = page_id
      /\ DOMAIN saving' = DOMAIN saving \ {i} /\ \A j \in DOMAIN saving' : saving'[j] = saving[j]
      /\ Opened(i) /\ (faults' \cap Lossy = {} => faults \cap Lossy = {})
      /\ \E f \in Versions(saving[i]) : SetFile(i, f)
  <2>1. Opened(i) /\ Return(i) /\ UNCHANGED <<crawl, crawling, page_id, fetched>>
    BY DEF WritePage, WritePageFails
  <2>2. faults \subseteq faults'
    OBVIOUS
  <2>3. \E f \in Versions(saving[i]) : SetFile(i, f)
    BY DEF WritePage, WritePageFails, Versions
  <2>4. DOMAIN saving' = DOMAIN saving \ {i} /\ \A j \in DOMAIN saving' : saving'[j] = saving[j]
    BY <2>1 DEF Return
  <2> QED
    BY <2>1, <2>2, <2>3, <2>4
<1>2. PICK f \in Versions(saving[i]) : SetFile(i, f)
  BY <1>1
<1>3. /\ DOMAIN pagedir' = DOMAIN pagedir \cup {i}
      /\ pagedir'[i] = Of(f, By(saving[i]))
      /\ pagedir'[i].by.crawl = crawl
      /\ \A j \in DOMAIN pagedir \ {i} : pagedir'[j] = pagedir[j]
  BY <1>2, SetFileDoes
<1>4. saving[i] \in Pages /\ i \in 1..(page_id - 1) /\ crawl \in Nat
  BY DEF CrawlKeeps, CrawlTypes
<1>5. pagedir'[i] \in Stored
  BY <1>3, <1>4, StoredOf DEF By
<1>6. CrawlTypes'
  BY <1>1, <1>3, <1>5 DEF CrawlKeeps, CrawlTypes
<1>7. CrawlInv'
  BY <1>1, <1>3, <1>4 DEF CrawlKeeps, CrawlInv, Opened
<1>8. HistoryInv(r)'
  <2> SUFFICES ASSUME NEW j \in DOMAIN r
               PROVE  /\ Full(r[j]) /\ r[j].by.crawl <= crawl' /\ j \in DOMAIN pagedir'
                      /\ r[j].by.crawl = crawl' => j \notin DOMAIN saving' /\ Opened(j)'
                      /\ pagedir'[j].by = r[j].by => Full(pagedir'[j])
    BY DEF HistoryInv, Full
  <2>1. r[j].by.crawl = crawl => j # i
    BY DEF CrawlKeeps, HistoryInv
  <2> QED
    BY <1>1, <1>3, <2>1 DEF CrawlKeeps, HistoryInv, Opened
<1> QED
  BY <1>6, <1>7, <1>8 DEF CrawlKeeps

\* An id whose file does not open gets no file, which is a fault that loses one.
LEMMA OpenPageFailsKeeps ==
  ASSUME NEW r \in Seq(Stored), CrawlKeeps(r), NEW i \in DOMAIN saving, OpenPageFails(i),
         faults' = faults \cup {"page not opened"}, site' = site
  PROVE  CrawlKeeps(r)'
<1>1. /\ crawling' = crawling /\ crawl' = crawl /\ page_id' = page_id /\ pagedir' = pagedir
      /\ DOMAIN saving' = DOMAIN saving \ {i} /\ \A j \in DOMAIN saving' : saving'[j] = saving[j]
      /\ faults' \cap Lossy # {}
  BY DEF OpenPageFails, Return, Lossy
<1>2. CrawlTypes'
  BY <1>1 DEF CrawlKeeps, CrawlTypes
<1>3. CrawlInv'
  BY <1>1 DEF CrawlKeeps, CrawlInv, Opened
<1>4. HistoryInv(r)'
  BY <1>1 DEF CrawlKeeps, HistoryInv, Opened, Full
<1> QED
  BY <1>2, <1>3, <1>4 DEF CrawlKeeps

\* The other programs leave the directory alone.
LEMMA OthersKeep ==
  ASSUME NEW r \in Seq(Stored), CrawlKeeps(r), UNCHANGED <<site, crawler, pagedir>>,
         faults' \cap Lossy = {} => faults \cap Lossy = {}
  PROVE  CrawlKeeps(r)'
<1>1. /\ crawling' = crawling /\ crawl' = crawl /\ page_id' = page_id /\ pagedir' = pagedir
      /\ saving' = saving /\ site' = site
  BY DEF crawler
<1>2. CrawlTypes'
  BY <1>1 DEF CrawlKeeps, CrawlTypes
<1>3. CrawlInv'
  BY <1>1 DEF CrawlKeeps, CrawlInv, Opened
<1>4. HistoryInv(r)'
  BY <1>1 DEF CrawlKeeps, HistoryInv, Opened, Full
<1> QED
  BY <1>2, <1>3, <1>4 DEF CrawlKeeps

\* Whatever a crawl does.
LEMMA CrawlStepKeeps ==
  ASSUME NEW r \in Seq(Stored), CrawlKeeps(r), CrawlStep, site' = site
  PROVE  CrawlKeeps(r)'
<1>1. CASE NoFault /\ StartCrawl
  BY <1>1, StartCrawlKeeps DEF NoFault
<1>2. CASE (NoFault /\ EndCrawl) \/ (Fault("crawl killed") /\ KillCrawl)
  BY <1>2, EndCrawlKeeps DEF NoFault, Fault
<1>3. ASSUME NEW p \in site, NoFault /\ TakeId(p) PROVE CrawlKeeps(r)'
  BY <1>3, TakeIdKeeps DEF NoFault
<1>4. ASSUME NEW i \in DOMAIN saving, NoFault /\ OpenPage(i) PROVE CrawlKeeps(r)'
  BY <1>4, OpenPageKeeps DEF NoFault
<1>5. ASSUME NEW i \in DOMAIN saving,
             (NoFault /\ WritePage(i)) \/ (Fault("page torn") /\ WritePageFails(i))
      PROVE  CrawlKeeps(r)'
  BY <1>5, WritePageKeeps DEF NoFault, Fault
<1>6. ASSUME NEW i \in DOMAIN saving, Fault("page not opened") /\ OpenPageFails(i) PROVE CrawlKeeps(r)'
  BY <1>6, OpenPageFailsKeeps DEF Fault
<1> QED
  BY <1>1, <1>2, <1>3, <1>4, <1>5, <1>6 DEF CrawlStep

-----------------------------------------------------------------------------
(***************************************************************************)
(* The steps of all programs.                                              *)
(***************************************************************************)
\* The parts of the invariant make it, once the three sequences have names.
LEMMA TseKeeps ==
  ASSUME NEW r, NEW s, NEW t, Files' = r, written'.read = s, source'.read = t,
         CrawlKeeps(r)', HistoryInv(s)', HistoryInv(t)', ReadTypes', ReadInv'
  PROVE  TseInv'
<1>1. CrawlTypes' /\ CrawlInv' /\ HistoryInv(r)'
  BY DEF CrawlKeeps
<1>2. HistoryInv(Files)'
  BY <1>1 DEF HistoryInv, Full
<1>3. HistoryInv(written.read)'
  BY DEF HistoryInv, Full
<1>4. HistoryInv(source.read)'
  BY DEF HistoryInv, Full
<1> QED
  BY <1>1, <1>2, <1>3, <1>4 DEF TseInv

\* A crawl changes the directory, but not what was read; the indexer knows if it did.
LEMMA CrawlingKeeps ==
  ASSUME TseInv, Crawling
  PROVE  TseInv'
<1>1. PICK r, s, t : r = Files /\ s = written.read /\ t = source.read
  OBVIOUS
<1>2. r \in Seq(Stored) /\ s \in Seq(Stored) /\ t \in Seq(Stored)
  BY <1>1 DEF TseInv, ReadTypes
<1>3. HistoryInv(r) /\ HistoryInv(s) /\ HistoryInv(t)
  BY <1>1 DEF TseInv
<1>4. CrawlKeeps(r) /\ CrawlKeeps(s) /\ CrawlKeeps(t)
  BY <1>3 DEF TseInv, CrawlKeeps
<1>5. CrawlStep /\ site' = site
  BY DEF Crawling
<1>6. CrawlKeeps(r)' /\ CrawlKeeps(s)' /\ CrawlKeeps(t)'
  <2>1. CrawlKeeps(r)'
    BY <1>2, <1>4, <1>5, CrawlStepKeeps
  <2>2. CrawlKeeps(s)'
    BY <1>2, <1>4, <1>5, CrawlStepKeeps
  <2>3. CrawlKeeps(t)'
    BY <1>2, <1>4, <1>5, CrawlStepKeeps
  <2> QED
    BY <2>1, <2>2, <2>3
<1>7. /\ iphase' = iphase /\ id' = id /\ read' = read /\ part' = part /\ mixed' = mixed
      /\ written' = written /\ source' = source
      /\ moved' = (moved \/ (iphase # "off" /\ pagedir' # pagedir)) /\ faults \subseteq faults'
  BY DEF Crawling, CrawlStep, NoFault, Fault, indexer, querier, locals
<1>8. ReadTypes'
  BY <1>7 DEF TseInv, ReadTypes, Files
<1>9. ReadInv'
  <2>1. ~moved' /\ iphase # "off" => ~moved /\ pagedir' = pagedir
    BY <1>7 DEF TseInv, ReadInv
  <2>2. ReadInv
    BY DEF TseInv
  <2> QED
    BY <1>7, <2>1, <2>2 DEF ReadInv, I!Loaded
<1>10. Files' = r /\ written'.read = s /\ source'.read = t
  BY <1>1, <1>7 DEF Files
<1>11. HistoryInv(s)' /\ HistoryInv(t)'
  BY <1>6 DEF CrawlKeeps
<1> QED
  BY <1>6, <1>8, <1>9, <1>10, <1>11, TseKeeps

\* A querier reads files only; what its index was made of is what was written last, or
\* what it has opened.
LEMMA QueryingKeeps ==
  ASSUME TseInv, Querying
  PROVE  TseInv'
<1>1. /\ UNCHANGED <<site, crawler, indexer, moved, faults, pagedir, written>>
      /\ source' \in {source, written}
  BY DEF Querying, QuerierNext, Open, ReadLine, EndOfIndex, End, ReadQuery, RankDoc,
         EndOfDocs, NextQuery, locals
<1>2. /\ iphase' = iphase /\ id' = id /\ read' = read /\ part' = part /\ mixed' = mixed
      /\ Files' = Files
  BY <1>1 DEF indexer, Files
<1>3. PICK r, s, t : r = Files /\ s = written.read /\ t = source'.read
  OBVIOUS
<1>4. t \in {written.read, source.read}
  BY <1>1, <1>3
<1>5. /\ r \in Seq(Stored) /\ s \in Seq(Stored) /\ t \in Seq(Stored)
      /\ HistoryInv(r) /\ HistoryInv(s) /\ HistoryInv(t)
  <2>1. HistoryInv(r) /\ HistoryInv(s)
    BY <1>3 DEF TseInv
  <2>2. CASE t = written.read
    BY <1>3, <2>1, <2>2 DEF TseInv, ReadTypes
  <2>3. CASE t = source.read
    <3>1. HistoryInv(t)
      BY <2>3 DEF TseInv
    <3> QED
      BY <1>3, <2>1, <2>3, <3>1 DEF TseInv, ReadTypes
  <2> QED
    BY <1>4, <2>2, <2>3
<1>6. CrawlKeeps(r) /\ CrawlKeeps(s) /\ CrawlKeeps(t)
  BY <1>5 DEF TseInv, CrawlKeeps
<1>7. CrawlKeeps(r)' /\ HistoryInv(s)' /\ HistoryInv(t)'
  <2>1. CrawlKeeps(r)'
    BY <1>1, <1>5, <1>6, OthersKeep
  <2>2. CrawlKeeps(s)'
    BY <1>1, <1>5, <1>6, OthersKeep
  <2>3. CrawlKeeps(t)'
    BY <1>1, <1>5, <1>6, OthersKeep
  <2> QED
    BY <2>1, <2>2, <2>3 DEF CrawlKeeps
<1>8. ReadTypes'
  BY <1>1, <1>2, <1>3, <1>5 DEF TseInv, ReadTypes
<1>9. ReadInv'
  <2>1. ReadInv
    BY DEF TseInv
  <2> QED
    BY <1>1, <1>2, <2>1 DEF ReadInv, I!Loaded
<1> QED
  BY <1>1, <1>2, <1>3, <1>7, <1>8, <1>9, TseKeeps

\* Start of the indexer: nothing was read, so nothing can have changed.
LEMMA StartIndexing ==
  ASSUME TseInv, I!Start, moved' = FALSE
  PROVE  ReadInv' /\ read' = read /\ Files' = read /\ id' = id /\ written' = written
<1>1. /\ iphase = "off" /\ iphase' = "load" /\ read' = read /\ mixed' = mixed /\ id' = id
      /\ pagedir' = pagedir /\ written' = written
  BY DEF I!Start, I!locals
<1>2. read = <<>> /\ id = 1 /\ DOMAIN mixed \subseteq DOMAIN read
  BY <1>1 DEF TseInv, ReadInv
<1> QED
  BY <1>1, <1>2 DEF ReadInv, Files

\* The process of the indexer ends.
LEMMA ExitIndexing ==
  ASSUME I!Exit
  PROVE  ReadInv' /\ read' = <<>> /\ Files' = <<>> /\ id' = 1
BY DEF I!Exit, I!None, ReadInv, Files

\* The indexer loads pages as pageload does.
LEMMA SamePageLoad ==
  ASSUME NEW f
  PROVE  I!PageLoad(f) = PageLoad(f)
<1>1. ASSUME NEW h PROVE I!SkipSpace(h) = SkipSpace(h)
  BY DEF I!SkipSpace, SkipSpace
<1>2. ASSUME NEW h PROVE I!CString(h) = CString(h)
  BY DEF I!CString, CString
<1> QED
  BY <1>1, <1>2 DEF I!PageLoad, PageLoad

\* A file that loads has all header lines.
LEMMA LoadedIsFull ==
  ASSUME TseInv, I!Loaded(id) # NoPage
  PROVE  id \in DOMAIN pagedir /\ Full(pagedir[id]) /\ PageLoad(pagedir[id]) # NoPage
<1>1. id \in DOMAIN pagedir /\ PageLoad(pagedir[id]) # NoPage
  BY SamePageLoad DEF I!Loaded
<1>2. pagedir[id] \in Stored
  BY <1>1 DEF TseInv, CrawlTypes
<1> QED
  BY <1>1, <1>2, LoadOfStored

\* A sequence one longer than what was read, which ends in f.
Extends(s, f) ==
  /\ s \in Seq(Stored) /\ Len(s) = id /\ DOMAIN s = DOMAIN read \cup {id}
  /\ s[id] = f /\ \A i \in DOMAIN read : s[i] = read[i]

\* What was read is part of what was opened.
LEMMA ReadHistory ==
  ASSUME TseInv
  PROVE  HistoryInv(read)
<1>1. \A i \in DOMAIN read : i \in DOMAIN Files /\ Files[i] = read[i]
  <2>1. CASE iphase = "read"
    <3>1. /\ Files = Append(read, part.file) /\ Files \in Seq(Stored) /\ read \in Seq(Stored)
          /\ Len(read) \in Nat
      BY <2>1 DEF Files, TseInv, ReadTypes
    <3>2. DOMAIN read = 1..Len(read) /\ DOMAIN Files = 1..(Len(read) + 1)
      BY <3>1
    <3> QED
      BY <3>1, <3>2
  <2>2. CASE iphase # "read"
    BY <2>2 DEF Files
  <2> QED
    BY <2>1, <2>2
<1>2. HistoryInv(Files)
  BY DEF TseInv
<1> QED
  BY <1>1, <1>2 DEF HistoryInv

\* When all pages before id were read, the next file comes after them.
LEMMA NextFile ==
  ASSUME TseInv, Len(read) = id - 1, NEW f \in Stored, NEW s, s = Append(read, f)
  PROVE  Extends(s, f) /\ HistoryInv(read) /\ (iphase = "read" /\ f = part.file => s = Files)
<1>1. read \in Seq(Stored) /\ id \in Nat \ {0}
  BY DEF TseInv, ReadTypes
<1>2. DOMAIN read = 1..(id - 1) /\ DOMAIN read \cup {id} = 1..id
  BY <1>1
<1>3. Extends(s, f)
  BY <1>1, <1>2 DEF Extends
<1> QED
  BY <1>3, ReadHistory DEF Files

\* A file whose header lines are all there is no file that a pagesave has under way.
LEMMA FullFile ==
  ASSUME TseInv, id \in DOMAIN pagedir, Full(pagedir[id]), Len(read) = id - 1,
         NEW s, s = Append(read, pagedir[id])
  PROVE  Extends(s, pagedir[id]) /\ HistoryInv(s)
<1>1. pagedir[id] \in Stored
  BY DEF TseInv, CrawlTypes
<1>2. PICK f : f = pagedir[id]
  OBVIOUS
<1>3. Extends(s, f) /\ HistoryInv(read)
  BY <1>1, <1>2, NextFile
<1>4. pagedir[id].header # <<>>
  <2>1. Len(File(pagedir[id].by.page).header) = 3
    BY DEF File
  <2>2. Len(pagedir[id].header) = 3
    BY <2>1 DEF Full
  <2>3. ASSUME NEW h, Len(h) = 3 PROVE h # <<>>
    BY <2>3
  <2> QED
    BY <2>2, <2>3
<1>5. /\ pagedir[id].by.crawl <= crawl
      /\ pagedir[id].by.crawl = crawl => id \notin DOMAIN saving /\ Opened(id)
  BY <1>4 DEF TseInv, CrawlInv, Opened
<1>6. HistoryInv(s)
  <2> SUFFICES ASSUME NEW i \in DOMAIN s
               PROVE  /\ Full(s[i]) /\ s[i].by.crawl <= crawl /\ i \in DOMAIN pagedir
                      /\ s[i].by.crawl = crawl => i \notin DOMAIN saving /\ Opened(i)
                      /\ pagedir[i].by = s[i].by => Full(pagedir[i])
    BY DEF HistoryInv
  <2>1. CASE i = id
    BY <1>2, <1>3, <1>5, <2>1 DEF Extends
  <2>2. CASE i \in DOMAIN read
    BY <1>3, <2>2 DEF Extends, HistoryInv
  <2> QED
    BY <1>3, <2>1, <2>2 DEF Extends
<1> QED
  BY <1>2, <1>3, <1>6

\* A file of which a part is read has all header lines.
LEMMA PartIsFull ==
  ASSUME TseInv, I!ReadPart
  PROVE  id \in DOMAIN pagedir /\ Full(pagedir[id])
<1>1. id \in DOMAIN pagedir /\ Len(pagedir[id].header) = 3
  BY DEF I!ReadPart
<1>2. pagedir[id] \in Stored
  BY <1>1 DEF TseInv, CrawlTypes
<1> QED
  BY <1>1, <1>2, FullOfStored

\* The file that is opened is the next one: it is loaded at once,
LEMMA LoadPageReads ==
  ASSUME TseInv, I!LoadPage, moved' = moved
  PROVE  /\ ReadInv' /\ read' \in Seq(Stored) /\ Files' = read' /\ id' = id /\ written' = written
         /\ HistoryInv(read')
<1>1. /\ iphase = "load" /\ iphase' = "words" /\ read' = Append(read, pagedir[id]) /\ mixed' = mixed
      /\ I!Loaded(id) # NoPage /\ id' = id /\ pagedir' = pagedir /\ written' = written
  BY DEF I!LoadPage, I!PageReturned
<1>2. Len(read) = id - 1 /\ id \in Nat \ {0} /\ ReadInv
  BY <1>1 DEF TseInv, ReadTypes, ReadInv
<1>3. id \in DOMAIN pagedir /\ Full(pagedir[id]) /\ PageLoad(pagedir[id]) # NoPage
  BY <1>1, LoadedIsFull
<1>4. PICK s : s = Append(read, pagedir[id])
  OBVIOUS
<1>5. Extends(s, pagedir[id]) /\ HistoryInv(s)
  BY <1>2, <1>3, <1>4, FullFile
<1>6. read' = s
  BY <1>1, <1>4
<1>7. id \notin DOMAIN mixed
  <2>1. read \in Seq(Stored) /\ DOMAIN mixed \subseteq DOMAIN read
    BY DEF TseInv, ReadTypes, ReadInv
  <2>2. DOMAIN read = 1..(id - 1)
    BY <1>2, <2>1
  <2>3. id \notin DOMAIN read
    BY <1>2, <2>2
  <2> QED
    BY <2>1, <2>3
<1>8. ReadInv'
  BY <1>1, <1>2, <1>3, <1>5, <1>6, <1>7 DEF ReadInv, Extends
<1> QED
  BY <1>1, <1>5, <1>6, <1>8 DEF Extends, Files

\* or a part of it is read,
LEMMA ReadPartReads ==
  ASSUME TseInv, I!ReadPart, moved' = moved
  PROVE  /\ ReadInv' /\ read' = read /\ Files' \in Seq(Stored) /\ id' = id /\ written' = written
         /\ HistoryInv(Files')
<1>1. /\ iphase = "load" /\ iphase' = "read" /\ read' = read /\ mixed' = mixed
      /\ id' = id /\ pagedir' = pagedir /\ written' = written
      /\ part'.file = pagedir[id] /\ part'.now = pagedir[id]
  BY DEF I!ReadPart
<1>2. Len(read) = id - 1 /\ id \in Nat \ {0} /\ ReadInv
  BY <1>1 DEF TseInv, ReadTypes, ReadInv
<1>3. id \in DOMAIN pagedir /\ Full(pagedir[id])
  BY PartIsFull
<1>4. PICK s : s = Append(read, pagedir[id])
  OBVIOUS
<1>5. Extends(s, pagedir[id]) /\ HistoryInv(s)
  BY <1>2, <1>3, <1>4, FullFile
<1>6. Files' = s
  BY <1>1, <1>4 DEF Files
<1>7. ReadInv'
  BY <1>1, <1>2 DEF ReadInv
<1> QED
  BY <1>1, <1>5, <1>6, <1>7 DEF Extends

\* and more if it has been replaced,
LEMMA ReadMoreReads ==
  ASSUME TseInv, I!ReadMore, moved' = moved
  PROVE  ReadInv' /\ read' = read /\ Files' = Files /\ id' = id /\ written' = written
<1>1. /\ iphase = "read" /\ iphase' = "read" /\ read' = read /\ mixed' = mixed
      /\ id' = id /\ pagedir' = pagedir /\ written' = written /\ pagedir[id] # part.now
  BY DEF I!ReadMore
<1>2. part'.file = part.file
  <2>1. PICK h : part' = [part EXCEPT !.html = h, !.now = pagedir[id]]
    BY DEF I!ReadMore
  <2> QED
    BY <2>1
<1>3. ReadInv /\ moved
  BY <1>1 DEF TseInv, ReadInv
<1> QED
  BY <1>1, <1>2, <1>3 DEF ReadInv, Files

\* until there is a page.
LEMMA EndReadReads ==
  ASSUME TseInv, I!EndRead \/ I!EndReadMixed, moved' = moved
  PROVE  ReadInv' /\ read' = Files /\ Files' = Files /\ id' = id /\ written' = written
<1>1. /\ iphase = "read" /\ iphase' = "words" /\ read' = Append(read, part.file)
      /\ id' = id /\ pagedir' = pagedir /\ written' = written
  BY DEF I!EndRead, I!EndReadMixed, I!PageReturned
<1>2. Len(read) = id - 1 /\ id \in Nat \ {0} /\ ReadInv /\ Files \in Seq(Stored) /\ read \in Seq(Stored)
  BY <1>1 DEF TseInv, ReadTypes, ReadInv
<1>3. read' = Files /\ Files' = Files
  BY <1>1 DEF Files
<1>4. PICK s, f : s = Append(read, part.file) /\ f = part.file /\ s = Files
  BY <1>1 DEF Files
<1>5. /\ Len(s) = id /\ DOMAIN s = DOMAIN read \cup {id}
      /\ s[id] = f /\ \A i \in DOMAIN read : s[i] = read[i]
  <2>1. PICK S : S = Stored \cup {f}
    OBVIOUS
  <2>2. read \in Seq(S) /\ f \in S
    BY <1>2, <2>1
  <2>3. s = Append(read, f) /\ Len(read) = id - 1
    BY <1>2, <1>4
  <2>4. Len(s) = id /\ s \in Seq(S) /\ s[id] = f
    BY <1>2, <2>2, <2>3
  <2>5. DOMAIN read = 1..(id - 1) /\ DOMAIN s = 1..id /\ 1..id = 1..(id - 1) \cup {id}
    BY <1>2, <2>2, <2>4
  <2> QED
    BY <1>2, <2>2, <2>3, <2>4, <2>5
<1>6. id \notin DOMAIN read
  <2>1. DOMAIN read = 1..(id - 1)
    BY <1>2
  <2> QED
    BY <1>2, <2>1
<1>7. CASE I!EndRead
  <2>1. pagedir[id] = f /\ I!Loaded(id) # NoPage /\ mixed' = mixed
    BY <1>4, <1>7 DEF I!EndRead
  <2>2. id \in DOMAIN pagedir /\ PageLoad(pagedir[id]) # NoPage
    BY <2>1, LoadedIsFull
  <2>3. ReadInv'
    BY <1>1, <1>2, <1>3, <1>4, <1>5, <1>6, <2>1, <2>2 DEF ReadInv
  <2> QED
    BY <1>1, <1>3, <2>3
<1>8. CASE I!EndReadMixed
  <2>1. moved /\ DOMAIN mixed' = DOMAIN mixed \cup {id}
    BY <1>1, <1>2, <1>8 DEF I!EndReadMixed, ReadInv
  <2>2. ReadInv'
    BY <1>1, <1>2, <1>3, <1>4, <1>5, <2>1 DEF ReadInv
  <2> QED
    BY <1>1, <1>3, <2>2
<1> QED
  BY <1>7, <1>8

\* The loop ends when a file does not load, or when its load fails.
LEMMA EndOfPagesReads ==
  ASSUME TseInv, moved' = moved,
         \/ I!NoPageLoads /\ faults' = faults
         \/ I!PageLoadFails /\ "page not loaded" \in faults'
  PROVE  ReadInv' /\ read' = read /\ Files' = read /\ id' = id /\ written' = written
<1>1. /\ iphase \in {"load", "read"} /\ iphase' = "end" /\ read' = read /\ mixed' = mixed
      /\ id' = id /\ pagedir' = pagedir /\ written' = written
  BY DEF I!NoPageLoads, I!PageLoadFails, I!EndOfPages
<1>2. ReadInv
  BY DEF TseInv
<1>3. ~moved /\ "page not loaded" \notin faults' => I!Loaded(id) = NoPage
  BY <1>2 DEF I!NoPageLoads, ReadInv
<1>4. I!Loaded(id)' = I!Loaded(id)
  BY <1>1 DEF I!Loaded
<1> QED
  BY <1>1, <1>2, <1>3, <1>4 DEF ReadInv, Files

\* The words of a page are counted, and then the next id is tried.
LEMMA WordsRead ==
  ASSUME TseInv, I!NextWord \/ I!NextWordLost \/ I!EndOfPage \/ I!EndOfPageLost, moved' = moved
  PROVE  ReadInv' /\ read' = read /\ Files' = read /\ id' \in {id, id + 1} /\ written' = written
<1>1. /\ iphase = "words" /\ read' = read /\ mixed' = mixed /\ pagedir' = pagedir /\ written' = written
      /\ \/ iphase' = "words" /\ id' = id
         \/ iphase' = "load" /\ id' = id + 1
  BY DEF I!NextWord, I!NextWordLost, I!EndOfPage, I!EndOfPageLost, I!NextPage
<1>2. ReadInv /\ Len(read) = id /\ id \in Nat \ {0}
  BY <1>1 DEF TseInv, ReadInv, ReadTypes
<1>3. Files' = read
  BY <1>1 DEF Files
<1>4. CASE iphase' = "words" /\ id' = id
  BY <1>1, <1>2, <1>3, <1>4 DEF ReadInv
<1>5. CASE iphase' = "load" /\ id' = id + 1
  <2>1. Len(read) = id' - 1
    BY <1>2, <1>5
  <2> QED
    BY <1>1, <1>2, <1>3, <1>5, <2>1 DEF ReadInv
<1> QED
  BY <1>1, <1>4, <1>5

\* The index is about to be saved.
LEMMA OpenIndexReads ==
  ASSUME TseInv, I!OpenIndex, moved' = moved, faults \subseteq faults'
  PROVE  ReadInv' /\ read' = read /\ Files = read /\ Files' = read /\ id' = id /\ written'.read = read
<1>1. /\ iphase = "end" /\ iphase' = "save" /\ read' = read /\ mixed' = mixed /\ id' = id
      /\ pagedir' = pagedir /\ written'.read = read
  BY DEF I!OpenIndex, I!locals
<1>2. ReadInv
  BY DEF TseInv
<1>3. I!Loaded(id)' = I!Loaded(id)
  BY <1>1 DEF I!Loaded
<1> QED
  BY <1>1, <1>2, <1>3 DEF ReadInv, Files

\* What any step of the indexer does to what it has read and what it writes.
LEMMA IndexingReads ==
  ASSUME TseInv, Indexing
  PROVE  /\ ReadInv' /\ id' \in {id, id + 1, 1} /\ "read" \in DOMAIN written'
         /\ read' \in Seq(Stored) /\ Files' \in Seq(Stored) /\ HistoryInv(Files')
         /\ written'.read \in {written.read, read}
         /\ faults' \cap Lossy = {} => faults \cap Lossy = {}
         /\ UNCHANGED <<site, crawler, pagedir, source>>
<1>1. UNCHANGED <<site, crawler, source>>
  BY DEF Indexing, WhileLoaded, querier, locals
<1>2. faults' \cap Lossy = {} => faults \cap Lossy = {}
  <2>1. faults \subseteq faults'
    BY DEF Indexing, IndexStep, NoFault, Fault
  <2> QED
    BY <2>1
<1>3. /\ read \in Seq(Stored) /\ HistoryInv(read) /\ "read" \in DOMAIN written
      /\ Files \in Seq(Stored) /\ HistoryInv(Files)
      /\ <<>> \in Seq(Stored) /\ HistoryInv(<<>>)
  <2>1. HistoryInv(<<>>)
    BY DEF HistoryInv
  <2> QED
    BY <2>1, ReadHistory DEF TseInv, ReadTypes
<1>4. saving' = saving /\ crawl' = crawl
  BY <1>1 DEF crawler
<1>5. CASE I!Start /\ moved' = FALSE
  <2>1. pagedir' = pagedir
    BY <1>5 DEF I!Start
  <2> QED
    BY <1>1, <1>2, <1>3, <1>5, <2>1, StartIndexing
<1>6. CASE I!LoadPage /\ moved' = moved
  <2>1. pagedir' = pagedir
    BY <1>6 DEF I!LoadPage, I!PageReturned
  <2> QED
    BY <1>1, <1>2, <1>3, <1>6, <2>1, LoadPageReads
<1>7. CASE (I!NextWord \/ I!NextWordLost \/ I!EndOfPage \/ I!EndOfPageLost) /\ moved' = moved
  <2>1. pagedir' = pagedir
    BY <1>7 DEF I!NextWord, I!NextWordLost, I!EndOfPage, I!EndOfPageLost, I!NextPage
  <2> QED
    BY <1>1, <1>2, <1>3, <1>7, <2>1, WordsRead
<1>8. CASE I!OpenIndex /\ moved' = moved
  <2>1. pagedir' = pagedir /\ "read" \in DOMAIN written'
    BY <1>8 DEF I!OpenIndex
  <2>2. faults \subseteq faults'
    BY DEF Indexing, IndexStep, NoFault, Fault
  <2> QED
    BY <1>1, <1>2, <1>3, <1>8, <2>1, <2>2, OpenIndexReads
<1>9. CASE I!Crash \/ I!OpenIndexFails \/ I!WriteIndex \/ I!WriteIndexFails \/ I!Kill
  <2>1. I!Exit /\ pagedir' = pagedir /\ (written' = written \/ written' = [written EXCEPT !.whole = TRUE])
    BY <1>9 DEF I!Crash, I!OpenIndexFails, I!WriteIndex, I!WriteIndexFails, I!Kill
  <2>2. "read" \in DOMAIN written' /\ written'.read = written.read
    BY <1>3, <2>1
  <2> QED
    BY <1>1, <1>2, <1>3, <2>1, <2>2, ExitIndexing
<1>10. CASE I!ReadPart /\ moved' = moved
  <2>1. pagedir' = pagedir
    BY <1>10 DEF I!ReadPart
  <2> QED
    BY <1>1, <1>2, <1>3, <1>10, <2>1, ReadPartReads
<1>11. CASE I!ReadMore /\ moved' = moved
  <2>1. pagedir' = pagedir
    BY <1>11 DEF I!ReadMore
  <2> QED
    BY <1>1, <1>2, <1>3, <1>11, <2>1, ReadMoreReads
<1>12. CASE (I!EndRead \/ I!EndReadMixed) /\ moved' = moved
  <2>1. pagedir' = pagedir
    BY <1>12 DEF I!EndRead, I!EndReadMixed, I!PageReturned
  <2> QED
    BY <1>1, <1>2, <1>3, <1>12, <2>1, EndReadReads
<1>13. CASE /\ \/ I!NoPageLoads /\ faults' = faults
               \/ I!PageLoadFails /\ "page not loaded" \in faults'
            /\ moved' = moved
  <2>1. pagedir' = pagedir
    BY <1>13 DEF I!NoPageLoads, I!PageLoadFails, I!EndOfPages
  <2> QED
    BY <1>1, <1>2, <1>3, <1>13, <2>1, EndOfPagesReads
<1> QED
  BY <1>5, <1>6, <1>7, <1>8, <1>9, <1>10, <1>11, <1>12, <1>13 DEF Indexing, IndexStep, NoFault, Fault

\* The indexer keeps the invariant.
LEMMA IndexingKeeps ==
  ASSUME TseInv, Indexing
  PROVE  TseInv'
<1>1. /\ ReadInv' /\ id' \in {id, id + 1, 1} /\ "read" \in DOMAIN written'
      /\ read' \in Seq(Stored) /\ Files' \in Seq(Stored) /\ HistoryInv(Files')
      /\ written'.read \in {written.read, read}
      /\ faults' \cap Lossy = {} => faults \cap Lossy = {}
      /\ UNCHANGED <<site, crawler, pagedir, source>>
  BY IndexingReads
<1>2. PICK r, s, t : r = Files' /\ s = written'.read /\ t = source.read
  OBVIOUS
<1>3. r \in Seq(Stored) /\ HistoryInv(r)
  BY <1>1, <1>2
<1>4. s \in Seq(Stored) /\ HistoryInv(s)
  <2>1. CASE s = read
    <3>1. HistoryInv(s)
      BY <2>1, ReadHistory
    <3> QED
      BY <2>1, <3>1 DEF TseInv, ReadTypes
  <2>2. CASE s = written.read
    <3>1. HistoryInv(s)
      BY <2>2 DEF TseInv
    <3> QED
      BY <2>2, <3>1 DEF TseInv, ReadTypes
  <2> QED
    BY <1>1, <1>2, <2>1, <2>2
<1>5. t \in Seq(Stored) /\ HistoryInv(t)
  <2>1. HistoryInv(t)
    BY <1>2 DEF TseInv
  <2> QED
    BY <1>2, <2>1 DEF TseInv, ReadTypes
<1>6. CrawlKeeps(r) /\ CrawlKeeps(s) /\ CrawlKeeps(t)
  BY <1>3, <1>4, <1>5 DEF TseInv, CrawlKeeps
<1>7. CrawlKeeps(r)' /\ HistoryInv(s)' /\ HistoryInv(t)'
  <2>1. CrawlKeeps(r)'
    BY <1>1, <1>3, <1>6, OthersKeep
  <2>2. CrawlKeeps(s)'
    BY <1>1, <1>4, <1>6, OthersKeep
  <2>3. CrawlKeeps(t)'
    BY <1>1, <1>5, <1>6, OthersKeep
  <2> QED
    BY <2>1, <2>2, <2>3 DEF CrawlKeeps
<1>8. ReadTypes'
  <2>1. id' \in Nat \ {0}
    BY <1>1 DEF TseInv, ReadTypes
  <2> QED
    BY <1>1, <1>2, <1>4, <1>5, <2>1 DEF ReadTypes
<1>9. source'.read = t
  BY <1>1, <1>2
<1> QED
  BY <1>1, <1>2, <1>7, <1>8, <1>9, TseKeeps

-----------------------------------------------------------------------------
(***************************************************************************)
(* The theorems.                                                           *)
(***************************************************************************)
\* The invariant of the three programs: what the page files are, which ids of the crawl
\* have a file of it, what the indexer has read, and what has become of that.
THEOREM TseInvariant == Spec => []TseInv
<1>1. Init => TseInv
  <2> SUFFICES ASSUME Init PROVE TseInv
    OBVIOUS
  <2>1. /\ site \in Sites /\ DOMAIN pagedir = {} /\ DOMAIN saving = {}
        /\ crawl = 0 /\ page_id = 1 /\ crawling = FALSE
        /\ iphase = "off" /\ id = 1 /\ read = <<>> /\ written = I!NothingWritten /\ source = written
        /\ DOMAIN mixed = {}
    BY DEF Init, I!Init, I!None, QuerierOff
  <2>2. written.read = <<>> /\ source.read = <<>> /\ "read" \in DOMAIN written /\ Files = <<>>
    BY <2>1 DEF I!NothingWritten, Files
  <2>3. CrawlTypes /\ ReadTypes
    <3>1. <<>> \in Seq(Stored)
      OBVIOUS
    <3> QED
      BY <2>1, <2>2, <3>1 DEF CrawlTypes, ReadTypes
  <2>4. CrawlInv
    BY <2>1 DEF CrawlInv
  <2>5. ReadInv
    BY <2>1 DEF ReadInv
  <2> QED
    BY <2>1, <2>2, <2>3, <2>4, <2>5 DEF TseInv, HistoryInv
<1>2. TseInv /\ [Next]_vars => TseInv'
  <2> SUFFICES ASSUME TseInv, [Next]_vars PROVE TseInv'
    OBVIOUS
  <2>1. CASE Next
    BY <2>1, CrawlingKeeps, IndexingKeeps, QueryingKeeps DEF Next
  <2>2. CASE UNCHANGED vars
    <3>1. /\ site' = site /\ pagedir' = pagedir /\ crawl' = crawl /\ crawling' = crawling
          /\ page_id' = page_id /\ saving' = saving /\ iphase' = iphase /\ id' = id
          /\ read' = read /\ part' = part /\ mixed' = mixed
          /\ written' = written /\ source' = source /\ moved' = moved /\ faults' = faults
      BY <2>2 DEF vars, crawler, indexer, querier, locals
    <3>2. CrawlTypes' /\ ReadTypes'
      BY <3>1 DEF TseInv, CrawlTypes, ReadTypes, Files
    <3>3. CrawlInv'
      BY <3>1 DEF TseInv, CrawlInv, Opened
    <3>4. ReadInv'
      BY <3>1 DEF TseInv, ReadInv, I!Loaded
    <3>5. HistoryInv(Files)' /\ HistoryInv(written.read)' /\ HistoryInv(source.read)'
      BY <3>1 DEF TseInv, HistoryInv, Opened, Full, Files
    <3> QED
      BY <3>2, <3>3, <3>4, <3>5 DEF TseInv
  <2> QED
    BY <2>1, <2>2
<1> QED
  BY <1>1, <1>2, PTL DEF Spec

\* A page that loads is the page of which the file is, up to the first null character in
\* it, at any time: a file that is torn, or not written yet, does not load, and neither
\* does one of which the reader has skipped white space.
THEOREM PagesLoadAsSaved == Spec => []LoadsWhatWasSaved
<1>1. TseInv => LoadsWhatWasSaved
  <2> SUFFICES ASSUME TseInv, NEW i \in DOMAIN pagedir, I!Loaded(i) # NoPage
               PROVE  I!Loaded(i) = [pagedir[i].by.page EXCEPT !.html = CString(@)]
    BY DEF LoadsWhatWasSaved
  <2>1. pagedir[i] \in Stored
    BY DEF TseInv, CrawlTypes
  <2>2. I!Loaded(i) = PageLoad(pagedir[i])
    BY SamePageLoad DEF I!Loaded
  <2> QED
    BY <2>1, <2>2, LoadOfStored
<1> QED
  BY <1>1, TseInvariant, PTL

\* An index made when no crawl runs, after crawls all of whose files could be opened and
\* which were not killed, has the pages of the last crawl under the ids it has given, and
\* pages of older crawls, which nobody has removed, under higher ids only.
THEOREM StalePagesAreBeyond == Spec => []StaleBeyond
<1>1. TseInv => \A i \in DOMAIN read : i \in 1..(page_id - 1) <=> i < page_id
  <2> SUFFICES ASSUME TseInv, NEW i \in DOMAIN read PROVE i \in 1..(page_id - 1) <=> i < page_id
    OBVIOUS
  <2>1. page_id \in Nat /\ read \in Seq(Stored)
    BY DEF TseInv, ReadTypes, CrawlTypes
  <2>2. i \in 1..Len(read) /\ Len(read) \in Nat
    BY <2>1
  <2> QED
    BY <2>1, <2>2
<1>2. TseInv => StaleBeyond
  <2> SUFFICES ASSUME TseInv, iphase = "save", ~moved, ~crawling,
                      faults \cap {"page not opened", "crawl killed"} = {},
                      NEW i \in DOMAIN read
               PROVE  read[i].by.crawl = crawl <=> i < page_id
    BY DEF StaleBeyond
  <2>1. i \in DOMAIN pagedir /\ pagedir[i] = read[i]
    BY DEF TseInv, ReadInv
  <2>2. i \in 1..(page_id - 1) <=> i < page_id
    BY <1>1
  <2>3. DOMAIN saving = {} /\ faults \cap Lossy = {}
    BY DEF TseInv, CrawlInv, Lossy
  <2>4. i \in 1..(page_id - 1) => Opened(i)
    BY <2>3 DEF TseInv, CrawlInv
  <2>5. pagedir[i].by.crawl = crawl => i \in 1..(page_id - 1)
    BY <2>1 DEF TseInv, CrawlInv
  <2> QED
    BY <2>1, <2>2, <2>4, <2>5 DEF Opened
<1> QED
  BY <1>2, TseInvariant, PTL

\* The part of IndexExact about the directory: if no crawl has interfered, the pages that
\* the index is made of are in their files still, none of them is mixed of two, and they
\* are all before the first id that does not load, or before one whose load has failed.
ReadAll ==
  iphase = "save" /\ ~moved =>
    /\ "page not loaded" \notin faults => I!Loaded(Len(read) + 1) = NoPage
    /\ \A i \in DOMAIN read :
         pagedir[i] = read[i] /\ I!Loaded(i) # NoPage /\ i \notin DOMAIN mixed

\* The loop of the indexer stops only where no page loads or a load fails, and leaves out
\* no page before: when it saves its index, all that it has read is what the directory
\* holds, in spite of a pageload that reads a file in several reads.
THEOREM AllPagesAreRead == Spec => []ReadAll
<1>1. TseInv => ReadAll
  <2> SUFFICES ASSUME TseInv, iphase = "save", ~moved
               PROVE  /\ "page not loaded" \notin faults => I!Loaded(Len(read) + 1) = NoPage
                      /\ \A i \in DOMAIN read :
                           pagedir[i] = read[i] /\ I!Loaded(i) # NoPage /\ i \notin DOMAIN mixed
    BY DEF ReadAll
  <2>1. Len(read) + 1 = id /\ ("page not loaded" \notin faults => I!Loaded(id) = NoPage)
    <3>1. Len(read) = id - 1 /\ id \in Nat
      BY DEF TseInv, ReadInv, ReadTypes
    <3>2. "page not loaded" \notin faults => I!Loaded(id) = NoPage
      BY DEF TseInv, ReadInv
    <3>3. Len(read) + 1 = id
      BY <3>1
    <3> QED
      BY <3>2, <3>3
  <2>2. ASSUME NEW i \in DOMAIN read
        PROVE  pagedir[i] = read[i] /\ I!Loaded(i) # NoPage /\ i \notin DOMAIN mixed
    <3>1. /\ i \in DOMAIN pagedir /\ pagedir[i] = read[i] /\ PageLoad(pagedir[i]) # NoPage
          /\ i \notin DOMAIN mixed
      BY DEF TseInv, ReadInv
    <3> QED
      BY <3>1, SamePageLoad DEF I!Loaded
  <2> QED
    BY <2>1, <2>2
<1> QED
  BY <1>1, TseInvariant, PTL

\* UrlOfRanked for the documents that were read for the index the querier has opened: the
\* URL printed is that of the page whose words were indexed, or none, unless a later crawl
\* has opened its file since.
UrlOfRead ==
  [][\A r \in output' \ output :
       r.doc \in DOMAIN source.read /\ pagedir[r.doc].by = source.read[r.doc].by =>
         r.url \in {source.read[r.doc].by.page.url, Unknown}]_vars

\* What the querier prints next, of whichever document.
LEMMA Printed ==
  ASSUME [Next]_vars, NEW r \in output' \ output
  PROVE  r.url \in {GetUrl(r.doc), Unknown}
<1>1. RankDoc
  BY DEF Next, Crawling, Indexing, WhileLoaded, Querying, QuerierNext, querier, vars, Open, ReadLine,
         EndOfIndex, End, ReadQuery, EndOfDocs, NextQuery, locals
<1>2. PICK url \in {GetUrl(docID), Unknown} :
        r \in {[doc |-> docID, rank |-> Score(GetCounts(gtab, docID), seqs), url |-> url]}
  BY <1>1 DEF RankDoc
<1>3. r.doc = docID /\ r.url = url
  BY <1>2
<1> QED
  BY <1>3

\* Its URL is that of the page that was read, or none.
LEMMA PrintedUrl ==
  ASSUME TseInv, [Next]_vars, NEW r \in output' \ output,
         r.doc \in DOMAIN source.read, pagedir[r.doc].by = source.read[r.doc].by
  PROVE  r.url \in {source.read[r.doc].by.page.url, Unknown}
<1>1. r.url \in {GetUrl(r.doc), Unknown}
  BY Printed
<1>2. r.doc \in DOMAIN pagedir /\ Full(pagedir[r.doc])
  BY DEF TseInv, HistoryInv
<1>3. /\ File(pagedir[r.doc].by.page).header[1] = pagedir[r.doc].by.page.url
      /\ Len(File(pagedir[r.doc].by.page).header) = 3
  BY DEF File
<1>4. Len(pagedir[r.doc].header) = 3 /\ pagedir[r.doc].header[1] = pagedir[r.doc].by.page.url
  BY <1>2, <1>3 DEF Full
<1>5. pagedir[r.doc].header # <<>>
  BY <1>4
<1> QED
  BY <1>1, <1>2, <1>4, <1>5 DEF GetUrl

\* No URL is printed that is of another page of a crawl than the rank, in spite of files
\* that are written while the querier runs.
THEOREM UrlsAreOfPagesRead == Spec => UrlOfRead
<1>1. TseInv /\ [Next]_vars =>
        [\A r \in output' \ output :
           r.doc \in DOMAIN source.read /\ pagedir[r.doc].by = source.read[r.doc].by =>
             r.url \in {source.read[r.doc].by.page.url, Unknown}]_vars
  BY PrintedUrl
<1> QED
  BY <1>1, TseInvariant, PTL DEF Spec, UrlOfRead

-----------------------------------------------------------------------------
(***************************************************************************)
(* The sum of all counts of an index.                                      *)
(***************************************************************************)
\* What the postings of a list, and the entries of an index, add to a sum.
PostingCounts(ps) == [j \in DOMAIN ps |-> ps[j].count]

EntryCounts(index) == [i \in DOMAIN index |-> PlusCounts(0, index[i].postings)]

\* A fold over postings is a run that adds their counts.
LEMMA PlusCountsSteps ==
  ASSUME NEW ps \in PostingLists, NEW x \in Int
  PROVE  \E g : Adds(g, Len(ps), x, PostingCounts(ps)) /\ PlusCounts(x, ps) = g[Len(ps)]
<1> DEFINE CountFold(f) == f = [t \in SUBSET (DOMAIN ps) |->
             IF t = {} THEN x ELSE f[t \ {Max(t)}] + ps[Max(t)].count]
<1>1. PICK n \in Nat : /\ DOMAIN ps = 1..n /\ Len(ps) = n
                       /\ \A i \in 1..n : ps[i].count \in Int
  <2>1. \A i \in DOMAIN ps : ps[i].count \in Int
    BY PostingType DEF Ints
  <2> QED
    BY <2>1, PostingType
<1>2. PICK h : h = [y \in (1..n) \X Int |-> y[2] + ps[y[1]].count]
  OBVIOUS
<1>3. h \in [(1..n) \X Int -> Int] /\ \A i \in 1..n, v \in Int : h[<<i, v>>] = v + ps[i].count
  BY <1>1, <1>2
<1>4. PICK f \in [SUBSET (1..n) -> Int] : IsFold(f, n, x, h)
  BY <1>3, FoldExists
<1>5. \E e : CountFold(e)
  <2>1. ASSUME NEW t \in SUBSET (1..n), t # {}
        PROVE  h[<<Max(t), f[t \ {Max(t)}]>>] = f[t \ {Max(t)}] + ps[Max(t)].count
    BY <1>3, <1>4, <2>1, BeforeMax
  <2>2. CountFold(f)
    BY <1>1, <1>4, <2>1 DEF IsFold
  <2> QED
    BY <2>2
<1>6. PICK e : CountFold(e) /\ PlusCounts(x, ps) = e[1..n]
  <2>1. PlusCounts(x, ps) = (CHOOSE e : CountFold(e))[1..n]
    BY <1>1 DEF PlusCounts, FoldLeft, MapThenFoldSet
  <2> HIDE DEF CountFold
  <2> QED
    BY <1>5, <2>1
<1>7. e[{}] = x
  BY <1>6
<1>8. ASSUME NEW t \in SUBSET (1..n), t # {}, e[t \ {Max(t)}] \in Int
       PROVE  e[t] = h[<<Max(t), e[t \ {Max(t)}]>>]
  <2>1. Max(t) \in 1..n
    BY <1>8, BeforeMax
  <2>2. e[t] = e[t \ {Max(t)}] + ps[Max(t)].count
    BY <1>1, <1>6, <1>8
  <2> QED
    BY <1>3, <1>8, <2>1, <2>2
<1>9. PICK g : Runs(g, n, Int, x, h, e[1..n])
  BY <1>3, <1>7, <1>8, FoldSteps
<1>10. ASSUME NEW i \in 1..n PROVE g[i] = g[i - 1] + ps[i].count
  <2>1. i - 1 \in 0..n
    OBVIOUS
  <2>2. g[i] = h[<<i, g[i - 1]>>] /\ g[i - 1] \in Int
    BY <1>9, <2>1 DEF Runs
  <2> QED
    BY <1>3, <2>2
<1>11. Adds(g, n, x, PostingCounts(ps)) /\ PlusCounts(x, ps) = g[n]
  BY <1>1, <1>6, <1>9, <1>10 DEF Runs, Adds, PostingCounts
<1> QED
  BY <1>1, <1>11

\* The sum of the counts of a list is a number, which is added to any other.
LEMMA PlusCountsShift ==
  ASSUME NEW ps \in PostingLists, NEW x \in Int
  PROVE  PlusCounts(0, ps) \in Int /\ PlusCounts(x, ps) = PlusCounts(0, ps) + x
<1>1. PICK g : Adds(g, Len(ps), 0, PostingCounts(ps)) /\ PlusCounts(0, ps) = g[Len(ps)]
  BY PlusCountsSteps
<1>2. PICK h : Adds(h, Len(ps), x, PostingCounts(ps)) /\ PlusCounts(x, ps) = h[Len(ps)]
  BY PlusCountsSteps
<1>3. Len(ps) \in Nat /\ 0 + x = x
  BY PostingType
<1>4. h[Len(ps)] = g[Len(ps)] + x
  BY <1>1, <1>2, <1>3, SumsShift
<1>5. g[Len(ps)] \in Int
  BY <1>1, <1>3 DEF Adds
<1> QED
  BY <1>1, <1>2, <1>4, <1>5

\* A fold over entries is a run that adds the sums of their counts.
LEMMA AllCountsSteps ==
  ASSUME NEW W, NEW index \in Indexes(W)
  PROVE  \E g : Adds(g, Len(index), 0, EntryCounts(index)) /\ AllCounts(index) = g[Len(index)]
<1> DEFINE AllFold(f) == f = [t \in SUBSET (DOMAIN index) |->
             IF t = {} THEN 0 ELSE PlusCounts(f[t \ {Max(t)}], index[Max(t)].postings)]
<1>1. PICK n \in Nat : DOMAIN index = 1..n /\ Len(index) = n
  BY DEF Indexes
<1>2. ASSUME NEW i \in 1..n, NEW v \in Int
      PROVE  /\ PlusCounts(v, index[i].postings) = v + PlusCounts(0, index[i].postings)
             /\ PlusCounts(0, index[i].postings) \in Int
  <2>1. PICK ps \in PostingLists : ps = index[i].postings
    BY <1>1, EntryType
  <2>2. PlusCounts(0, ps) \in Int /\ PlusCounts(v, ps) = PlusCounts(0, ps) + v
    BY PlusCountsShift
  <2>3. PICK m \in Int : m = PlusCounts(0, ps)
    BY <2>2
  <2> QED
    BY <2>1, <2>2, <2>3
<1>3. PICK h : h = [y \in (1..n) \X Int |-> PlusCounts(y[2], index[y[1]].postings)]
  OBVIOUS
<1>4. /\ \A i \in 1..n, v \in Int : /\ h[<<i, v>>] = PlusCounts(v, index[i].postings)
                                    /\ h[<<i, v>>] \in Int
      /\ h \in [(1..n) \X Int -> Int]
  <2>1. \A i \in 1..n, v \in Int : PlusCounts(v, index[i].postings) \in Int
    <3> SUFFICES ASSUME NEW i \in 1..n, NEW v \in Int PROVE PlusCounts(v, index[i].postings) \in Int
      OBVIOUS
    <3>1. PICK m \in Int : m = PlusCounts(0, index[i].postings)
      BY <1>2
    <3>2. PlusCounts(v, index[i].postings) = v + m
      BY <1>2, <3>1
    <3> QED
      BY <3>2
  <2> QED
    BY <1>3, <2>1
<1>5. PICK z \in Int : z = 0
  OBVIOUS
<1>6. PICK f \in [SUBSET (1..n) -> Int] : IsFold(f, n, z, h)
  BY <1>4, FoldExists
<1>7. \E e : AllFold(e)
  <2>1. ASSUME NEW t \in SUBSET (1..n), t # {}
        PROVE  h[<<Max(t), f[t \ {Max(t)}]>>] = PlusCounts(f[t \ {Max(t)}], index[Max(t)].postings)
    BY <1>4, <1>6, <2>1, BeforeMax
  <2>2. AllFold(f)
    BY <1>1, <1>6, <1>5, <2>1 DEF IsFold
  <2> QED
    BY <2>2
<1>8. PICK e : AllFold(e) /\ AllCounts(index) = e[1..n]
  <2>1. AllCounts(index) = (CHOOSE e : AllFold(e))[1..n]
    BY <1>1 DEF AllCounts, FoldLeft, MapThenFoldSet
  <2> HIDE DEF AllFold
  <2> QED
    BY <1>7, <2>1
<1>9. e[{}] = z
  BY <1>8, <1>5
<1>10. ASSUME NEW t \in SUBSET (1..n), t # {}, e[t \ {Max(t)}] \in Int
      PROVE  e[t] = h[<<Max(t), e[t \ {Max(t)}]>>]
  <2>1. Max(t) \in 1..n
    BY <1>10, BeforeMax
  <2>2. e[t] = PlusCounts(e[t \ {Max(t)}], index[Max(t)].postings)
    BY <1>1, <1>8, <1>10
  <2> QED
    BY <1>4, <1>10, <2>1, <2>2
<1>11. PICK g : Runs(g, n, Int, z, h, e[1..n])
  BY <1>4, <1>9, <1>10, FoldSteps
<1>12. ASSUME NEW i \in 1..n
       PROVE  g[i] = g[i - 1] + EntryCounts(index)[i] /\ EntryCounts(index)[i] \in Int
  <2>1. i - 1 \in 0..n
    OBVIOUS
  <2>2. g[i] = h[<<i, g[i - 1]>>] /\ g[i - 1] \in Int
    BY <1>11, <2>1 DEF Runs
  <2>3. EntryCounts(index)[i] = PlusCounts(0, index[i].postings)
    BY <1>1 DEF EntryCounts
  <2> QED
    BY <1>2, <1>4, <2>2, <2>3
<1>13. Adds(g, n, 0, EntryCounts(index)) /\ AllCounts(index) = g[n]
  BY <1>8, <1>11, <1>12, <1>5 DEF Runs, Adds
<1> QED
  BY <1>1, <1>13

\* A posting added to a list adds its count to the sum, unless the sum of the counts of its
\* document is no int.
LEMMA PostingAddsCount ==
  ASSUME NEW ps \in PostingLists, OneEach(ps), NEW d \in 1..IntMax, NEW c \in 1..IntMax,
         \A n \in Ints : Has(ps, d, n) => n + c \in Ints
  PROVE  PlusCounts(0, AddToPostings(ps, d, c)) = PlusCounts(0, ps) + c
<1>1. PICK qs : qs = AddToPostings(ps, d, c)
  OBVIOUS
<1>2. qs \in PostingLists
  BY <1>1, AddToPostingsAdds
<1>3. PICK n \in Nat : DOMAIN ps = 1..n /\ Len(ps) = n
  BY PostingType
<1>4. PICK z \in Int : z = 0
  OBVIOUS
<1>5. PICK g : Adds(g, n, z, PostingCounts(ps)) /\ PlusCounts(z, ps) = g[n]
  BY <1>3, PlusCountsSteps
<1>6. PICK h : Adds(h, Len(qs), z, PostingCounts(qs)) /\ PlusCounts(z, qs) = h[Len(qs)]
  BY <1>2, PlusCountsSteps
<1>7. PICK a, b : a = PostingCounts(ps) /\ b = PostingCounts(qs)
  OBVIOUS
<1>8. CASE DocAt(ps, d) = {}
  <2>1. qs = Append(ps, Posting(d, c))
    BY <1>1, <1>8 DEF AddToPostings
  <2>2. /\ Len(qs) = n + 1 /\ DOMAIN qs = 1..(n + 1)
        /\ \A j \in 1..n : qs[j] = ps[j]
        /\ qs[n + 1] = Posting(d, c)
    BY <1>3, <2>1 DEF PostingLists
  <2>3. (\A j \in 1..n : b[j] = a[j]) /\ b[n + 1] = c
    <3>1. n + 1 \in DOMAIN qs /\ \A j \in 1..n : j \in DOMAIN qs
      BY <2>2
    <3> QED
      BY <1>3, <1>7, <2>2, <3>1 DEF PostingCounts, Posting
  <2>4. h[n + 1] = g[n] + b[n + 1]
    BY <1>5, <1>6, <1>7, <2>2, <2>3, SumsAppend
  <2> QED
    BY <1>1, <1>4, <1>5, <1>6, <2>2, <2>3, <2>4
<1>9. CASE DocAt(ps, d) # {}
  <2>1. PICK k \in DOMAIN ps : ps[k].docid = d
    BY <1>9 DEF DocAt
  <2>2. DocAt(ps, d) = {k}
    BY <2>1 DEF DocAt, OneEach
  <2>3. qs = [j \in DOMAIN ps |-> IF j = k THEN Posting(d, ToInt(ps[j].count + c)) ELSE ps[j]]
    BY <1>1, <2>2 DEF AddToPostings
  <2>4. ps[k].count \in Ints /\ Has(ps, d, ps[k].count)
    BY <2>1, PostingType DEF Has
  <2>5. ToInt(ps[k].count + c) = ps[k].count + c
    <3>1. PICK m \in Ints : m = ps[k].count
      BY <2>4
    <3>2. m + c \in Ints
      BY <2>4, <3>1
    <3>3. m + c \in Int
      BY DEF Ints
    <3> QED
      BY <3>1, <3>2, <3>3, ToIntIsInt
  <2>6. Len(qs) = n /\ DOMAIN qs = 1..n
    <3>1. DOMAIN qs = 1..n
      BY <1>3, <2>3
    <3>2. qs \in Seq([docid : 1..IntMax, count : Ints])
      BY <1>2 DEF PostingLists
    <3> QED
      BY <1>3, <3>1, <3>2
  <2>7. AddsMore(b, a, n, k, c)
    BY <1>3, <1>7, <2>1, <2>3, <2>5, <2>6 DEF PostingCounts, Posting, AddsMore
  <2>8. k \in 1..n /\ c \in Int
    BY <1>3
  <2>9. h[n] = g[n] + c
    BY <1>5, <1>6, <1>7, <2>6, <2>7, <2>8, SumsDiffer
  <2> QED
    BY <1>1, <1>4, <1>5, <1>6, <2>6, <2>9
<1> QED
  BY <1>8, <1>9

\* A word without postings adds nothing.
LEMMA EntryAddsNothing ==
  ASSUME NEW W, NEW index \in Indexes(W), NEW w \in W
  PROVE  AllCounts(WithEntry(index, w)) = AllCounts(index) /\ AllCounts(index) \in Int
<1>1. PICK x : x = WithEntry(index, w) /\ x \in Indexes(W)
  BY WithEntryKeeps
<1>2. PICK n \in Nat : DOMAIN index = 1..n /\ Len(index) = n
  BY DEF Indexes
<1>3. PICK z \in Int : z = 0
  OBVIOUS
<1>4. PICK g : Adds(g, n, z, EntryCounts(index)) /\ AllCounts(index) = g[n]
  BY <1>2, <1>3, AllCountsSteps
<1>5. g[n] \in Int
  BY <1>4 DEF Adds
<1>6. CASE WordAt(index, w) # {}
  BY <1>4, <1>5, <1>6 DEF WithEntry
<1>7. CASE WordAt(index, w) = {}
  <2>1. PICK new : new = [word |-> w, postings |-> <<>>]
    OBVIOUS
  <2>2. x = Append(index, new)
    BY <1>1, <1>7, <2>1 DEF WithEntry
  <2>3. Len(x) = n + 1 /\ DOMAIN x = 1..(n + 1) /\ (\A i \in 1..n : x[i] = index[i]) /\ x[n + 1] = new
    BY <1>2, <2>2 DEF Indexes
  <2>4. PICK h : Adds(h, n + 1, z, EntryCounts(x)) /\ AllCounts(x) = h[n + 1]
    BY <1>1, <1>3, <2>3, AllCountsSteps
  <2>5. PICK a, b : a = EntryCounts(index) /\ b = EntryCounts(x)
    OBVIOUS
  <2>6. PlusCounts(0, <<>>) = 0
    <3>0. <<>> \in PostingLists
      BY DEF PostingLists
    <3>1. PICK ps \in PostingLists : ps = <<>>
      BY <3>0
    <3>2. PICK f : Adds(f, Len(ps), z, PostingCounts(ps)) /\ PlusCounts(z, ps) = f[Len(ps)]
      BY PlusCountsSteps
    <3>3. Len(ps) = 0
      BY <3>1
    <3> QED
      BY <1>3, <3>1, <3>2, <3>3 DEF Adds
  <2>7. (\A i \in 1..n : b[i] = a[i]) /\ b[n + 1] = 0
    <3>1. n + 1 \in DOMAIN x /\ \A i \in 1..n : i \in DOMAIN x
      BY <2>3
    <3>2. new.postings = <<>>
      BY <2>1
    <3> QED
      BY <1>2, <2>3, <2>5, <2>6, <3>1, <3>2 DEF EntryCounts
  <2>8. h[n + 1] = g[n] + b[n + 1]
    BY <1>4, <2>4, <2>5, <2>7, SumsAppend
  <2> QED
    BY <1>1, <1>4, <1>5, <2>4, <2>7, <2>8
<1> QED
  BY <1>6, <1>7

\* A posting added to an index adds its count to the sum of all, unless the sum of the
\* counts of its word in its document is no int.
LEMMA AddPostingAddsCount ==
  ASSUME NEW W, NEW index \in Indexes(W), NEW w \in W, NEW d \in 1..IntMax, NEW c \in 1..IntMax,
         CountOf(index, w, d) + c \in Ints
  PROVE  AllCounts(AddPosting(index, w, d, c)) = AllCounts(index) + c
<1>1. PICK x, k :
        /\ x \in Indexes(W) /\ k \in DOMAIN x
        /\ x = WithEntry(index, w) /\ x[k].word = w
        /\ \A u, e, n : HasCount(x, u, e, n) <=> HasCount(index, u, e, n)
  BY WithEntryKeeps
<1>2. AllCounts(x) = AllCounts(index) /\ AllCounts(index) \in Int
  BY <1>1, EntryAddsNothing
<1>3. PICK n \in Nat : DOMAIN x = 1..n /\ Len(x) = n
  BY <1>1 DEF Indexes
<1>4. PICK y : y = AddPosting(index, w, d, c) /\ y \in Indexes(W)
  BY AddPostingAdds
<1>5. y = [i \in DOMAIN x |-> IF x[i].word = w THEN [x[i] EXCEPT !.postings = AddToPostings(@, d, c)]
                              ELSE x[i]]
  <2>1. Accepts(d, c)
    BY IndexAssumption DEF Accepts
  <2> QED
    BY <1>1, <1>4, <2>1 DEF AddPosting
<1>6. DOMAIN y = 1..n /\ Len(y) = n
  <2>1. DOMAIN y = 1..n
    BY <1>3, <1>5
  <2>2. y \in Seq(IndexEntries(W))
    BY <1>4 DEF Indexes
  <2> QED
    BY <1>3, <2>1, <2>2
<1>7. PICK ps \in PostingLists : ps = x[k].postings /\ OneEach(ps) /\ x[k] \in IndexEntries(W)
  BY <1>1, EntryType
<1>8. ASSUME NEW m \in Ints, Has(ps, d, m) PROVE m + c \in Ints
  <2>1. HasCount(x, w, d, m)
    BY <1>1, <1>7, <1>8 DEF HasCount
  <2>2. HasCount(index, w, d, m)
    BY <1>1, <2>1
  <2> QED
    BY <2>2, CountIs
<1>9. PlusCounts(0, AddToPostings(ps, d, c)) = PlusCounts(0, ps) + c /\ PlusCounts(0, ps) \in Int
  <2>1. 0 \in Int
    OBVIOUS
  <2> QED
    BY <1>7, <1>8, <2>1, PostingAddsCount, PlusCountsShift
<1>10. PICK z \in Int : z = 0
  OBVIOUS
<1>11. PICK g : Adds(g, n, z, EntryCounts(x)) /\ AllCounts(x) = g[n]
  BY <1>1, <1>3, <1>10, AllCountsSteps
<1>12. PICK h : Adds(h, n, z, EntryCounts(y)) /\ AllCounts(y) = h[n]
  BY <1>4, <1>6, <1>10, AllCountsSteps
<1>13. PICK a, b : a = EntryCounts(x) /\ b = EntryCounts(y)
  OBVIOUS
<1>14. \A i \in 1..n : i # k => x[i].word # w
  BY <1>1, <1>3, EntryType
<1>15. AddsMore(b, a, n, k, c)
  <2> SUFFICES ASSUME NEW i \in 1..n PROVE b[i] = IF i = k THEN a[i] + c ELSE a[i]
    BY DEF AddsMore
  <2>1. a[i] = PlusCounts(0, x[i].postings) /\ b[i] = PlusCounts(0, y[i].postings)
    BY <1>3, <1>6, <1>13 DEF EntryCounts
  <2>2. CASE i = k
    <3>1. y[i] = [x[k] EXCEPT !.postings = AddToPostings(ps, d, c)]
      BY <1>1, <1>3, <1>5, <1>7, <2>2
    <3>2. y[i].postings = AddToPostings(ps, d, c)
      BY <1>7, <3>1 DEF IndexEntries
    <3> QED
      BY <1>7, <1>9, <2>1, <2>2, <3>2
  <2>3. CASE i # k
    <3>1. y[i] = x[i]
      BY <1>3, <1>5, <1>14, <2>3
    <3> QED
      BY <2>1, <2>3, <3>1
  <2> QED
    BY <2>2, <2>3
<1>16. k \in 1..n /\ c \in Int
  BY <1>1, <1>3
<1>17. h[n] = g[n] + c
  BY <1>11, <1>12, <1>13, <1>15, <1>16, SumsDiffer
<1> QED
  BY <1>2, <1>4, <1>11, <1>12, <1>17

-----------------------------------------------------------------------------
\* The indexer scans pages as module Scan says.
LEMMA SameFindWord ==
  ASSUME NEW doc, NEW i
  PROVE  I!FindWord(doc, i) = FindWord(doc, i)
BY DEF I!FindWord, I!WordFrom, I!SelectInSubSeq, I!Min, FindWord, WordFrom, SelectInSubSeq, Min

\* It takes html for a string, and for words that are apart, as modules PageIO and Scan say.
LEMMA SameHtml ==
  ASSUME NEW h
  PROVE  I!CString(h) = CString(h) /\ (I!WordsApart(h) <=> WordsApart(h))
BY DEF I!CString, CString, I!WordsApart, WordsApart

\* It adds postings as module Index says.
LEMMA SameIndex ==
  ASSUME NEW x, NEW w, NEW d, NEW c
  PROVE  /\ I!WithEntry(x, w) = WithEntry(x, w)
         /\ I!AddPosting(x, w, d, c) = AddPosting(x, w, d, c)
<1>1. I!WithEntry(x, w) = WithEntry(x, w)
  BY DEF I!WithEntry, WithEntry, I!WordAt, WordAt
<1>2. I!AddPosting(x, w, d, c) = AddPosting(x, w, d, c)
  BY DEF I!AddPosting, AddPosting, I!WithEntry, WithEntry, I!WordAt, WordAt, I!Accepts, Accepts,
         I!AddToPostings, AddToPostings, I!DocAt, DocAt, I!Posting, Posting, I!ToInt, ToInt
<1> QED
  BY <1>1, <1>2

-----------------------------------------------------------------------------
(***************************************************************************)
(* What the index counts.                                                  *)
(***************************************************************************)
\* A sequence, of whatever elements.
IsSeq(s) == s \in Seq({s[k] : k \in DOMAIN s})

\* A sequence of elements of a set is one.
LEMMA SeqIsSeq ==
  ASSUME NEW S, NEW s \in Seq(S)
  PROVE  IsSeq(s)
<1>1. PICK U : U = {s[k] : k \in DOMAIN s}
  OBVIOUS
<1>2. \A k \in 1..Len(s) : s[k] \in U
  BY <1>1
<1>3. s \in Seq(U)
  BY <1>2
<1> QED
  BY <1>1, <1>3 DEF IsSeq

\* The html of a page as the scanner sees it: its length is an int, and a token of letters
\* is a word.
IsHtml(h) == IsSeq(h) /\ Len(h) <= IntMax /\ WordsApart(h)

\* The html of pages that are mixed of several files.
Htmls(m) == \A d \in DOMAIN m : IsHtml(m[d])

\* The positions in a page at which a word occurs outside of tags, and those of them up to
\* position p.
WordIn(w, h) == {n \in DOMAIN h : h[n] \in DOMAIN Norm /\ Norm[h[n]] = w /\ ~InTag(h, n)}

WordUpTo(w, h, p) == {n \in WordIn(w, h) : n <= p}

\* Html, cut off at its first null character, is still html.
LEMMA StringIsHtml ==
  ASSUME NEW h, IsHtml(h)
  PROVE  IsHtml(CString(h))
<1>2. /\ h \in Seq({h[i] : i \in DOMAIN h}) /\ Len(h) <= IntMax
      /\ \A i \in 1..(Len(h) - 1) : h[i] \in Letters => h[i + 1] \notin Letters
  BY DEF IsHtml, IsSeq, WordsApart
<1>3. Len(h) \in Nat /\ DOMAIN h = 1..Len(h) /\ IntMax \in Nat
  BY <1>2, IndexAssumption
<1> DEFINE nul == {i \in DOMAIN h : h[i] = Nul /\ \A j \in 1..(i - 1) : h[j] # Nul}
<1>4. CASE nul = {}
  <2>1. CString(h) = h
    BY <1>4 DEF CString
  <2> QED
    BY <2>1
<1>5. CASE nul # {}
  <2>1. PICK k : k = CHOOSE i \in nul : TRUE
    OBVIOUS
  <2>2. k \in nul
    BY <1>5, <2>1
  <2>3. k \in 1..Len(h)
    BY <1>3, <2>2
  <2>4. PICK c : c = SubSeq(h, 1, k - 1)
    OBVIOUS
  <2>5. CString(h) = c
    BY <1>5, <2>1, <2>4 DEF CString
  <2>6. /\ Len(c) = k - 1 /\ DOMAIN c = 1..(k - 1)
        /\ \A i \in 1..(k - 1) : c[i] = h[i]
        /\ c = [i \in 1..(k - 1) |-> c[i]]
    BY <1>2, <1>3, <2>3, <2>4
  <2>7. c \in Seq({c[i] : i \in DOMAIN c})
    <3>1. PICK S : S = {c[i] : i \in DOMAIN c}
      OBVIOUS
    <3>2. \A i \in 1..(k - 1) : c[i] \in S
      BY <2>6, <3>1
    <3>3. k - 1 \in Nat
      BY <2>3
    <3> QED
      BY <2>6, <3>1, <3>2, <3>3
  <2>8. Len(c) <= IntMax
    BY <1>2, <1>3, <2>3, <2>6
  <2>9. ASSUME NEW i \in 1..(Len(c) - 1), c[i] \in Letters PROVE c[i + 1] \notin Letters
    <3>1. i \in 1..(k - 1) /\ i + 1 \in 1..(k - 1) /\ i \in 1..(Len(h) - 1)
      BY <1>3, <2>3, <2>6, <2>9
    <3> QED
      BY <1>2, <2>6, <2>9, <3>1
  <2>10. WordsApart(c)
    BY <2>9 DEF WordsApart
  <2> QED
    BY <2>5, <2>7, <2>8, <2>10 DEF IsHtml, IsSeq
<1> QED
  BY <1>4, <1>5

\* So is that of a page.
LEMMA HtmlOfPage ==
  ASSUME NEW p \in Pages
  PROVE  IsHtml(p.html) /\ IsHtml(CString(p.html))
<1>1. PICK S \in Sites : p \in S
  BY DEF Pages
<1>2. IsHtml(p.html)
  BY <1>1, TseAssumption DEF IsHtml, IsSeq
<1> QED
  BY <1>2, StringIsHtml

\* The html read for a document is html.
LEMMA TextIsHtml ==
  ASSUME NEW r \in Seq(Stored), NEW m, Htmls(m), NEW d \in DOMAIN r
  PROVE  IsHtml(Text(r, m, d))
<1>1. r[d] \in Stored
  OBVIOUS
<1>2. r[d].by.page \in Pages
  BY <1>1, StoredBy
<1>3. IsHtml(CString(r[d].by.page.html))
  BY <1>2, HtmlOfPage
<1> QED
  BY <1>3 DEF Text, Htmls

\* The occurrences of a word up to a position are as many as an int can count.
LEMMA WordCounts ==
  ASSUME NEW h, IsHtml(h), NEW w, NEW p \in 0..Len(h)
  PROVE  /\ WordUpTo(w, h, 0) = {} /\ WordUpTo(w, h, Len(h)) = WordIn(w, h)
         /\ IsFiniteSet(WordUpTo(w, h, p)) /\ WordUpTo(w, h, p) \subseteq 1..p
         /\ Cardinality(WordUpTo(w, h, p)) \in 0..p
         /\ Cardinality(WordUpTo(w, h, p)) <= Cardinality(WordIn(w, h))
         /\ Cardinality(WordIn(w, h)) \in 0..IntMax
<1>1. Len(h) \in Nat /\ DOMAIN h = 1..Len(h) /\ Len(h) <= IntMax /\ IntMax \in Nat
  BY IndexAssumption DEF IsHtml, IsSeq
<1>2. \A q \in 0..Len(h) : WordUpTo(w, h, q) \subseteq 1..q
  BY <1>1 DEF WordUpTo, WordIn
<1>3. ASSUME NEW q \in 0..Len(h)
      PROVE  IsFiniteSet(WordUpTo(w, h, q)) /\ Cardinality(WordUpTo(w, h, q)) \in 0..q
  <2>1. q \in Nat /\ 1 \in Int
    BY <1>1
  <2>2. IsFiniteSet(1..q) /\ Cardinality(1..q) = q
    BY <2>1, FS_Interval
  <2>3. IsFiniteSet(WordUpTo(w, h, q)) /\ Cardinality(WordUpTo(w, h, q)) <= q
    BY <1>2, <2>2, FS_Subset
  <2>4. Cardinality(WordUpTo(w, h, q)) \in Nat
    BY <2>3, FS_CardinalityType
  <2> QED
    BY <2>1, <2>3, <2>4
<1>4. WordUpTo(w, h, 0) = {} /\ WordUpTo(w, h, Len(h)) = WordIn(w, h)
  BY <1>1 DEF WordUpTo, WordIn
<1>5. Len(h) \in 0..Len(h)
  BY <1>1
<1>6. IsFiniteSet(WordIn(w, h)) /\ Cardinality(WordIn(w, h)) \in 0..Len(h)
  BY <1>3, <1>4, <1>5
<1>7. Cardinality(WordUpTo(w, h, p)) <= Cardinality(WordIn(w, h))
  <2>1. WordUpTo(w, h, p) \subseteq WordIn(w, h)
    BY DEF WordUpTo
  <2> QED
    BY <1>6, <2>1, FS_Subset
<1> QED
  BY <1>1, <1>2, <1>3, <1>4, <1>6, <1>7

\* A word that the scan finds is one token, and the only one between that counts.
OneWord(h, p, f, l) ==
  /\ f = l /\ l \in (p + 1)..Len(h) /\ OutsideTags(h, l + 1)
  /\ \A w : WordUpTo(w, h, l) =
              WordUpTo(w, h, p) \cup {n \in {l} : h[n] \in DOMAIN Norm /\ Norm[h[n]] = w}

\* The scan finds one word after the other, and none that counts is left out.
LEMMA FoundIsOneWord ==
  ASSUME NEW h, IsHtml(h), NEW p \in 0..Len(h), OutsideTags(h, p + 1),
         NEW r, r = FindWord(h, p + 1)
  PROVE  /\ r.kind = "found" => OneWord(h, p, r.first, r.last)
         /\ r.kind = "end" => \A w : WordUpTo(w, h, p) = WordIn(w, h)
<1>1. PICK S : h \in Seq(S)
  BY DEF IsHtml, IsSeq
<1>2. PICK n \in Nat : n = Len(h) /\ DOMAIN h = 1..n /\ p \in 0..n
  BY <1>1
<1>3. Scans(h, p + 1, r)
  <2>1. p + 1 \in 1..(Len(h) + 1)
    BY <1>2
  <2> QED
    BY <1>1, <2>1, FindWordScans
<1>4. \A k \in 1..n : h[k] \in DOMAIN Norm /\ ~InTag(h, k) => IsText(h, k)
  BY TseAssumption DEF IsText
<1>5. ASSUME r.kind = "found" PROVE OneWord(h, p, r.first, r.last)
  <2>1. PICK f, l : f = r.first /\ l = r.last
    OBVIOUS
  <2>2. /\ f \in (p + 1)..n /\ l \in f..n /\ NoText(h, p + 1, f - 1) /\ OutsideTags(h, f)
        /\ \A j \in f..l : h[j] \in Letters
    BY <1>2, <1>3, <1>5, <2>1 DEF Scans
  <2>3. f = l
    <3> SUFFICES ASSUME f # l PROVE FALSE
      OBVIOUS
    <3>1. f \in 1..(n - 1) /\ f \in f..l /\ f + 1 \in f..l
      BY <2>2
    <3> QED
      BY <1>2, <2>2, <3>1 DEF IsHtml, WordsApart
  <2>4. OutsideTags(h, l + 1) /\ \A j \in f..l : IsText(h, j)
    <3>1. f \in 1..Len(h) /\ l \in f..Len(h)
      BY <1>2, <2>2
    <3> QED
      BY <1>1, <2>2, <3>1, WordOutside
  <2>5. IsText(h, l) /\ l \in (p + 1)..n
    BY <2>2, <2>3, <2>4
  <2>6. \A k \in (p + 1)..(l - 1) : ~IsText(h, k)
    BY <2>2, <2>3 DEF NoText
  <2>7. ASSUME NEW w
        PROVE  WordUpTo(w, h, l) =
                 WordUpTo(w, h, p) \cup {k \in {l} : h[k] \in DOMAIN Norm /\ Norm[h[k]] = w}
    <3>1. ASSUME NEW k \in WordUpTo(w, h, l), k # l PROVE k \in WordUpTo(w, h, p)
      <4>1. k \in 1..n /\ k <= l /\ IsText(h, k)
        BY <1>2, <1>4, <3>1 DEF WordUpTo, WordIn
      <4>2. k <= p
        BY <1>2, <2>5, <2>6, <3>1, <4>1
      <4> QED
        BY <3>1, <4>2 DEF WordUpTo
    <3>2. WordUpTo(w, h, p) \subseteq WordUpTo(w, h, l)
      <4>1. \A k \in 1..n : k <= p => k <= l
        BY <1>2, <2>5
      <4> QED
        BY <1>2, <4>1 DEF WordUpTo, WordIn
    <3>3. l \in WordUpTo(w, h, l) <=> h[l] \in DOMAIN Norm /\ Norm[h[l]] = w
      BY <1>2, <2>5 DEF WordUpTo, WordIn, IsText
    <3> QED
      BY <3>1, <3>2, <3>3
  <2> QED
    BY <1>2, <2>1, <2>3, <2>4, <2>5, <2>7 DEF OneWord
<1>6. ASSUME r.kind = "end", NEW w PROVE WordUpTo(w, h, p) = WordIn(w, h)
  <2>1. NoText(h, p + 1, n)
    BY <1>2, <1>3, <1>6 DEF Scans
  <2>2. \A k \in WordIn(w, h) : k \in 1..n /\ ~(k \in (p + 1)..n)
    BY <1>2, <1>4, <2>1 DEF WordIn, NoText
  <2>3. \A k \in WordIn(w, h) : k <= p
    BY <1>2, <2>2
  <2> QED
    BY <2>3 DEF WordUpTo
<1> QED
  BY <1>5, <1>6

\* The ids are ints, and so are those of the page files.
DirInv == page_id <= MaxPages + 1 /\ DOMAIN pagedir \subseteq 1..MaxPages

\* How often a word was seen in a document: in the one that is being read up to position p
\* of its html h, in those that were read to the end.
SeenIn(ph, i, h, p, r, m, w, d) ==
  IF ph = "words" /\ d = i THEN Cardinality(WordUpTo(w, h, p)) ELSE TrueCount(r, m, w, d)

Seen(w, d) == SeenIn(iphase, id, page.html, pos, read, mixed, w, d)

\* The indexer is outside of tags in the page that it has loaded last.
InPage ==
  /\ IsHtml(page.html) /\ page.html = Text(read, mixed, id)
  /\ pos \in 0..Len(page.html) /\ OutsideTags(page.html, pos + 1)

\* The index has the counts of what was seen, and the number that is printed is their sum;
\* if postings were lost the counts are lower.
Counts(w, d) == CountOf(idx, w, d) \in 0..Seen(w, d) /\ (~lost => CountOf(idx, w, d) = Seen(w, d))

\* What has been read of several files is html as far as it goes.
PartInv ==
  iphase = "read" =>
    /\ DOMAIN part = {"file", "now", "html"}
    /\ IsSeq(part.html) /\ (part.now # part.file => WordsApart(part.html))

CountInv ==
  /\ Htmls(mixed) /\ PartInv
  /\ idx \in Indexes(DOMAIN Stumps) /\ stream_count \in Nat
  /\ AllCounts(idx) <= stream_count /\ (~lost => AllCounts(idx) = stream_count)
  /\ iphase = "words" => InPage
  /\ \A w \in DOMAIN Stumps, d \in 1..IntMax : Counts(w, d)

\* The sum of all counts is a number, 0 for an empty index.
LEMMA AllCountsType ==
  ASSUME NEW W
  PROVE  AllCounts(<<>>) = 0 /\ \A index \in Indexes(W) : AllCounts(index) \in Int
<1>1. ASSUME NEW index \in Indexes(W) PROVE AllCounts(index) \in Int /\ (Len(index) = 0 => AllCounts(index) = 0)
  <2>1. PICK g : Adds(g, Len(index), 0, EntryCounts(index)) /\ AllCounts(index) = g[Len(index)]
    BY AllCountsSteps
  <2>2. Len(index) \in 0..Len(index)
    BY DEF Indexes
  <2> QED
    BY <2>1, <2>2 DEF Adds
<1>2. PICK none \in Indexes(W) : none = <<>>
  BY EmptyIndex
<1>3. Len(none) = 0
  BY <1>2
<1> QED
  BY <1>1, <1>2, <1>3

\* What was seen is an int.
LEMMA SeenType ==
  ASSUME NEW ph, NEW i, NEW h, NEW p, NEW r \in Seq(Stored), NEW m, Htmls(m), NEW w, NEW d,
         ph = "words" => IsHtml(h) /\ p \in 0..Len(h)
  PROVE  SeenIn(ph, i, h, p, r, m, w, d) \in 0..IntMax
<1>1. IntMax \in Nat
  BY IndexAssumption
<1>2. CASE ph = "words" /\ d = i
  <2>1. Cardinality(WordUpTo(w, h, p)) \in 0..p /\ Len(h) <= IntMax /\ Len(h) \in Nat
    BY <1>2, WordCounts DEF IsHtml, IsSeq
  <2>2. p <= IntMax /\ p \in Nat
    BY <1>1, <1>2, <2>1
  <2> QED
    BY <1>1, <1>2, <2>1, <2>2 DEF SeenIn
<1>3. CASE ~(ph = "words" /\ d = i)
  <2>1. SeenIn(ph, i, h, p, r, m, w, d) = TrueCount(r, m, w, d)
    BY <1>3 DEF SeenIn
  <2>2. CASE d \notin DOMAIN r
    BY <1>1, <2>1, <2>2 DEF TrueCount
  <2>3. CASE d \in DOMAIN r
    <3>3. PICK c : c = Text(r, m, d) /\ IsHtml(c)
      BY <2>3, TextIsHtml
    <3>4. 0 \in 0..Len(c)
      BY <3>3 DEF IsHtml, IsSeq
    <3>5. Cardinality(WordIn(w, c)) \in 0..IntMax
      BY <3>3, <3>4, WordCounts
    <3>6. TrueCount(r, m, w, d) = Cardinality(WordIn(w, c))
      BY <2>3, <3>3 DEF TrueCount, Occurrences, WordIn
    <3> QED
      BY <2>1, <3>5, <3>6
  <2> QED
    BY <2>2, <2>3
<1> QED
  BY <1>2, <1>3

\* The same at any time.
LEMMA SeenNow ==
  ASSUME NEW w, NEW d, iphase = "words" => InPage, read \in Seq(Stored), Htmls(mixed)
  PROVE  Seen(w, d) \in 0..IntMax
BY SeenType DEF Seen, InPage

\* The word that was found has been seen once more.
LEMMA SeenNext ==
  ASSUME InPage, iphase = "words", read \in Seq(Stored), NEW r, r = FindWord(page.html, pos + 1), r.kind = "found",
         iphase' = "words", page' = page, id' = id, read' = read, mixed' = mixed, pos' = r.last
  PROVE  /\ InPage'
         /\ \A w, d : Seen(w, d)' = IF /\ d = id /\ page.html[r.first] \in DOMAIN Norm
                                       /\ Norm[page.html[r.first]] = w
                                    THEN Seen(w, d) + 1 ELSE Seen(w, d)
<1>1. PICK h, p, f, l : h = page.html /\ p = pos /\ f = r.first /\ l = r.last
  OBVIOUS
<1>2. IsHtml(h) /\ p \in 0..Len(h) /\ OutsideTags(h, p + 1) /\ h = Text(read, mixed, id)
  BY <1>1 DEF InPage
<1>3. OneWord(h, p, f, l)
  BY <1>1, <1>2, FoundIsOneWord
<1>4. f = l /\ l \in (p + 1)..Len(h) /\ Len(h) \in Nat
  BY <1>2, <1>3 DEF OneWord, IsHtml, IsSeq
<1>5. InPage'
  <2>1. l \in 0..Len(h)
    BY <1>2, <1>4
  <2> QED
    BY <1>1, <1>2, <1>3, <2>1 DEF InPage, OneWord, Text
<1>6. ASSUME NEW w
      PROVE  Cardinality(WordUpTo(w, h, l)) =
               IF h[l] \in DOMAIN Norm /\ Norm[h[l]] = w THEN Cardinality(WordUpTo(w, h, p)) + 1
               ELSE Cardinality(WordUpTo(w, h, p))
  <2>1. WordUpTo(w, h, l) = WordUpTo(w, h, p) \cup {n \in {l} : h[n] \in DOMAIN Norm /\ Norm[h[n]] = w}
    BY <1>3 DEF OneWord
  <2>2. CASE h[l] \in DOMAIN Norm /\ Norm[h[l]] = w
    <3>1. WordUpTo(w, h, l) = WordUpTo(w, h, p) \cup {l}
      BY <2>1, <2>2
    <3>2. IsFiniteSet(WordUpTo(w, h, p)) /\ WordUpTo(w, h, p) \subseteq 1..p
      BY <1>2, WordCounts
    <3>3. l \notin 1..p
      BY <1>2, <1>4
    <3>4. l \notin WordUpTo(w, h, p)
      BY <3>2, <3>3
    <3>5. Cardinality(WordUpTo(w, h, p) \cup {l}) = Cardinality(WordUpTo(w, h, p)) + 1
      BY <3>2, <3>4, FS_AddElement
    <3> QED
      BY <2>2, <3>1, <3>5
  <2>3. CASE ~(h[l] \in DOMAIN Norm /\ Norm[h[l]] = w)
    <3>1. WordUpTo(w, h, l) = WordUpTo(w, h, p)
      BY <2>1, <2>3
    <3> QED
      BY <2>3, <3>1
  <2> QED
    BY <2>2, <2>3
<1>7. ASSUME NEW w, NEW d
      PROVE  Seen(w, d)' = IF d = id /\ h[f] \in DOMAIN Norm /\ Norm[h[f]] = w
                           THEN Seen(w, d) + 1 ELSE Seen(w, d)
  <2>1. CASE d = id
    <3>1. Seen(w, d) = Cardinality(WordUpTo(w, h, p))
      BY <1>1, <2>1 DEF Seen, SeenIn
    <3>2. Seen(w, d)' = Cardinality(WordUpTo(w, h, l))
      BY <1>1, <2>1 DEF Seen, SeenIn
    <3> QED
      BY <1>4, <1>6, <2>1, <3>1, <3>2
  <2>2. CASE d # id
    BY <2>2 DEF Seen, SeenIn, TrueCount, Text
  <2> QED
    BY <2>1, <2>2
<1> QED
  BY <1>1, <1>5, <1>7

\* A new posting of the word that was found counts what was seen.
LEMMA NextWordCounts ==
  ASSUME TseInv, DirInv, CountInv, I!NextWord
  PROVE  CountInv'
<1>1. PICK r : r = FindWord(page.html, pos + 1)
  OBVIOUS
<1>2. /\ iphase = "words" /\ iphase' = "words" /\ r.kind = "found" /\ pos' = r.last
      /\ id' = id /\ page' = page /\ read' = read /\ mixed' = mixed /\ lost' = lost
      /\ IF page.html[r.first] \in DOMAIN Norm
         THEN /\ idx' = AddPosting(idx, Norm[page.html[r.first]], id, 1)
              /\ stream_count' = stream_count + 1
         ELSE idx' = idx /\ stream_count' = stream_count
  <2>1. I!Found = r
    BY <1>1, SameFindWord DEF I!Found
  <2> QED
    BY <2>1, SameIndex DEF I!NextWord, I!Word
<1>3. PICK v : v = page.html[r.first]
  OBVIOUS
<1>4. /\ InPage /\ read \in Seq(Stored) /\ Len(read) = id /\ id \in DOMAIN read
      /\ Htmls(mixed) /\ Htmls(mixed)' /\ PartInv'
      /\ idx \in Indexes(DOMAIN Stumps) /\ stream_count \in Nat
      /\ AllCounts(idx) <= stream_count /\ (~lost => AllCounts(idx) = stream_count)
      /\ \A w \in DOMAIN Stumps, d \in 1..IntMax : Counts(w, d)
  <2>1. id \in Nat \ {0} /\ read \in Seq(Stored) /\ Len(read) = id
    BY <1>2 DEF TseInv, ReadTypes, ReadInv
  <2>2. PartInv'
    BY <1>2 DEF PartInv
  <2> QED
    BY <1>2, <2>1, <2>2 DEF CountInv, Htmls
<1>5. id \in 1..IntMax
  <2>1. id \in DOMAIN pagedir
    BY <1>4, ReadHistory DEF HistoryInv
  <2> QED
    BY <2>1, TseAssumption, IndexAssumption DEF DirInv
<1>6. /\ InPage'
      /\ \A w, d : Seen(w, d)' = IF d = id /\ v \in DOMAIN Norm /\ Norm[v] = w
                                 THEN Seen(w, d) + 1 ELSE Seen(w, d)
  BY <1>1, <1>2, <1>3, <1>4, SeenNext
<1>7. \A w, d : Seen(w, d)' \in 0..IntMax
  <2>1. PICK h, p, t, m : h = page'.html /\ p = pos' /\ t = read' /\ m = mixed'
    OBVIOUS
  <2>2. t \in Seq(Stored) /\ Htmls(m) /\ IsHtml(h) /\ p \in 0..Len(h)
    BY <1>2, <1>4, <1>6, <2>1 DEF InPage
  <2>3. \A w, d : SeenIn(iphase', id', h, p, t, m, w, d) \in 0..IntMax
    BY <2>2, SeenType
  <2> QED
    BY <2>1, <2>3 DEF Seen
<1>8. CASE v \notin DOMAIN Norm
  <2>1. ASSUME NEW w \in DOMAIN Stumps, NEW d \in 1..IntMax PROVE Counts(w, d)'
    BY <1>2, <1>3, <1>4, <1>6, <1>8 DEF Counts
  <2> QED
    BY <1>2, <1>3, <1>4, <1>6, <1>8, <2>1 DEF CountInv
<1>9. CASE v \in DOMAIN Norm
  <2>1. PICK u \in DOMAIN Stumps : u = Norm[v]
    BY <1>9, TseAssumption
  <2>2. idx' = AddPosting(idx, u, id, 1) /\ stream_count' = stream_count + 1
    BY <1>2, <1>3, <1>9, <2>1
  <2>3. 1 \in 1..IntMax /\ IntMax \in Nat
    BY IndexAssumption
  <2>4. /\ CountOf(idx', u, id) = ToInt(CountOf(idx, u, id) + 1)
        /\ \A w, d : ~(w = u /\ d = id) => CountOf(idx', w, d) = CountOf(idx, w, d)
    BY <1>4, <1>5, <2>2, <2>3, CountAdds
  <2>5. PICK m \in Nat : m = CountOf(idx, u, id) /\ m + 1 <= Seen(u, id)' /\ (~lost => m + 1 = Seen(u, id)')
    <3>1. CountOf(idx, u, id) \in 0..Seen(u, id) /\ (~lost => CountOf(idx, u, id) = Seen(u, id))
      BY <1>4, <1>5 DEF Counts
    <3>2. Seen(u, id)' = Seen(u, id) + 1
      BY <1>2, <1>6, <1>9, <2>1
    <3>3. Seen(u, id) \in 0..IntMax
      BY <1>4, SeenNow
    <3> QED
      BY <2>3, <3>1, <3>2, <3>3
  <2>6. m + 1 \in Ints /\ ToInt(m + 1) = m + 1
    <3>1. Seen(u, id)' \in 0..IntMax
      BY <1>7
    <3>2. m + 1 \in 0..IntMax
      BY <2>3, <2>5, <3>1
    <3>3. m + 1 \in Ints /\ m + 1 \in Int
      BY <2>3, <3>2 DEF Ints
    <3> QED
      BY <3>3, ToIntIsInt
  <2>7. AllCounts(idx') = AllCounts(idx) + 1 /\ AllCounts(idx) \in Int
    BY <1>4, <1>5, <2>2, <2>3, <2>5, <2>6, AddPostingAddsCount, AllCountsType
  <2>8. idx' \in Indexes(DOMAIN Stumps)
    BY <1>4, <1>5, <2>2, <2>3, AddPostingAdds
  <2>9. stream_count' \in Nat /\ AllCounts(idx') <= stream_count' /\ (~lost' => AllCounts(idx') = stream_count')
    BY <1>2, <1>4, <2>2, <2>7
  <2>10. ASSUME NEW w \in DOMAIN Stumps, NEW d \in 1..IntMax PROVE Counts(w, d)'
    <3>1. CASE w = u /\ d = id
      <4>1. CountOf(idx', w, d) = m + 1
        BY <2>4, <2>5, <2>6, <3>1
      <4>2. Seen(u, id)' \in 0..IntMax
        BY <1>7
      <4> QED
        BY <1>2, <2>5, <3>1, <4>1, <4>2 DEF Counts
    <3>2. CASE ~(w = u /\ d = id)
      <4>1. CountOf(idx', w, d) = CountOf(idx, w, d)
        BY <2>4, <3>2
      <4>2. Seen(w, d)' = Seen(w, d)
        BY <1>6, <2>1, <3>2
      <4> QED
        BY <1>2, <1>4, <4>1, <4>2 DEF Counts
    <3> QED
      BY <3>1, <3>2
  <2> QED
    BY <1>4, <1>6, <2>8, <2>9, <2>10 DEF CountInv
<1> QED
  BY <1>8, <1>9

\* A posting for which there is no memory is not counted in the index.
LEMMA NextWordLostCounts ==
  ASSUME TseInv, CountInv, I!NextWordLost
  PROVE  CountInv'
<1>1. PICK r : r = FindWord(page.html, pos + 1)
  OBVIOUS
<1>2. PICK v : v = page.html[r.first]
  OBVIOUS
<1>3. /\ iphase = "words" /\ iphase' = "words" /\ r.kind = "found" /\ pos' = r.last /\ v \in DOMAIN Norm
      /\ id' = id /\ page' = page /\ read' = read /\ mixed' = mixed /\ lost' = TRUE
      /\ idx' \in {idx, WithEntry(idx, Norm[v])} /\ stream_count' = stream_count + 1
  <2>1. I!Found = r
    BY <1>1, SameFindWord DEF I!Found
  <2> QED
    BY <1>2, <2>1, SameIndex DEF I!NextWordLost, I!Word
<1>4. /\ InPage /\ read \in Seq(Stored) /\ Htmls(mixed) /\ Htmls(mixed)' /\ PartInv'
      /\ idx \in Indexes(DOMAIN Stumps) /\ stream_count \in Nat
      /\ AllCounts(idx) <= stream_count
      /\ \A w \in DOMAIN Stumps, d \in 1..IntMax : Counts(w, d)
  BY <1>3 DEF TseInv, ReadTypes, CountInv, Htmls, PartInv
<1>5. /\ InPage'
      /\ \A w, d : Seen(w, d)' = IF d = id /\ v \in DOMAIN Norm /\ Norm[v] = w
                                 THEN Seen(w, d) + 1 ELSE Seen(w, d)
  BY <1>1, <1>2, <1>3, <1>4, SeenNext
<1>6. PICK u \in DOMAIN Stumps : u = Norm[v]
  BY <1>3, TseAssumption
<1>7. /\ idx' \in Indexes(DOMAIN Stumps) /\ AllCounts(idx') = AllCounts(idx) /\ AllCounts(idx) \in Int
      /\ \A w, d : CountOf(idx', w, d) = CountOf(idx, w, d)
  <2>1. CASE idx' = idx
    BY <1>4, <2>1, AllCountsType
  <2>2. CASE idx' = WithEntry(idx, u)
    <3>1. /\ idx' \in Indexes(DOMAIN Stumps)
          /\ \A w, d, n : HasCount(idx', w, d, n) <=> HasCount(idx, w, d, n)
      BY <1>4, <2>2, WithEntryKeeps
    <3>2. AllCounts(idx') = AllCounts(idx) /\ AllCounts(idx) \in Int
      BY <1>4, <2>2, EntryAddsNothing
    <3>3. ASSUME NEW w, NEW d PROVE CountOf(idx', w, d) = CountOf(idx, w, d)
      BY <1>4, <3>1, SameCount
    <3> QED
      BY <3>1, <3>2, <3>3
  <2> QED
    BY <1>3, <1>6, <2>1, <2>2
<1>8. ASSUME NEW w \in DOMAIN Stumps, NEW d \in 1..IntMax PROVE Counts(w, d)'
  <2>1. Seen(w, d) \in 0..IntMax /\ CountOf(idx, w, d) \in 0..Seen(w, d)
    BY <1>4, SeenNow DEF Counts
  <2>2. Seen(w, d)' = Seen(w, d) \/ Seen(w, d)' = Seen(w, d) + 1
    BY <1>5
  <2>3. CountOf(idx', w, d) = CountOf(idx, w, d)
    BY <1>7
  <2>4. CountOf(idx, w, d) \in 0..Seen(w, d)'
    BY <2>1, <2>2, IndexAssumption
  <2> QED
    BY <1>3, <2>3, <2>4 DEF Counts
<1> QED
  BY <1>3, <1>4, <1>5, <1>7, <1>8 DEF CountInv

\* Nothing has been seen of a page that was just loaded, of file f and with html h.
LEMMA PageCounts ==
  ASSUME TseInv, CountInv, iphase \in {"load", "read"}, NEW f \in Stored, NEW h, IsHtml(h),
         iphase' = "words", id' = id, pos' = 0, page'.html = h, read' = Append(read, f),
         UNCHANGED <<idx, stream_count, lost>>,
         Htmls(mixed)', h = Text(read, mixed, id)',
         \A i \in DOMAIN read : i \in DOMAIN mixed' <=> i \in DOMAIN mixed,
         \A i \in DOMAIN read : i \in DOMAIN mixed => mixed'[i] = mixed[i]
  PROVE  CountInv'
<1>1. read \in Seq(Stored) /\ Len(read) = id - 1 /\ id \in Nat \ {0}
  BY DEF TseInv, ReadTypes, ReadInv
<1>2. /\ DOMAIN read' = DOMAIN read \cup {id} /\ id \notin DOMAIN read
      /\ \A i \in DOMAIN read : read'[i] = read[i]
  <2>1. DOMAIN read = 1..(id - 1) /\ read' \in Seq(Stored) /\ Len(read') = id
    BY <1>1
  <2>2. DOMAIN read' = 1..id /\ 1..id = 1..(id - 1) \cup {id} /\ id \notin 1..(id - 1)
    BY <1>1, <2>1
  <2> QED
    BY <1>1, <2>1, <2>2
<1>3. InPage'
  <2>1. 0 \in 0..Len(h) /\ OutsideTags(h, 1)
    BY DEF OutsideTags, IsHtml, IsSeq
  <2> QED
    BY <2>1 DEF InPage
<1>4. ASSUME NEW w, NEW d PROVE Seen(w, d)' = Seen(w, d)
  <2>1. CASE d = id
    <3>1. 0 \in 0..Len(h)
      BY DEF IsHtml, IsSeq
    <3>2. WordUpTo(w, h, 0) = {}
      BY <3>1, WordCounts
    <3>3. Seen(w, d)' = Cardinality({})
      BY <2>1, <3>2 DEF Seen, SeenIn
    <3>4. Seen(w, d) = 0
      BY <1>2, <2>1 DEF Seen, SeenIn, TrueCount
    <3> QED
      BY <3>3, <3>4, FS_EmptySet
  <2>2. CASE d # id
    <3>1. Seen(w, d)' = TrueCount(read, mixed, w, d)' /\ Seen(w, d) = TrueCount(read, mixed, w, d)
      BY <2>2 DEF Seen, SeenIn
    <3>2. CASE d \in DOMAIN read
      <4>1. Text(read, mixed, d)' = Text(read, mixed, d)
        BY <1>2, <3>2 DEF Text
      <4>2. d \in DOMAIN read'
        BY <1>2, <3>2
      <4> QED
        BY <3>1, <3>2, <4>1, <4>2 DEF TrueCount
    <3>3. CASE d \notin DOMAIN read
      BY <1>2, <2>2, <3>1, <3>3 DEF TrueCount
    <3> QED
      BY <3>2, <3>3
  <2> QED
    BY <2>1, <2>2
<1>5. ASSUME NEW w \in DOMAIN Stumps, NEW d \in 1..IntMax PROVE Counts(w, d)'
  BY <1>4 DEF CountInv, Counts
<1> QED
  BY <1>3, <1>5 DEF CountInv, PartInv

\* The page of a file, loaded at once or in several reads,
LEMMA LoadPageCounts ==
  ASSUME TseInv, CountInv, I!LoadPage \/ I!EndRead
  PROVE  CountInv'
<1>1. PICK f : f = pagedir[id]
  OBVIOUS
<1>2. /\ iphase \in {"load", "read"} /\ iphase' = "words" /\ id' = id /\ page' = I!Loaded(id) /\ pos' = 0
      /\ read' = Append(read, f) /\ I!Loaded(id) # NoPage /\ mixed' = mixed
      /\ idx' = idx /\ stream_count' = stream_count /\ lost' = lost
  BY <1>1 DEF I!LoadPage, I!EndRead, I!PageReturned
<1>3. f \in Stored /\ PageLoad(f) # NoPage /\ page' = PageLoad(f)
  <2>1. id \in DOMAIN pagedir /\ PageLoad(pagedir[id]) # NoPage
    BY <1>2, LoadedIsFull
  <2> QED
    BY <1>1, <1>2, <2>1, SamePageLoad DEF I!Loaded, TseInv, CrawlTypes
<1>4. PICK p \in Pages : p = f.by.page /\ PageLoad(f) = [p EXCEPT !.html = CString(@)]
  BY <1>3, LoadOfStored, StoredBy
<1>5. PICK h : h = CString(p.html) /\ IsHtml(h) /\ page'.html = h
  <2>1. p = [url |-> p.url, depth |-> p.depth, html |-> p.html]
    BY PageType
  <2>2. [p EXCEPT !.html = CString(@)].html = CString(p.html)
    BY <2>1
  <2> QED
    BY <1>3, <1>4, <2>2, HtmlOfPage
<1>6. read \in Seq(Stored) /\ Len(read) = id - 1 /\ id \in Nat \ {0} /\ DOMAIN mixed \subseteq DOMAIN read
  BY <1>2 DEF TseInv, ReadTypes, ReadInv
<1>7. h = Text(read, mixed, id)'
  <2>1. DOMAIN read = 1..(id - 1) /\ read'[id] = f
    BY <1>2, <1>3, <1>6
  <2>2. id \notin DOMAIN mixed
    BY <1>6, <2>1
  <2> QED
    BY <1>2, <1>4, <1>5, <2>1, <2>2 DEF Text
<1>8. Htmls(mixed)'
  BY <1>2 DEF CountInv, Htmls
<1> QED
  BY <1>2, <1>3, <1>5, <1>7, <1>8, PageCounts

\* or that which is mixed of several files.
LEMMA MixedPageCounts ==
  ASSUME TseInv, CountInv, I!EndReadMixed
  PROVE  CountInv'
<1>1. PICK f, h : f = part.file /\ h = I!CString(part.html)
  OBVIOUS
<1>2. /\ iphase = "read" /\ iphase' = "words" /\ id' = id /\ page'.html = h /\ pos' = 0
      /\ part.now # part.file /\ Len(part.html) = f.header[3]
      /\ read' = Append(read, f)
      /\ mixed' = [i \in DOMAIN mixed \cup {id} |-> IF i = id THEN h ELSE mixed[i]]
      /\ idx' = idx /\ stream_count' = stream_count /\ lost' = lost
  BY <1>1 DEF I!EndReadMixed, I!PageReturned
<1>3. /\ read \in Seq(Stored) /\ Len(read) = id - 1 /\ id \in Nat \ {0}
      /\ Files \in Seq(Stored) /\ Files = Append(read, f) /\ HistoryInv(Files)
  BY <1>1, <1>2 DEF TseInv, ReadTypes, ReadInv, Files
<1>4. f \in Stored /\ Full(f)
  <2>1. PICK S : S = Stored \cup {f}
    OBVIOUS
  <2>2. read \in Seq(S) /\ f \in S
    BY <1>3, <2>1
  <2>3. Len(Files) = id /\ Files[id] = f
    BY <1>3, <2>2
  <2>4. id \in DOMAIN Files
    BY <1>3, <2>3
  <2> QED
    BY <1>3, <2>3, <2>4 DEF HistoryInv
<1>5. IsHtml(part.html)
  <2>1. PICK p \in Pages : p = f.by.page
    BY <1>4, StoredBy
  <2>2. f.header = File(p).header /\ File(p).header[3] = Len(p.html)
    BY <1>4, <2>1 DEF Full, File
  <2>3. Len(p.html) <= IntMax
    BY HtmlOfPage DEF IsHtml
  <2>4. IsSeq(part.html) /\ WordsApart(part.html)
    BY <1>2 DEF CountInv, PartInv
  <2> QED
    BY <1>2, <2>2, <2>3, <2>4 DEF IsHtml
<1>6. IsHtml(h)
  BY <1>1, <1>5, StringIsHtml, SameHtml
<1>7. Htmls(mixed)'
  <2>1. \A d \in DOMAIN mixed : IsHtml(mixed[d])
    BY DEF CountInv, Htmls
  <2>2. ASSUME NEW d \in DOMAIN mixed' PROVE IsHtml(mixed'[d])
    BY <1>2, <1>6, <2>1
  <2> QED
    BY <2>2 DEF Htmls
<1>8. h = Text(read, mixed, id)'
  BY <1>2 DEF Text
<1>9. id \notin DOMAIN read
  <2>1. DOMAIN read = 1..(id - 1)
    BY <1>3
  <2> QED
    BY <1>3, <2>1
<1>10. \A i \in DOMAIN read : i \in DOMAIN mixed' <=> i \in DOMAIN mixed
  BY <1>2, <1>9
<1>11. \A i \in DOMAIN read : i \in DOMAIN mixed => mixed'[i] = mixed[i]
  BY <1>2, <1>9
<1> QED
  BY <1>2, <1>4, <1>6, <1>7, <1>8, <1>10, <1>11, PageCounts

\* The html of a page file is a sequence.
LEMMA StoredHtml ==
  ASSUME NEW x \in Stored
  PROVE  IsSeq(x.html)
<1>1. PICK p \in Pages, c \in Nat : \E f \in Versions(p) :
        x.by = [crawl |-> c, page |-> p] /\ x.header = f.header /\ x.html = f.html
  BY StoredFile
<1>2. PICK f \in Versions(p) :
        x.by = [crawl |-> c, page |-> p] /\ x.header = f.header /\ x.html = f.html
  BY <1>1
<1>3. PICK S : p.html \in Seq(S)
  BY PageType
<1>4. \/ f.html = <<>> \/ f.html = p.html
      \/ \E n \in 0..(Len(p.html) - 1) : f.html = SubSeq(p.html, 1, n)
  BY DEF Versions, TornFiles, EmptyFile, File
<1>5. f.html \in Seq(S)
  <2>1. CASE f.html = <<>>
    BY <2>1
  <2>2. CASE f.html = p.html
    BY <1>3, <2>2
  <2>3. ASSUME NEW n \in 0..(Len(p.html) - 1), f.html = SubSeq(p.html, 1, n) PROVE f.html \in Seq(S)
    <3>1. SubSeq(p.html, 1, n) \in Seq(S)
      BY <1>3
    <3> QED
      BY <2>3, <3>1
  <2> QED
    BY <1>4, <2>1, <2>2, <2>3
<1> QED
  BY <1>2, <1>5, SeqIsSeq

\* What is put together of two sequences is one.
LEMMA MixesAre ==
  ASSUME NEW s, IsSeq(s), NEW t, IsSeq(t), NEW h \in I!Mixes(s, t)
  PROVE  IsSeq(h) /\ WordsApart(h)
<1>0. PICK A, B, C : A = 1..(Len(t) + 1) /\ B = 0..Len(t) /\ C = {<<>>} \cup {<<w>> : w \in Letters}
  OBVIOUS
<1>1. PICK m \in A, n \in B, seam \in C : h = I!Mix(s, seam, t, m, n)
  <2>1. h \in {I!Mix(s, seam, t, m, n) : m \in A, n \in B, seam \in C}
    BY <1>0 DEF I!Mixes
  <2> QED
    BY ONLY <2>1
<1>9. I!WordsApart(h)
  BY DEF I!Mixes
<1>2. PICK S : S = {s[k] : k \in DOMAIN s} \cup {t[k] : k \in DOMAIN t} \cup Letters
  OBVIOUS
<1>3. s \in Seq(S) /\ t \in Seq(S)
  <2>1. s \in Seq({s[k] : k \in DOMAIN s}) /\ t \in Seq({t[k] : k \in DOMAIN t})
    BY DEF IsSeq
  <2> QED
    BY <1>2, <2>1
<1>4. seam \in Seq(S)
  <2>1. CASE seam = <<>>
    BY <2>1
  <2>2. ASSUME NEW w \in Letters, seam = <<w>> PROVE seam \in Seq(S)
    BY <1>2, <2>2
  <2> QED
    BY <1>0, <1>1, <2>1, <2>2
<1>5. SubSeq(t, m, n) \in Seq(S)
  <2>1. m \in Int /\ n \in Int /\ \A i \in m..n : t[i] \in S
    BY <1>0, <1>1, <1>3
  <2> QED
    BY <2>1, SubSeqProperties
<1>6. s \o seam \in Seq(S)
  BY <1>3, <1>4, ConcatProperties
<1>7. s \o seam \o SubSeq(t, m, n) \in Seq(S)
  BY <1>5, <1>6, ConcatProperties
<1>8. h \in Seq(S)
  BY <1>1, <1>7 DEF I!Mix
<1> QED
  BY <1>8, <1>9, SeqIsSeq, SameHtml

\* All words of a page have been seen when it ends, unless it ends for want of memory.
LEMMA EndOfPageCounts ==
  ASSUME TseInv, CountInv, I!EndOfPage \/ I!EndOfPageLost
  PROVE  CountInv'
<1>1. PICK r : r = FindWord(page.html, pos + 1)
  OBVIOUS
<1>2. /\ iphase = "words" /\ iphase' = "load" /\ id' = id + 1 /\ read' = read /\ mixed' = mixed
      /\ idx' = idx /\ stream_count' = stream_count
      /\ (r.kind = "end" /\ lost' = lost) \/ lost' = TRUE
  <2>1. I!Found = r
    BY <1>1, SameFindWord DEF I!Found
  <2> QED
    BY <2>1 DEF I!EndOfPage, I!EndOfPageLost, I!NextPage
<1>3. /\ InPage /\ read \in Seq(Stored) /\ Len(read) = id /\ id \in Nat \ {0} /\ id \in DOMAIN read
      /\ Htmls(mixed)
  <2>1. id \in Nat \ {0} /\ read \in Seq(Stored) /\ Len(read) = id
    BY <1>2 DEF TseInv, ReadTypes, ReadInv
  <2> QED
    BY <1>2, <2>1 DEF CountInv
<1>4. PICK h, p : h = page.html /\ p = pos
  OBVIOUS
<1>5. IsHtml(h) /\ p \in 0..Len(h) /\ OutsideTags(h, p + 1) /\ h = Text(read, mixed, id)
  BY <1>3, <1>4 DEF InPage
<1>6. \A w : r.kind = "end" => WordUpTo(w, h, p) = WordIn(w, h)
  BY <1>1, <1>4, <1>5, FoundIsOneWord
<1>7. ASSUME NEW w, NEW d
      PROVE  /\ Seen(w, d) \in Nat /\ Seen(w, d)' \in Nat /\ Seen(w, d) <= Seen(w, d)'
             /\ r.kind = "end" => Seen(w, d)' = Seen(w, d)
  <2>1. Seen(w, d) \in 0..IntMax /\ IntMax \in Nat
    BY <1>3, SeenNow, IndexAssumption
  <2>2. CASE d = id
    <3>1. Seen(w, d)' = Cardinality(WordIn(w, h))
      <4>1. Seen(w, d)' = TrueCount(read, mixed, w, d)
        BY <1>2 DEF Seen, SeenIn, TrueCount, Text
      <4> QED
        BY <1>3, <1>5, <2>2, <4>1 DEF TrueCount, Occurrences, WordIn
    <3>2. Seen(w, d) = Cardinality(WordUpTo(w, h, p))
      BY <1>2, <1>4, <2>2 DEF Seen, SeenIn
    <3>3. /\ Cardinality(WordUpTo(w, h, p)) <= Cardinality(WordIn(w, h))
          /\ Cardinality(WordIn(w, h)) \in 0..IntMax
      BY <1>5, WordCounts
    <3>4. r.kind = "end" => WordUpTo(w, h, p) = WordIn(w, h)
      BY <1>6
    <3> QED
      BY <2>1, <3>1, <3>2, <3>3, <3>4
  <2>3. CASE d # id
    <3>1. Seen(w, d)' = Seen(w, d)
      BY <1>2, <2>3 DEF Seen, SeenIn, TrueCount, Text
    <3> QED
      BY <2>1, <3>1
  <2> QED
    BY <2>2, <2>3
<1>8. ASSUME NEW w \in DOMAIN Stumps, NEW d \in 1..IntMax PROVE Counts(w, d)'
  <2>1. Counts(w, d)
    BY DEF CountInv
  <2>2. CountOf(idx, w, d) \in 0..Seen(w, d)'
    BY <1>7, <2>1 DEF Counts
  <2>3. ~lost' => CountOf(idx, w, d) = Seen(w, d)'
    BY <1>2, <1>7, <2>1 DEF Counts
  <2> QED
    BY <1>2, <2>2, <2>3 DEF Counts
<1>9. Htmls(mixed)'
  BY <1>2, <1>3 DEF Htmls
<1> QED
  BY <1>2, <1>8, <1>9 DEF CountInv, PartInv

\* The other steps of the indexer: a process begins, saves its index, or ends.
LEMMA ExitCounts ==
  ASSUME I!Exit
  PROVE  CountInv'
<1>1. /\ iphase' = "off" /\ idx' = <<>> /\ stream_count' = 0 /\ read' = <<>> /\ lost' = FALSE
      /\ DOMAIN mixed' = {}
  BY DEF I!Exit, I!None
<1>2. /\ <<>> \in Indexes(DOMAIN Stumps) /\ \A w, d : CountOf(<<>>, w, d) = 0
      /\ AllCounts(<<>>) = 0
  BY EmptyIndex, AllCountsType
<1>3. \A w, d : Seen(w, d)' = 0
  BY <1>1 DEF Seen, SeenIn, TrueCount
<1>4. ASSUME NEW w \in DOMAIN Stumps, NEW d \in 1..IntMax PROVE Counts(w, d)'
  BY <1>1, <1>2, <1>3 DEF Counts
<1> QED
  BY <1>1, <1>2, <1>4 DEF CountInv, Htmls, PartInv

\* Steps that leave what the indexer has alone change no count.
LEMMA OthersCount ==
  ASSUME CountInv, UNCHANGED <<id, page, pos, stream_count, idx, read, mixed, lost>>,
         iphase' = iphase \/ (iphase' # "words" /\ iphase # "words"), PartInv'
  PROVE  CountInv'
<1>1. \A w, d : Seen(w, d)' = Seen(w, d)
  BY DEF Seen, SeenIn, TrueCount, Text
<1>2. ASSUME NEW w \in DOMAIN Stumps, NEW d \in 1..IntMax PROVE Counts(w, d)'
  BY <1>1 DEF Counts, CountInv
<1> QED
  BY <1>2 DEF CountInv, InPage, Htmls, Text

\* A part of a file is read, and more when it has been replaced.
LEMMA PartCounts ==
  ASSUME TseInv, CountInv, I!ReadPart \/ I!ReadMore
  PROVE  CountInv'
<1>1. /\ iphase \in {"load", "read"} /\ iphase' = "read"
      /\ UNCHANGED <<id, page, pos, stream_count, idx, read, mixed, lost>>
      /\ id \in DOMAIN pagedir
  BY DEF I!ReadPart, I!ReadMore
<1>2. PICK t : t = pagedir[id].html /\ IsSeq(t)
  BY <1>1, StoredHtml DEF TseInv, CrawlTypes
<1>3. CASE I!ReadPart
  <2>1. PICK n \in 0..Len(I!SkipSpace(t)) :
          part' = [file |-> pagedir[id], now |-> pagedir[id], html |-> SubSeq(I!SkipSpace(t), 1, n)]
    BY <1>2, <1>3 DEF I!ReadPart
  <2>2. PICK S : S = {t[k] : k \in DOMAIN t}
    OBVIOUS
  <2>3. t \in Seq(S)
    BY <1>2, <2>2 DEF IsSeq
  <2>4. PICK h : h = I!SkipSpace(t) /\ h \in Seq(S)
    <3>1. I!SkipSpace(t) = SkipSpace(t)
      BY DEF I!SkipSpace, SkipSpace
    <3> QED
      BY <2>3, <3>1, SkipLength
  <2>5. SubSeq(h, 1, n) \in Seq(S)
    BY <2>1, <2>4
  <2>6. IsSeq(part'.html) /\ part'.now = part'.file /\ DOMAIN part' = {"file", "now", "html"}
    <3>1. part'.html = SubSeq(h, 1, n) /\ part'.now = part'.file /\ DOMAIN part' = {"file", "now", "html"}
      BY <2>1, <2>4
    <3> QED
      BY <2>5, <3>1, SeqIsSeq
  <2>7. PartInv'
    BY <2>6 DEF PartInv
  <2> QED
    BY <1>1, <1>3, <2>7, OthersCount DEF I!ReadPart
<1>4. CASE I!ReadMore
  <2>1. PICK h \in I!Mixes(part.html, t) : part'.html = h /\ DOMAIN part' = {"file", "now", "html"}
    <3>1. PICK h \in I!Mixes(part.html, t) : part' = [part EXCEPT !.html = h, !.now = pagedir[id]]
      BY <1>2, <1>4 DEF I!ReadMore
    <3>2. DOMAIN part = {"file", "now", "html"}
      BY <1>4 DEF CountInv, PartInv, I!ReadMore
    <3> QED
      BY <3>1, <3>2
  <2>2. IsSeq(part.html)
    BY <1>4 DEF CountInv, PartInv, I!ReadMore
  <2>3. IsSeq(h) /\ WordsApart(h)
    BY <1>2, <2>1, <2>2, MixesAre
  <2>4. PartInv'
    BY <2>1, <2>3 DEF PartInv
  <2> QED
    BY <1>1, <1>4, <2>4, OthersCount DEF I!ReadMore
<1> QED
  BY <1>3, <1>4

\* The directory has page files for the ids that crawls give only.
LEMMA DirKeeps ==
  ASSUME TseInv, DirInv, [Next]_vars
  PROVE  DirInv'
<1>1. MaxPages \in Nat /\ page_id \in Nat /\ page_id <= MaxPages + 1 /\ DOMAIN pagedir \subseteq 1..MaxPages
  BY TseAssumption DEF DirInv, TseInv, CrawlTypes
<1>2. \A i \in DOMAIN saving : i \in 1..MaxPages
  <2>1. \A i \in DOMAIN saving : i \in 1..(page_id - 1)
    BY DEF TseInv, CrawlTypes
  <2> QED
    BY <1>1, <2>1
<1>3. CASE StartCrawl \/ EndCrawl \/ KillCrawl
  BY <1>1, <1>3 DEF StartCrawl, EndCrawl, KillCrawl, DirInv
<1>4. ASSUME NEW p \in site, TakeId(p) PROVE DirInv'
  BY <1>1, <1>4 DEF TakeId, DirInv
<1>5. ASSUME NEW i \in DOMAIN saving, OpenPage(i) \/ WritePage(i) \/ OpenPageFails(i) \/ WritePageFails(i)
      PROVE  DirInv'
  <2>1. page_id' = page_id
    BY <1>5 DEF OpenPage, WritePage, OpenPageFails, WritePageFails, crawler
  <2>2. pagedir' = pagedir \/ \E f : SetFile(i, f)
    BY <1>5 DEF OpenPage, WritePage, OpenPageFails, WritePageFails
  <2>3. DOMAIN pagedir' \subseteq DOMAIN pagedir \cup {i}
    BY <2>2, SetFileDoes
  <2> QED
    BY <1>1, <1>2, <2>1, <2>3 DEF DirInv
<1>6. CASE Crawling
  BY <1>3, <1>4, <1>5, <1>6 DEF Crawling, CrawlStep
<1>7. CASE Indexing
  BY <1>1, <1>7, IndexingReads DEF DirInv, crawler
<1>8. CASE Querying
  <2>1. pagedir' = pagedir /\ page_id' = page_id
    BY <1>8 DEF Querying, QuerierNext, crawler, Open, ReadLine, EndOfIndex, End, ReadQuery, RankDoc,
                EndOfDocs, NextQuery
  <2> QED
    BY <1>1, <2>1 DEF DirInv
<1>9. CASE UNCHANGED vars
  BY <1>1, <1>9 DEF DirInv, vars, crawler
<1> QED
  BY <1>6, <1>7, <1>8, <1>9 DEF Next

\* Any step keeps the counts right.
LEMMA CountsKeep ==
  ASSUME TseInv, DirInv, CountInv, [Next]_vars
  PROVE  CountInv'
<1>1. CASE Crawling \/ Querying \/ UNCHANGED vars
  <2>1. UNCHANGED indexer
    BY <1>1 DEF Crawling, Querying, vars
  <2>2. PartInv'
    BY <2>1 DEF CountInv, PartInv, indexer
  <2> QED
    BY <2>1, <2>2, OthersCount DEF indexer
<1>2. CASE Indexing
  <2>1. CASE I!Start
    <3>1. /\ iphase = "off" /\ iphase' = "load"
          /\ UNCHANGED <<id, page, pos, stream_count, idx, read, mixed, lost>>
      BY <2>1 DEF I!Start, I!locals
    <3> QED
      BY <3>1, OthersCount DEF PartInv
  <2>2. CASE I!OpenIndex
    <3>1. /\ iphase = "end" /\ iphase' = "save"
          /\ UNCHANGED <<id, page, pos, stream_count, idx, read, mixed, lost>>
      BY <2>2 DEF I!OpenIndex, I!locals
    <3> QED
      BY <3>1, OthersCount DEF PartInv
  <2>3. CASE I!Crash \/ I!OpenIndexFails \/ I!WriteIndex \/ I!WriteIndexFails \/ I!Kill
    <3>1. I!Exit
      BY <2>3 DEF I!Crash, I!OpenIndexFails, I!WriteIndex, I!WriteIndexFails, I!Kill
    <3> QED
      BY <3>1, ExitCounts
  <2>4. CASE I!NoPageLoads \/ I!PageLoadFails
    <3>1. /\ iphase \in {"load", "read"} /\ iphase' = "end"
          /\ UNCHANGED <<id, page, pos, stream_count, idx, read, mixed, lost>>
      BY <2>4 DEF I!NoPageLoads, I!PageLoadFails, I!EndOfPages
    <3> QED
      BY <3>1, OthersCount DEF PartInv
  <2> QED
    BY <1>2, <2>1, <2>2, <2>3, <2>4, NextWordCounts, NextWordLostCounts, LoadPageCounts, MixedPageCounts,
       PartCounts, EndOfPageCounts DEF Indexing, IndexStep
<1> QED
  BY <1>1, <1>2 DEF Next

\* The invariant of the index that is being built: it counts, for every document that was
\* read, the words up to where the indexer is, whatever crawls do to the files meanwhile,
\* also to the one that is being read: then the words are those of the html that the reads
\* have put together, which need not be that of a page.
THEOREM CountInvariant == Spec => [](DirInv /\ CountInv)
<1>1. Init => DirInv /\ CountInv
  <2> SUFFICES ASSUME Init PROVE DirInv /\ CountInv
    OBVIOUS
  <2>1. /\ page_id = 1 /\ DOMAIN pagedir = {}
        /\ iphase = "off" /\ idx = <<>> /\ stream_count = 0 /\ read = <<>> /\ lost = FALSE
        /\ DOMAIN mixed = {}
    BY DEF Init, I!Init, I!None
  <2>2. DirInv
    BY <2>1, TseAssumption DEF DirInv
  <2>3. /\ <<>> \in Indexes(DOMAIN Stumps) /\ \A w, d : CountOf(<<>>, w, d) = 0
        /\ AllCounts(<<>>) = 0
    BY EmptyIndex, AllCountsType
  <2>4. \A w, d : Seen(w, d) = 0
    BY <2>1 DEF Seen, SeenIn, TrueCount
  <2>5. \A w \in DOMAIN Stumps, d \in 1..IntMax : Counts(w, d)
    BY <2>1, <2>3, <2>4 DEF Counts
  <2> QED
    BY <2>1, <2>2, <2>3, <2>5 DEF CountInv, Htmls, PartInv
<1>2. TseInv /\ DirInv /\ CountInv /\ [Next]_vars => DirInv' /\ CountInv'
  BY DirKeeps, CountsKeep
<1> QED
  BY <1>1, <1>2, TseInvariant, PTL DEF Spec

\* An index that is about to be saved counts every word of the html that was read for a
\* document, as often as it is there outside of tags, and nothing else; if no crawl has
\* interfered, that is the html of the pages whose files are there, and they are all before
\* the first that does not load, or before one whose load has failed.
THEOREM IndexIsExact == Spec => []IndexExact
<1>1. TseInv /\ DirInv /\ CountInv /\ ReadAll => IndexExact
  <2> SUFFICES ASSUME DirInv, CountInv, ReadAll, iphase = "save"
               PROVE  /\ stream_count >= AllCounts(idx)
                      /\ ~lost =>
                           /\ stream_count = AllCounts(idx)
                           /\ \A w \in NormalForms, d \in 1..MaxPages :
                                CountOf(idx, w, d) = TrueCount(read, mixed, w, d)
                      /\ ~moved =>
                           /\ "page not loaded" \notin faults => I!Loaded(Len(read) + 1) = NoPage
                           /\ \A i \in DOMAIN read :
                                pagedir[i] = read[i] /\ I!Loaded(i) # NoPage /\ i \notin DOMAIN mixed
    BY DEF IndexExact
  <2>1. AllCounts(idx) \in Int /\ stream_count \in Nat /\ AllCounts(idx) <= stream_count
    BY AllCountsType DEF CountInv
  <2>2. ~lost => stream_count = AllCounts(idx)
    BY DEF CountInv
  <2>3. ASSUME ~lost, NEW w \in NormalForms, NEW d \in 1..MaxPages
        PROVE  CountOf(idx, w, d) = TrueCount(read, mixed, w, d)
    <3>1. w \in DOMAIN Stumps
      BY TseAssumption DEF NormalForms
    <3>2. d \in 1..IntMax
      BY TseAssumption, IndexAssumption
    <3>3. Counts(w, d)
      BY <3>1, <3>2 DEF CountInv
    <3> QED
      BY <2>3, <3>3 DEF Counts, Seen, SeenIn
  <2> QED
    BY <2>1, <2>2, <2>3 DEF ReadAll
<1> QED
  BY <1>1, TseInvariant, CountInvariant, AllPagesAreRead, PTL

-----------------------------------------------------------------------------
(***************************************************************************)
(* Queries: the parser goes through the tokens and has, after each, the    *)
(* alternatives of the tokens so far.                                      *)
(***************************************************************************)
\* The number of the alternative that a position belongs to.
LEMMA OrsType ==
  ASSUME NEW t, NEW i \in Nat
  PROVE  Ors(t, i) \in Nat
<1>1. IsFiniteSet(1..(i - 1)) /\ {j \in 1..(i - 1) : t[j] = Or} \subseteq 1..(i - 1)
  BY FS_Interval
<1> QED
  BY <1>1, FS_Subset, FS_CardinalityType DEF Ors

\* It is one more after an or.
LEMMA OrsNext ==
  ASSUME NEW t, NEW i \in Nat \ {0}
  PROVE  Ors(t, 1) = 0 /\ Ors(t, i + 1) = IF t[i] = Or THEN Ors(t, i) + 1 ELSE Ors(t, i)
<1>1. Ors(t, 1) = 0
  <2>1. {j \in 1..(1 - 1) : t[j] = Or} = {}
    OBVIOUS
  <2> QED
    BY <2>1, FS_EmptySet DEF Ors
<1>2. PICK A, B : A = {j \in 1..(i - 1) : t[j] = Or} /\ B = {j \in 1..((i + 1) - 1) : t[j] = Or}
  OBVIOUS
<1>3. IsFiniteSet(A)
  <2>1. A \subseteq 1..(i - 1) /\ IsFiniteSet(1..(i - 1))
    BY <1>2, FS_Interval
  <2> QED
    BY <2>1, FS_Subset
<1>4. CASE t[i] = Or
  <2>1. B = A \cup {i} /\ i \notin A
    BY <1>2, <1>4
  <2>2. Cardinality(A \cup {i}) = Cardinality(A) + 1
    BY <1>3, <2>1, FS_AddElement
  <2> QED
    BY <1>1, <1>2, <1>4, <2>1, <2>2 DEF Ors
<1>5. CASE t[i] # Or
  <2>1. B = A
    BY <1>2, <1>5
  <2> QED
    BY <1>1, <1>2, <1>5, <2>1 DEF Ors
<1> QED
  BY <1>4, <1>5

\* It depends on the tokens before only.
LEMMA OrsSame ==
  ASSUME NEW s, NEW t, NEW n \in Nat, \A i \in 1..n : s[i] = t[i], NEW i \in 1..(n + 1)
  PROVE  Ors(s, i) = Ors(t, i)
<1>1. {j \in 1..(i - 1) : s[j] = Or} = {j \in 1..(i - 1) : t[j] = Or}
  OBVIOUS
<1> QED
  BY <1>1 DEF Ors

\* It never decreases.
LEMMA OrsMonotone ==
  ASSUME NEW t, NEW i \in Nat, NEW j \in Nat, i <= j
  PROVE  Ors(t, i) <= Ors(t, j)
<1>1. PICK A, B : A = {k \in 1..(i - 1) : t[k] = Or} /\ B = {k \in 1..(j - 1) : t[k] = Or}
  OBVIOUS
<1>2. A \subseteq B /\ IsFiniteSet(B)
  <2>1. A \subseteq B /\ B \subseteq 1..(j - 1) /\ IsFiniteSet(1..(j - 1))
    BY <1>1, FS_Interval
  <2> QED
    BY <2>1, FS_Subset
<1>3. Cardinality(A) <= Cardinality(B)
  BY <1>2, FS_Subset
<1> QED
  BY <1>1, <1>3 DEF Ors

\* The words of tokens with numbers.
WordsOf(own) == [n \in DOMAIN own |-> own[n].word]

LongOf(k) == [word : Long, alt : {k}]

\* A token more has the number of the alternative that is last so far.
LEMMA NumberedAppend ==
  ASSUME NEW t \in Seq(Tokens), NEW e \in Tokens, NEW n, n = Len(t), NEW x,
         x = [word |-> e, alt |-> Ors(t, n + 1) + 1]
  PROVE  /\ Numbered(t) \in Seq([word : Tokens, alt : Nat]) /\ x \in [word : Tokens, alt : Nat]
         /\ Numbered(Append(t, e)) = Append(Numbered(t), x)
         /\ \A i \in 1..Len(Numbered(t)) : Numbered(t)[i].alt <= x.alt
<1>1. /\ n \in Nat /\ DOMAIN t = 1..n /\ \A i \in 1..n : t[i] \in Tokens
  OBVIOUS
<1>2. PICK u : u = Append(t, e) /\ DOMAIN u = 1..(n + 1) /\ u[n + 1] = e /\ \A i \in 1..n : u[i] = t[i]
  <2>1. PICK u : u = Append(t, e)
    OBVIOUS
  <2>2. u \in Seq(Tokens) /\ Len(u) = n + 1 /\ u[n + 1] = e /\ \A i \in 1..n : u[i] = t[i]
    BY <1>1, <2>1, AppendProperties
  <2>3. DOMAIN u = 1..(n + 1)
    BY <2>2
  <2> QED
    BY <2>1, <2>2, <2>3
<1>3. \A i \in 1..(n + 1) : Ors(u, i) = Ors(t, i)
  BY <1>1, <1>2, OrsSame
<1>4. PICK s, v : s = Numbered(t) /\ v = Numbered(u)
  OBVIOUS
<1>5. DOMAIN s = 1..n /\ \A i \in 1..n : s[i] = [word |-> t[i], alt |-> Ors(t, i) + 1]
  BY <1>1, <1>4 DEF Numbered
<1>6. PICK R : R = [word : Tokens, alt : Nat]
  OBVIOUS
<1>7. \A i \in 1..n : s[i] \in R
  <2> SUFFICES ASSUME NEW i \in 1..n PROVE s[i] \in R
    OBVIOUS
  <2>1. Ors(t, i) + 1 \in Nat
    BY OrsType
  <2> QED
    BY <1>1, <1>5, <1>6, <2>1
<1>8. s \in Seq(R)
  BY <1>1, <1>4, <1>5, <1>7 DEF Numbered
<1>9. x \in R
  <2>1. Ors(t, n + 1) + 1 \in Nat
    BY <1>1, OrsType
  <2> QED
    BY <1>6, <2>1
<1>10. v = [i \in 1..(n + 1) |-> [word |-> u[i], alt |-> Ors(u, i) + 1]]
  BY <1>2, <1>4 DEF Numbered
<1>11. v = Append(s, x)
  <2>1. Len(s) = n
    BY <1>1, <1>5, <1>8
  <2>2. PICK w : w = Append(s, x)
    OBVIOUS
  <2>3. w \in Seq(R) /\ Len(w) = n + 1 /\ w[n + 1] = x /\ \A i \in 1..n : w[i] = s[i]
    BY <1>8, <1>9, <2>1, <2>2, AppendProperties
  <2>4. ASSUME NEW i \in 1..(n + 1) PROVE v[i] = w[i]
    <3>1. CASE i = n + 1
      BY <1>2, <1>3, <1>10, <2>3, <3>1
    <3>2. CASE i \in 1..n
      BY <1>2, <1>3, <1>5, <1>10, <2>3, <3>2
    <3> QED
      BY <1>1, <3>1, <3>2
  <2>5. v \in Seq(R) /\ Len(v) = n + 1
    <3>1. \A i \in 1..(n + 1) : w[i] \in R
      BY <2>3, ElementOfSeq
    <3>2. \A i \in 1..(n + 1) : v[i] \in R
      BY <2>4, <3>1
    <3> QED
      BY <1>1, <1>10, <3>2
  <2> QED
    BY <2>2, <2>3, <2>4, <2>5, SeqEqual
<1>12. ASSUME NEW i \in 1..n PROVE s[i].alt <= x.alt
  <2>1. Ors(t, i) <= Ors(t, n + 1) /\ Ors(t, i) \in Nat /\ Ors(t, n + 1) \in Nat
    BY <1>1, OrsType, OrsMonotone
  <2> QED
    BY <1>5, <2>1
<1>13. Len(s) = n
  BY <1>1, <1>5, <1>8
<1> QED
  BY <1>2, <1>4, <1>6, <1>8, <1>9, <1>11, <1>12, <1>13

\* A word more.
LEMMA WordsAppend ==
  ASSUME NEW R, NEW own \in Seq(R), NEW x \in R
  PROVE  WordsOf(Append(own, x)) = Append(WordsOf(own), x.word)
<1>1. PICK n : n = Len(own) /\ n \in Nat /\ DOMAIN own = 1..n
  BY LenProperties
<1>2. PICK w : w = Append(own, x)
  OBVIOUS
<1>3. w \in Seq(R) /\ Len(w) = n + 1 /\ w[n + 1] = x /\ \A i \in 1..n : w[i] = own[i]
  BY <1>1, <1>2, AppendProperties
<1>4. DOMAIN w = 1..(n + 1)
  BY <1>3
<1>5. PICK V : V = {own[i].word : i \in 1..n} \cup {x.word}
  OBVIOUS
<1>6. PICK a, b : a = WordsOf(own) /\ b = WordsOf(w)
  OBVIOUS
<1>7. a \in Seq(V) /\ Len(a) = n /\ \A i \in 1..n : a[i] = own[i].word
  <2>1. a = [i \in 1..n |-> own[i].word]
    BY <1>1, <1>6 DEF WordsOf
  <2>2. \A i \in 1..n : own[i].word \in V
    BY <1>5
  <2> QED
    BY <1>1, <2>1, <2>2
<1>8. b \in Seq(V) /\ Len(b) = n + 1 /\ \A i \in 1..(n + 1) : b[i] = w[i].word
  <2>1. b = [i \in 1..(n + 1) |-> w[i].word]
    BY <1>4, <1>6 DEF WordsOf
  <2>2. ASSUME NEW i \in 1..(n + 1) PROVE w[i].word \in V
    <3>1. i \in 1..n \/ i = n + 1
      BY <1>1
    <3> QED
      BY <1>3, <1>5, <3>1
  <2> QED
    BY <1>1, <2>1, <2>2
<1>9. PICK c, y : c = Append(a, y) /\ y = x.word /\ y \in V
  BY <1>5
<1>10. c \in Seq(V) /\ Len(c) = n + 1 /\ c[n + 1] = y /\ \A i \in 1..n : c[i] = a[i]
  BY <1>7, <1>9, AppendProperties
<1>11. ASSUME NEW i \in 1..(n + 1) PROVE b[i] = c[i]
  <2>1. i \in 1..n \/ i = n + 1
    BY <1>1
  <2> QED
    BY <1>3, <1>7, <1>8, <1>9, <1>10, <2>1
<1>12. b = c
  BY <1>8, <1>10, <1>11, SeqEqual
<1> QED
  BY <1>2, <1>6, <1>9, <1>12

\* The alternative of which a token more is.
AlternativeStep(t, e, k) ==
  /\ e \in Long /\ k = Ors(t, Len(t) + 1) + 1 => Alternative(Append(t, e), k) = Append(Alternative(t, k), e)
  /\ ~(e \in Long /\ k = Ors(t, Len(t) + 1) + 1) => Alternative(Append(t, e), k) = Alternative(t, k)

\* A token more extends the last alternative only, and that only if it is a long word.
LEMMA AlternativeAppend ==
  ASSUME NEW t \in Seq(Tokens), NEW e \in Tokens, NEW k \in Nat
  PROVE  AlternativeStep(t, e, k)
<1>1. PICK n, x, R : /\ n = Len(t) /\ x = [word |-> e, alt |-> Ors(t, n + 1) + 1]
                     /\ R = [word : Tokens, alt : Nat]
  OBVIOUS
<1>2. PICK s, T : s = Numbered(t) /\ T = LongOf(k)
  OBVIOUS
<1>3. s \in Seq(R) /\ x \in R /\ Numbered(Append(t, e)) = Append(s, x)
  BY <1>1, <1>2, NumberedAppend, ZenonT(30)
<1>4. Selected(Append(s, x), T) = IF x \in T THEN Append(Selected(s, T), x) ELSE Selected(s, T)
  BY <1>3, SelectedAppend
<1>5. x \in T <=> (e \in Long /\ k = Ors(t, n + 1) + 1)
  BY <1>1, <1>2 DEF LongOf
<1>6. PICK own : own = Selected(s, T)
  OBVIOUS
<1>7. own \in Seq(R) /\ WordsOf(Append(own, x)) = Append(WordsOf(own), e)
  <2>1. own \in Seq(R)
    BY <1>3, <1>6, SelectedType
  <2>2. WordsOf(Append(own, x)) = Append(WordsOf(own), x.word) /\ x.word = e
    BY <1>1, <1>3, <2>1, WordsAppend
  <2> QED
    BY <2>1, <2>2
<1>8. Alternative(t, k) = WordsOf(own) /\ Alternative(Append(t, e), k) = WordsOf(Selected(Append(s, x), T))
  BY <1>2, <1>3, <1>6 DEF Alternative, WordsOf, LongOf
<1> QED
  BY <1>1, <1>4, <1>5, <1>6, <1>7, <1>8 DEF AlternativeStep

\* An alternative is a sequence of long words, which has none beyond the last or.
LEMMA AlternativeType ==
  ASSUME NEW t \in Seq(Tokens), NEW k \in Nat
  PROVE  /\ Alternative(t, k) \in Seq(Long)
         /\ k > Ors(t, Len(t) + 1) + 1 => Alternative(t, k) = <<>>
<1> DEFINE Right(s) == /\ Alternative(s, k) \in Seq(Long)
                       /\ k > Ors(s, Len(s) + 1) + 1 => Alternative(s, k) = <<>>
           G == {s \in Seq(Tokens) : Right(s)}
<1>1. <<>> \in G
  <2>1. Numbered(<<>>) = <<>>
    BY DEF Numbered
  <2>2. Alternative(<<>>, k) = <<>>
    <3>1. Selected(<<>>, [word : Long, alt : {k}]) = <<>>
      BY SelectedEmpty
    <3>2. PICK none : none = <<>> /\ DOMAIN none = {}
      OBVIOUS
    <3>3. Alternative(<<>>, k) = [n \in DOMAIN none |-> none[n].word]
      BY <2>1, <3>1, <3>2 DEF Alternative
    <3>4. [n \in {} |-> none[n].word] = <<>>
      OBVIOUS
    <3> QED
      BY <3>2, <3>3, <3>4
  <2> QED
    BY <2>2, EmptySeq
<1>2. ASSUME NEW s \in Seq(Tokens), NEW e \in Tokens, s \in G PROVE Append(s, e) \in G
  <2>1. PICK n, u, m : n = Len(s) /\ u = Append(s, e) /\ m = Ors(s, n + 1)
    OBVIOUS
  <2>2. n \in Nat /\ u \in Seq(Tokens) /\ Len(u) = n + 1 /\ \A i \in 1..n : u[i] = s[i]
    BY <2>1, AppendProperties, LenProperties
  <2>3. m \in Nat /\ Ors(u, n + 2) \in Nat /\ Ors(u, n + 1) = m /\ Ors(u, n + 1) <= Ors(u, n + 2)
    <3>1. n + 1 \in 1..(n + 1) /\ n + 2 \in Nat /\ n + 1 \in Nat /\ n + 1 <= n + 2
      BY <2>2
    <3>2. Ors(u, n + 1) = Ors(s, n + 1)
      BY <2>2, <3>1, OrsSame
    <3>3. Ors(u, n + 1) <= Ors(u, n + 2) /\ Ors(u, n + 1) \in Nat /\ Ors(u, n + 2) \in Nat
      BY <3>1, OrsType, OrsMonotone
    <3> QED
      BY <2>1, <3>2, <3>3
  <2>4. PICK a, b : a = Alternative(s, k) /\ b = Alternative(u, k)
    OBVIOUS
  <2>5. a \in Seq(Long) /\ (k > m + 1 => a = <<>>)
    BY <1>2, <2>1, <2>4
  <2>6. AlternativeStep(s, e, k)
    BY AlternativeAppend
  <2>7. (e \in Long /\ k = m + 1 /\ b = Append(a, e)) \/ (~(e \in Long /\ k = m + 1) /\ b = a)
    BY <2>1, <2>4, <2>6 DEF AlternativeStep
  <2>8. b \in Seq(Long)
    <3>1. e \in Long => Append(a, e) \in Seq(Long)
      BY <2>5, AppendProperties
    <3> QED
      BY <2>5, <2>7, <3>1
  <2>9. k > Ors(u, (n + 1) + 1) + 1 => b = <<>>
    <3>1. (n + 1) + 1 = n + 2
      BY <2>2
    <3> QED
      BY <2>3, <2>5, <2>7, <3>1
  <2> QED
    BY <2>1, <2>2, <2>4, <2>8, <2>9
<1>3. \A s \in Seq(Tokens) : s \in G
  <2> HIDE DEF G
  <2> QED
    BY <1>1, <1>2, SeqInduction
<1> QED
  BY <1>3

\* The alternatives are sequences of long words, and there is at least one.
LEMMA AlternativesType ==
  ASSUME NEW t \in Seq(Tokens), NEW m, m = Ors(t, Len(t) + 1) + 1, NEW a, a = Alternatives(t)
  PROVE  /\ a \in Seq(Seq(Long)) /\ Len(a) = m /\ m \in Nat \ {0} /\ a # <<>>
         /\ \A k \in 1..m : a[k] = Alternative(t, k)
<1>1. m \in Nat \ {0}
  BY OrsType, LenProperties
<1>2. \A k \in 1..m : Alternative(t, k) \in Seq(Long)
  BY <1>1, AlternativeType
<1>3. a = [k \in 1..m |-> Alternative(t, k)]
  BY DEF Alternatives
<1>4. a \in Seq(Seq(Long)) /\ Len(a) = m
  BY <1>1, <1>2, <1>3
<1> QED
  BY <1>1, <1>3, <1>4

\* What a token more makes of the alternatives a: b.
AlternativesStep(a, b, e) ==
  /\ e = Or => b = Append(a, <<>>)
  /\ e \in Long => b = [a EXCEPT ![Len(a)] = Append(@, e)]
  /\ e \notin Long \cup {Or} => b = a

\* An or begins another alternative, a long word is added to the last.
LEMMA AlternativesAppend ==
  ASSUME NEW t \in Seq(Tokens), NEW e \in Tokens, NEW a, a = Alternatives(t),
         NEW b, b = Alternatives(Append(t, e))
  PROVE  AlternativesStep(a, b, e)
<1>1. PICK n, u, m : n = Len(t) /\ u = Append(t, e) /\ m = Ors(t, n + 1) + 1
  OBVIOUS
<1>2. n \in Nat /\ u \in Seq(Tokens) /\ Len(u) = n + 1 /\ u[n + 1] = e /\ \A i \in 1..n : u[i] = t[i]
  BY <1>1, AppendProperties, LenProperties
<1>3. Ors(u, n + 1) = Ors(t, n + 1) /\ Ors(u, n + 2) = IF e = Or THEN m ELSE m - 1
  <2>1. n + 1 \in 1..(n + 1) /\ n + 1 \in Nat \ {0} /\ (n + 1) + 1 = n + 2
    BY <1>2
  <2>2. Ors(u, n + 1) = Ors(t, n + 1)
    BY <1>2, <2>1, OrsSame
  <2>3. Ors(u, (n + 1) + 1) = IF u[n + 1] = Or THEN Ors(u, n + 1) + 1 ELSE Ors(u, n + 1)
    BY <2>1, OrsNext
  <2>4. Ors(t, n + 1) \in Nat
    BY <2>1, OrsType
  <2> QED
    BY <1>1, <1>2, <2>1, <2>2, <2>3, <2>4
<1>4. PICK S : S = Seq(Long)
  OBVIOUS
<1>5. a \in Seq(S) /\ Len(a) = m /\ m \in Nat \ {0} /\ \A k \in 1..m : a[k] = Alternative(t, k)
  BY <1>1, <1>4, AlternativesType
<1>6. PICK l : l = Ors(u, n + 2) + 1
  OBVIOUS
<1>7. b \in Seq(S) /\ Len(b) = l /\ \A k \in 1..l : b[k] = Alternative(u, k)
  <2>1. l = Ors(u, Len(u) + 1) + 1
    BY <1>2, <1>6
  <2>2. b = Alternatives(u) /\ u \in Seq(Tokens)
    BY <1>1, <1>2
  <2>3. b \in Seq(Seq(Long)) /\ Len(b) = l /\ \A k \in 1..l : b[k] = Alternative(u, k)
    BY <2>1, <2>2, AlternativesType
  <2> QED
    BY <1>4, <2>3
<1>8. ASSUME NEW k \in Nat PROVE AlternativeStep(t, e, k)
  BY <1>8, AlternativeAppend
<1>9. CASE e = Or
  <2>1. l = m + 1 /\ e \notin Long
    BY <1>3, <1>5, <1>6, <1>9, QueryAssumption
  <2>2. \A k \in 1..(m + 1) : b[k] = Alternative(t, k)
    BY <1>1, <1>5, <1>7, <1>8, <2>1 DEF AlternativeStep
  <2>3. PICK none, c : none = <<>> /\ c = Append(a, none)
    OBVIOUS
  <2>4. none \in S /\ Alternative(t, m + 1) = none
    <3>1. m + 1 \in Nat /\ m + 1 > Ors(t, Len(t) + 1) + 1
      BY <1>1, <1>5
    <3>2. Alternative(t, m + 1) = <<>>
      BY <3>1, AlternativeType
    <3> QED
      BY <1>4, <2>3, <3>2, EmptySeq
  <2>5. c \in Seq(S) /\ Len(c) = m + 1 /\ c[m + 1] = none /\ \A k \in 1..m : c[k] = a[k]
    BY <1>5, <2>3, <2>4, AppendProperties
  <2>6. ASSUME NEW k \in 1..(m + 1) PROVE b[k] = c[k]
    <3>1. k \in 1..m \/ k = m + 1
      BY <1>5
    <3> QED
      BY <1>5, <2>2, <2>4, <2>5, <3>1
  <2>7. b = c
    BY <1>7, <2>1, <2>5, <2>6, SeqEqual
  <2> QED
    BY <1>9, <2>1, <2>3, <2>7 DEF AlternativesStep
<1>10. CASE e \in Long
  <2>1. l = m /\ e # Or
    BY <1>3, <1>5, <1>6, <1>10, QueryAssumption
  <2>2. PICK x, c : x = Append(a[m], e) /\ c = [a EXCEPT ![m] = x]
    OBVIOUS
  <2>3. m \in 1..m /\ a[m] \in S
    BY <1>5, ElementOfSeq
  <2>4. x \in S
    BY <1>4, <1>10, <2>2, <2>3, AppendProperties
  <2>5. c \in Seq(S) /\ Len(c) = m /\ \A k \in 1..m : c[k] = IF k = m THEN x ELSE a[k]
    BY <1>5, <2>2, <2>3, <2>4, ExceptSeq
  <2>6. ASSUME NEW k \in 1..m PROVE b[k] = c[k]
    <3>1. AlternativeStep(t, e, k) /\ b[k] = Alternative(u, k) /\ a[k] = Alternative(t, k)
      BY <1>5, <1>7, <1>8, <2>1
    <3>2. CASE k = m
      BY <1>1, <1>10, <2>2, <2>5, <3>1, <3>2 DEF AlternativeStep
    <3>3. CASE k # m
      BY <1>1, <1>10, <2>5, <3>1, <3>3 DEF AlternativeStep
    <3> QED
      BY <3>2, <3>3
  <2>7. b = c
    BY <1>7, <2>1, <2>5, <2>6, SeqEqual
  <2> QED
    BY <1>5, <1>10, <2>1, <2>2, <2>7 DEF AlternativesStep
<1>11. CASE e \notin Long \cup {Or}
  <2>1. l = m
    BY <1>3, <1>5, <1>6, <1>11
  <2>2. \A k \in 1..m : b[k] = a[k]
    BY <1>1, <1>5, <1>7, <1>8, <1>11, <2>1 DEF AlternativeStep
  <2>3. b = a
    BY <1>5, <1>7, <2>1, <2>2, SeqEqual
  <2> QED
    BY <1>11, <2>3 DEF AlternativesStep
<1> QED
  BY <1>9, <1>10, <1>11

\* A long word is before position i, in the same alternative.
LongIn(t, i) == \E j \in 1..(i - 1) : t[j] \in Long /\ Ors(t, j) = Ors(t, i)

\* The last alternative is empty if there is no long word in it.
LEMMA LastAlternative ==
  ASSUME NEW t \in Seq(Tokens)
  PROVE  Last(Alternatives(t)) # <<>> <=> LongIn(t, Len(t) + 1)
<1> DEFINE G == {s \in Seq(Tokens) : Last(Alternatives(s)) # <<>> <=> LongIn(s, Len(s) + 1)}
<1>1. <<>> \in G
  <2>1. PICK t0 : t0 = <<>> /\ t0 \in Seq(Tokens) /\ Len(t0) = 0
    BY EmptySeq
  <2>2. ~LongIn(t0, Len(t0) + 1)
    BY <2>1 DEF LongIn
  <2>3. Ors(t0, 1) = 0
    BY OrsNext
  <2>4. PICK a : a = Alternatives(t0)
    OBVIOUS
  <2>5. Len(a) = 1 /\ a[1] = Alternative(t0, 1)
    <3>1. PICK m : m = Ors(t0, Len(t0) + 1) + 1
      OBVIOUS
    <3>2. m = 1
      BY <2>1, <2>3, <3>1
    <3>3. t0 \in Seq(Tokens)
      BY <2>1
    <3>4. Len(a) = m /\ \A k \in 1..m : a[k] = Alternative(t0, k)
      BY <2>4, <3>1, <3>3, AlternativesType
    <3> QED
      BY <3>2, <3>4
  <2>6. Alternative(t0, 1) = <<>>
    <3>1. Numbered(t0) = <<>>
      BY <2>1 DEF Numbered
    <3>2. Selected(<<>>, [word : Long, alt : {1}]) = <<>>
      BY SelectedEmpty
    <3>3. PICK none : none = <<>> /\ DOMAIN none = {}
      OBVIOUS
    <3>4. Alternative(t0, 1) = [n \in DOMAIN none |-> none[n].word]
      BY <3>1, <3>2, <3>3 DEF Alternative
    <3>5. [n \in {} |-> none[n].word] = <<>>
      OBVIOUS
    <3> QED
      BY <3>3, <3>4, <3>5
  <2>7. Last(a) = <<>>
    BY <2>5, <2>6 DEF Last
  <2> QED
    BY <2>1, <2>2, <2>4, <2>7
<1>2. ASSUME NEW s \in Seq(Tokens), NEW e \in Tokens, s \in G PROVE Append(s, e) \in G
  <2>1. PICK n, u : n = Len(s) /\ u = Append(s, e)
    OBVIOUS
  <2>2. n \in Nat /\ u \in Seq(Tokens) /\ Len(u) = n + 1 /\ u[n + 1] = e /\ \A i \in 1..n : u[i] = s[i]
    BY <2>1, AppendProperties, LenProperties
  <2>3. PICK a, b : a = Alternatives(s) /\ b = Alternatives(u)
    OBVIOUS
  <2>4. PICK S, m : S = Seq(Long) /\ m = Len(a) /\ a \in Seq(S) /\ m \in Nat \ {0}
    <3>1. PICK m : m = Ors(s, Len(s) + 1) + 1
      OBVIOUS
    <3> QED
      BY <2>3, <3>1, AlternativesType
  <2>5. AlternativesStep(a, b, e)
    BY <2>1, <2>3, AlternativesAppend
  <2>6. Last(a) # <<>> <=> LongIn(s, n + 1)
    BY <1>2, <2>1, <2>3
  <2>7. /\ \A i \in 1..(n + 1) : Ors(u, i) = Ors(s, i) /\ Ors(u, i) \in Nat /\ Ors(u, i) <= Ors(u, n + 1)
        /\ Ors(u, n + 2) = IF e = Or THEN Ors(u, n + 1) + 1 ELSE Ors(u, n + 1)
    <3>1. n + 1 \in Nat \ {0} /\ (n + 1) + 1 = n + 2 /\ \A i \in 1..(n + 1) : i \in Nat /\ i <= n + 1
      BY <2>2
    <3>2. \A i \in 1..(n + 1) : Ors(u, i) = Ors(s, i)
      BY <2>2, OrsSame
    <3>3. \A i \in 1..(n + 1) : Ors(u, i) \in Nat /\ Ors(u, i) <= Ors(u, n + 1)
      BY <3>1, OrsType, OrsMonotone
    <3>4. Ors(u, (n + 1) + 1) = IF u[n + 1] = Or THEN Ors(u, n + 1) + 1 ELSE Ors(u, n + 1)
      BY <3>1, OrsNext
    <3> QED
      BY <2>2, <3>1, <3>2, <3>3, <3>4
  <2>8. Last(b) # <<>> <=> LongIn(u, n + 2)
    <3>1. CASE e = Or
      <4>1. PICK none : none = <<>> /\ none \in S /\ b = Append(a, none)
        BY <2>4, <2>5, <3>1, EmptySeq DEF AlternativesStep
      <4>2. Last(b) = none
        <5>1. Len(b) = m + 1 /\ b[m + 1] = none
          BY <2>4, <4>1, AppendProperties
        <5> QED
          BY <5>1 DEF Last
      <4>3. ~LongIn(u, n + 2)
        <5> SUFFICES ASSUME NEW j \in 1..(n + 1), Ors(u, j) = Ors(u, n + 2) PROVE FALSE
          BY <2>2 DEF LongIn
        <5>1. n + 1 \in 1..(n + 1)
          BY <2>2
        <5>2. Ors(u, n + 1) \in Nat
          BY <2>7, <5>1
        <5> QED
          BY <2>7, <3>1, <5>2
      <4> QED
        BY <4>1, <4>2, <4>3
    <3>2. CASE e \in Long
      <4>1. PICK x, c : x = Append(a[m], e) /\ c = [a EXCEPT ![m] = x]
        OBVIOUS
      <4>2. m \in 1..m /\ a[m] \in Seq(Long)
        BY <2>4, ElementOfSeq
      <4>3. x \in Seq(Long) /\ Len(x) = Len(a[m]) + 1 /\ Len(a[m]) \in Nat
        BY <3>2, <4>1, <4>2, AppendProperties, LenProperties
      <4>4. Len(c) = m /\ c[m] = x
        BY <2>4, <4>1, <4>2, <4>3, ExceptSeq
      <4>5. b = c
        BY <2>4, <2>5, <3>2, <4>1 DEF AlternativesStep
      <4>6. x # <<>>
        BY <4>3, EmptyQueue
      <4>7. Last(b) # <<>>
        BY <4>4, <4>5, <4>6 DEF Last
      <4>8. e # Or
        BY <3>2, QueryAssumption
      <4>9. n + 1 \in 1..((n + 2) - 1) /\ u[n + 1] \in Long /\ Ors(u, n + 1) = Ors(u, n + 2)
        BY <2>2, <2>7, <3>2, <4>8
      <4>10. LongIn(u, n + 2)
        BY <4>9 DEF LongIn
      <4> QED
        BY <4>7, <4>10
    <3>3. CASE e \notin Long \cup {Or}
      <4>1. b = a
        BY <2>5, <3>3 DEF AlternativesStep
      <4>2. n + 1 \in 1..(n + 1) /\ Ors(u, n + 2) = Ors(s, n + 1)
        BY <2>2, <2>7, <3>3
      <4>3. LongIn(u, n + 2) <=> LongIn(s, n + 1)
        <5>1. ASSUME LongIn(u, n + 2) PROVE LongIn(s, n + 1)
          <6>1. PICK j \in 1..((n + 2) - 1) : u[j] \in Long /\ Ors(u, j) = Ors(u, n + 2)
            BY <5>1 DEF LongIn
          <6>2. j \in 1..n
            BY <2>2, <3>3, <6>1
          <6>3. j \in 1..((n + 1) - 1) /\ s[j] \in Long /\ Ors(s, j) = Ors(s, n + 1)
            BY <2>2, <2>7, <4>2, <6>1, <6>2
          <6> QED
            BY <6>3 DEF LongIn
        <5>2. ASSUME LongIn(s, n + 1) PROVE LongIn(u, n + 2)
          <6>1. PICK j \in 1..((n + 1) - 1) : s[j] \in Long /\ Ors(s, j) = Ors(s, n + 1)
            BY <5>2 DEF LongIn
          <6>2. j \in 1..((n + 2) - 1) /\ u[j] \in Long /\ Ors(u, j) = Ors(u, n + 2)
            BY <2>2, <2>7, <4>2, <6>1
          <6> QED
            BY <6>2 DEF LongIn
        <5> QED
          BY <5>1, <5>2
      <4> QED
        BY <2>6, <4>1, <4>3
    <3> QED
      BY <3>1, <3>2, <3>3
  <2>9. (n + 1) + 1 = n + 2
    BY <2>2
  <2> QED
    BY <2>1, <2>2, <2>3, <2>8, <2>9
<1>3. \A s \in Seq(Tokens) : s \in G
  <2> HIDE DEF G
  <2> QED
    BY <1>1, <1>2, SeqInduction
<1> QED
  BY <1>3

\* What the parser has when it has not given up: sequences of words, the last of which it
\* adds to.
Parsed == {s \in Seq(Seq(Long)) : s # <<>>}

Foreign(t) == \E i \in DOMAIN t : t[i] \in Bad

\* A step of the parser.
LEMMA WordType ==
  ASSUME NEW t \in Seq(Tokens), ~Foreign(t), NEW s \in Parsed \cup {Invalid}, NEW i \in 1..Len(t)
  PROVE  Word(t, s, i) \in Parsed \cup {Invalid}
<1>1. t[i] \in Tokens /\ t[i] \notin Bad
  BY ElementOfSeq, LenProperties DEF Foreign
<1>2. CASE s = Invalid
  BY <1>2 DEF Word
<1>3. CASE s # Invalid
  <2>1. PICK S : S = Seq(Long)
    OBVIOUS
  <2>2. s \in Seq(S) /\ Len(s) \in Nat \ {0}
    BY <1>3, <2>1, EmptyQueue, LenProperties DEF Parsed
  <2>3. CASE t[i] \in Operators
    <3>1. PICK none, c : none = <<>> /\ c = Append(s, none)
      OBVIOUS
    <3>2. none \in S
      BY <2>1, <3>1, EmptySeq
    <3>3. c \in Seq(S) /\ Len(c) = Len(s) + 1
      BY <2>2, <3>1, <3>2, AppendProperties
    <3>4. c \in Parsed
      BY <2>1, <2>2, <3>3, EmptyQueue DEF Parsed
    <3>5. Word(t, s, i) \in {Invalid, c, s}
      BY <2>3, <3>1 DEF Word
    <3> QED
      BY <3>4, <3>5
  <2>4. CASE t[i] \notin Operators /\ t[i] \in Short
    <3>1. Word(t, s, i) = s
      BY <1>3, <2>4 DEF Word
    <3> QED
      BY <3>1
  <2>5. CASE t[i] \notin Operators /\ t[i] \notin Short
    <3>1. t[i] \in Long
      BY <1>1, <2>5 DEF Tokens
    <3>2. PICK m, x, c : m = Len(s) /\ x = Append(s[m], t[i]) /\ c = [s EXCEPT ![m] = x]
      OBVIOUS
    <3>3. m \in 1..Len(s) /\ s[m] \in S
      BY <2>2, <3>2, ElementOfSeq
    <3>4. x \in S
      BY <2>1, <3>1, <3>2, <3>3, AppendProperties
    <3>5. c \in Seq(S) /\ Len(c) = Len(s)
      BY <2>2, <3>2, <3>3, <3>4, ExceptSeq
    <3>6. c \in Parsed
      BY <2>1, <2>2, <3>5, EmptyQueue DEF Parsed
    <3>7. Word(t, s, i) = c
      BY <1>3, <2>5, <3>2 DEF Word
    <3> QED
      BY <3>6, <3>7
  <2> QED
    BY <2>3, <2>4, <2>5
<1> QED
  BY <1>2, <1>3

\* The parser goes through the tokens step by step.
ParseRun(g, t) ==
  /\ g[0] = << <<>> >> /\ \A i \in 0..Len(t) : g[i] \in Parsed \cup {Invalid}
  /\ \A i \in 1..Len(t) : g[i] = Word(t, g[i - 1], i)
  /\ FoldLeft(LAMBDA s, i : Word(t, s, i), << <<>> >>, [i \in DOMAIN t |-> i]) = g[Len(t)]

\* There are such steps.
LEMMA ParseSteps ==
  ASSUME NEW t \in Seq(Tokens), ~Foreign(t)
  PROVE  \E g : ParseRun(g, t)
<1>1. PICK n \in Nat : DOMAIN t = 1..n /\ Len(t) = n
  BY LenProperties
<1>2. PICK V, base : V = Parsed \cup {Invalid} /\ base = << <<>> >>
  OBVIOUS
<1>3. base \in V
  <2>1. PICK S, none : S = Seq(Long) /\ none = <<>> /\ none \in S
    BY EmptySeq
  <2>2. <<none>> \in Seq(S) /\ <<none>> # <<>>
    BY <2>1
  <2> QED
    BY <1>2, <2>1, <2>2 DEF Parsed
<1>4. PICK ps : ps = [i \in DOMAIN t |-> i]
  OBVIOUS
<1>5. DOMAIN ps = 1..n /\ \A i \in 1..n : ps[i] = i
  BY <1>1, <1>4
<1>6. PICK h : h = [x \in (1..n) \X V |-> Word(t, x[2], x[1])]
  OBVIOUS
<1>7. h \in [(1..n) \X V -> V] /\ \A i \in 1..n, v \in V : h[<<i, v>>] = Word(t, v, ps[i])
  BY <1>1, <1>2, <1>5, <1>6, WordType
<1>8. PICK f \in [SUBSET (1..n) -> V] : IsFold(f, n, base, h)
  BY <1>3, <1>7, FoldExists
<1> DEFINE WordFold(e) == e = [p \in SUBSET (DOMAIN ps) |->
             IF p = {} THEN base ELSE Word(t, e[p \ {Max(p)}], ps[Max(p)])]
<1>9. \E e : WordFold(e)
  <2>1. ASSUME NEW p \in SUBSET (1..n), p # {}
        PROVE  h[<<Max(p), f[p \ {Max(p)}]>>] = Word(t, f[p \ {Max(p)}], ps[Max(p)])
    BY <1>7, <1>8, <2>1, BeforeMax
  <2>2. WordFold(f)
    BY <1>5, <1>8, <2>1 DEF IsFold
  <2> QED
    BY <2>2
<1>10. PICK r : r = FoldLeft(LAMBDA s, i : Word(t, s, i), base, ps)
  OBVIOUS
<1>11. PICK e : WordFold(e) /\ r = e[1..n]
  <2>1. r = (CHOOSE e : WordFold(e))[1..n]
    BY <1>5, <1>10 DEF FoldLeft, MapThenFoldSet
  <2> HIDE DEF WordFold
  <2> QED
    BY <1>9, <2>1
<1>12. e[{}] = base
  BY <1>11
<1>13. ASSUME NEW p \in SUBSET (1..n), p # {}, e[p \ {Max(p)}] \in V
       PROVE  e[p] = h[<<Max(p), e[p \ {Max(p)}]>>]
  <2>1. Max(p) \in 1..n
    BY <1>13, BeforeMax
  <2>2. e[p] = Word(t, e[p \ {Max(p)}], ps[Max(p)])
    BY <1>5, <1>11, <1>13
  <2> QED
    BY <1>7, <1>13, <2>1, <2>2
<1>14. PICK g : Runs(g, n, V, base, h, e[1..n])
  BY <1>3, <1>7, <1>12, <1>13, FoldSteps
<1>15. g[0] = base /\ (\A i \in 0..n : g[i] \in V) /\ g[n] = r
  BY <1>11, <1>14 DEF Runs
<1>16. ASSUME NEW i \in 1..n PROVE g[i] = Word(t, g[i - 1], i)
  <2>1. i - 1 \in 0..n
    OBVIOUS
  <2>2. g[i] = h[<<i, g[i - 1]>>] /\ g[i - 1] \in V
    BY <1>14, <2>1 DEF Runs
  <2> QED
    BY <1>5, <1>7, <2>2
<1> QED
  BY <1>1, <1>2, <1>4, <1>10, <1>15, <1>16 DEF ParseRun

\* Up to token i, no operator is before another or without a long word before it.
OperatorsFine(t, i) ==
  \A j \in 1..i : t[j] \in Operators =>
    LongIn(t, j) /\ (j < Len(t) => t[j + 1] \notin Operators)

\* A token more in the loop of parse_query, after the tokens p.
LEMMA WordStep ==
  ASSUME NEW t \in Seq(Tokens), ~Foreign(t), NEW i \in 1..Len(t), NEW p \in Seq(Tokens), Len(p) = i - 1,
         \A j \in 1..(i - 1) : p[j] = t[j],
         NEW a, a = Alternatives(p), NEW b, b = Alternatives(Append(p, t[i])), NEW w, w = Word(t, a, i)
  PROVE  /\ t[i] \in Operators /\ ~(LongIn(t, i) /\ (i < Len(t) => t[i + 1] \notin Operators)) => w = Invalid
         /\ t[i] \in Operators /\ LongIn(t, i) /\ (i < Len(t) => t[i + 1] \notin Operators) => w = b
         /\ t[i] \notin Operators => w = b
<1>1. t[i] \in Tokens /\ t[i] \notin Bad /\ Len(t) \in Nat
  BY ElementOfSeq, LenProperties DEF Foreign
<1>2. AlternativesStep(a, b, t[i])
  BY <1>1, AlternativesAppend
<1>3. a # Invalid
  <2>1. a \in Seq(Seq(Long))
    BY AlternativesType
  <2> QED
    BY <2>1, QueryAssumption
<1>4. Last(a) # <<>> <=> LongIn(t, i)
  <2>1. Last(a) # <<>> <=> LongIn(p, i)
    BY LastAlternative
  <2>2. \A j \in 1..i : Ors(p, j) = Ors(t, j)
    <3>1. i - 1 \in Nat /\ (i - 1) + 1 = i
      BY <1>1
    <3> QED
      BY <3>1, OrsSame
  <2>3. \A j \in 1..(i - 1) : j \in 1..i /\ p[j] = t[j]
    OBVIOUS
  <2>4. i \in 1..i
    OBVIOUS
  <2>5. LongIn(p, i) <=> LongIn(t, i)
    BY <2>2, <2>3, <2>4 DEF LongIn
  <2> QED
    BY <2>1, <2>5
<1>5. CASE t[i] \in Operators
  <2>1. t[i] \notin Long
    BY <1>5, QueryAssumption DEF Operators
  <2>2. b = IF t[i] = Or THEN Append(a, <<>>) ELSE a
    BY <1>2, <2>1 DEF AlternativesStep
  <2> QED
    BY <1>3, <1>4, <1>5, <2>2 DEF Word
<1>6. CASE t[i] \in Short /\ t[i] \notin Operators
  <2>1. t[i] \notin Long \cup {Or}
    BY <1>6, QueryAssumption DEF Operators
  <2>2. b = a
    BY <1>2, <2>1 DEF AlternativesStep
  <2> QED
    BY <1>3, <1>6, <2>2 DEF Word
<1>7. CASE t[i] \notin Short /\ t[i] \notin Operators
  <2>1. t[i] \in Long
    BY <1>1, <1>7 DEF Tokens
  <2>2. b = [a EXCEPT ![Len(a)] = Append(@, t[i])]
    BY <1>2, <2>1 DEF AlternativesStep
  <2> QED
    BY <1>3, <1>7, <2>2 DEF Word
<1> QED
  BY <1>5, <1>6, <1>7

\* No alternative is empty but perhaps the last.
Filled(a) == \A k \in 1..(Len(a) - 1) : a[k] # <<>>

\* It stays so if an or comes after a long word.
LEMMA FilledAppend ==
  ASSUME NEW p \in Seq(Tokens), NEW e \in Tokens, NEW a, a = Alternatives(p), NEW b, b = Alternatives(Append(p, e)),
         Filled(a), e = Or => Last(a) # <<>>
  PROVE  Filled(b)
<1>1. PICK S, m : S = Seq(Long) /\ m = Len(a) /\ a \in Seq(S) /\ m \in Nat \ {0}
  <2>1. PICK m : m = Ors(p, Len(p) + 1) + 1
    OBVIOUS
  <2> QED
    BY <2>1, AlternativesType
<1>2. AlternativesStep(a, b, e)
  BY AlternativesAppend
<1>3. CASE e = Or
  <2>1. PICK none, c : none = <<>> /\ c = Append(a, none) /\ none \in S
    BY <1>1, EmptySeq
  <2>2. Len(c) = m + 1 /\ \A k \in 1..m : c[k] = a[k]
    BY <1>1, <2>1, AppendProperties
  <2>3. a[m] # <<>>
    BY <1>1, <1>3 DEF Last
  <2>4. \A k \in 1..m : c[k] # <<>>
    BY <1>1, <2>2, <2>3 DEF Filled
  <2>5. b = c
    BY <1>2, <1>3, <2>1 DEF AlternativesStep
  <2> QED
    BY <1>1, <2>2, <2>4, <2>5 DEF Filled
<1>4. CASE e \in Long
  <2>1. PICK x, c : x = Append(a[m], e) /\ c = [a EXCEPT ![m] = x]
    OBVIOUS
  <2>2. m \in 1..Len(a) /\ a[m] \in S
    BY <1>1, ElementOfSeq
  <2>3. x \in S
    BY <1>1, <1>4, <2>1, <2>2, AppendProperties
  <2>4. Len(c) = m /\ \A k \in 1..m : c[k] = IF k = m THEN x ELSE a[k]
    BY <1>1, <2>1, <2>2, <2>3, ExceptSeq
  <2>5. b = c
    BY <1>1, <1>2, <1>4, <2>1 DEF AlternativesStep
  <2>6. ASSUME NEW k \in 1..(m - 1) PROVE c[k] # <<>>
    <3>1. k \in 1..m /\ k # m /\ a[k] # <<>>
      BY <1>1 DEF Filled
    <3> QED
      BY <2>4, <3>1
  <2> QED
    BY <2>4, <2>5, <2>6 DEF Filled
<1>5. CASE e \notin Long \cup {Or}
  BY <1>2, <1>5 DEF AlternativesStep
<1> QED
  BY <1>3, <1>4, <1>5

\* What the parser has, v, after the first i tokens p.
ParsedTo(t, v, p, i) ==
  /\ OperatorsFine(t, i) => v = Alternatives(p) /\ Filled(Alternatives(p))
  /\ ~OperatorsFine(t, i) => v = Invalid

\* The loop of parse_query.
LEMMA ParserLoop ==
  ASSUME NEW t \in Seq(Tokens), ~Foreign(t), NEW g, ParseRun(g, t)
  PROVE  \A i \in 0..Len(t) : ParsedTo(t, g[i], SubSeq(t, 1, i), i)
<1>1. PICK n \in Nat : Len(t) = n /\ \A i \in 1..n : t[i] \in Tokens
  BY LenProperties, ElementOfSeq
<1>2. g[0] = << <<>> >> /\ \A i \in 1..n : g[i] = Word(t, g[i - 1], i)
  BY <1>1 DEF ParseRun
<1> DEFINE P == {i \in Nat : i <= n => ParsedTo(t, g[i], SubSeq(t, 1, i), i)}
<1>3. 0 \in P
  <2>1. PICK p : p = SubSeq(t, 1, 0)
    OBVIOUS
  <2>2. p \in Seq(Tokens) /\ Len(p) = 0
    BY <2>1, EmptySeq, SubSeqEmpty
  <2>3. PICK a, m : a = Alternatives(p) /\ m = Ors(p, Len(p) + 1) + 1
    OBVIOUS
  <2>4. m = 1
    <3>1. Ors(p, 1) = 0
      BY OrsNext
    <3> QED
      BY <2>2, <2>3, <3>1
  <2>5. a \in Seq(Seq(Long)) /\ Len(a) = m /\ \A k \in 1..m : a[k] = Alternative(p, k)
    <3>1. p \in Seq(Tokens)
      BY <2>2
    <3> QED
      BY <2>3, <3>1, AlternativesType
  <2>6. a[1] = <<>>
    <3>1. Last(a) # <<>> <=> LongIn(p, Len(p) + 1)
      BY <2>2, <2>3, LastAlternative
    <3>2. ~LongIn(p, Len(p) + 1)
      BY <2>2 DEF LongIn
    <3> QED
      BY <2>4, <2>5, <3>1, <3>2 DEF Last
  <2>7. a = << <<>> >>
    <3>1. PICK S, none, c : S = Seq(Long) /\ none = <<>> /\ none \in S /\ c = <<none>>
      BY EmptySeq
    <3>2. c \in Seq(S) /\ Len(c) = 1 /\ c[1] = none
      BY <3>1
    <3>3. a = c
      BY <2>4, <2>5, <2>6, <3>1, <3>2, SeqEqual
    <3> QED
      BY <3>1, <3>3
  <2>8. OperatorsFine(t, 0)
    BY DEF OperatorsFine
  <2>9. Filled(a)
    BY <2>4, <2>5 DEF Filled
  <2> QED
    BY <1>2, <2>1, <2>3, <2>7, <2>8, <2>9 DEF ParsedTo
<1>4. ASSUME NEW k \in Nat, k \in P PROVE k + 1 \in P
  <2> SUFFICES ASSUME k + 1 <= n PROVE ParsedTo(t, g[k + 1], SubSeq(t, 1, k + 1), k + 1)
    OBVIOUS
  <2>1. PICK i : i = k + 1 /\ i \in 1..n /\ i - 1 = k
    BY <1>1
  <2>2. PICK p, q, e : p = SubSeq(t, 1, k) /\ q = SubSeq(t, 1, i) /\ e = t[i] /\ e \in Tokens
    BY <1>1, <2>1
  <2>3. p \in Seq(Tokens) /\ Len(p) = k /\ \A j \in 1..k : p[j] = t[j]
    BY <1>1, <2>1, <2>2
  <2>4. q = Append(p, e)
    <3>1. q \in Seq(Tokens) /\ Len(q) = i /\ \A j \in 1..i : q[j] = t[j]
      BY <1>1, <2>1, <2>2
    <3>2. PICK r : r = Append(p, e)
      OBVIOUS
    <3>3. r \in Seq(Tokens) /\ Len(r) = k + 1 /\ r[k + 1] = e /\ \A j \in 1..k : r[j] = p[j]
      BY <2>2, <2>3, <3>2, AppendProperties
    <3>4. \A j \in 1..i : q[j] = r[j]
      <4> SUFFICES ASSUME NEW j \in 1..i PROVE q[j] = r[j]
        OBVIOUS
      <4>1. j \in 1..k \/ j = i
        BY <2>1
      <4> QED
        BY <2>1, <2>2, <2>3, <3>1, <3>3, <4>1
    <3> QED
      BY <2>1, <3>1, <3>2, <3>3, <3>4, SeqEqual
  <2>5. PICK a, b, w : a = Alternatives(p) /\ b = Alternatives(q) /\ w = Word(t, a, i)
    OBVIOUS
  <2>6. /\ t[i] \in Operators /\ ~(LongIn(t, i) /\ (i < Len(t) => t[i + 1] \notin Operators)) => w = Invalid
        /\ t[i] \in Operators /\ LongIn(t, i) /\ (i < Len(t) => t[i + 1] \notin Operators) => w = b
        /\ t[i] \notin Operators => w = b
    <3>1. i \in 1..Len(t) /\ p \in Seq(Tokens) /\ Len(p) = i - 1 /\ \A j \in 1..(i - 1) : p[j] = t[j]
      BY <1>1, <2>1, <2>3
    <3>2. b = Alternatives(Append(p, t[i])) /\ a = Alternatives(p) /\ w = Word(t, a, i)
      BY <2>2, <2>4, <2>5
    <3> QED
      BY <3>1, <3>2, WordStep
  <2>7. ParsedTo(t, g[k], p, k)
    BY <1>4, <2>1, <2>2
  <2>8. g[i] = Word(t, g[k], i)
    BY <1>2, <2>1
  <2>9. OperatorsFine(t, i) <=> /\ OperatorsFine(t, k)
                                /\ t[i] \in Operators => LongIn(t, i) /\ (i < Len(t) => t[i + 1] \notin Operators)
    <3>1. \A j \in 1..i : j \in 1..k \/ j = i
      BY <2>1
    <3>2. i \in 1..i /\ \A j \in 1..k : j \in 1..i
      BY <2>1
    <3> QED
      BY <3>1, <3>2 DEF OperatorsFine
  <2>10. CASE OperatorsFine(t, i)
    <3>1. g[i] = b
      BY <2>5, <2>6, <2>7, <2>8, <2>9, <2>10 DEF ParsedTo
    <3>2. e = Or => Last(a) # <<>>
      <4>1. ASSUME e = Or PROVE LongIn(t, i)
        BY <2>2, <2>9, <2>10, <4>1 DEF Operators
      <4>2. Last(a) # <<>> <=> LongIn(p, i)
        BY <2>1, <2>3, <2>5, LastAlternative
      <4>3. \A j \in 1..i : Ors(p, j) = Ors(t, j)
        <5>1. k + 1 = i
          BY <2>1
        <5> QED
          BY <2>3, <5>1, OrsSame
      <4>4. LongIn(t, i) => LongIn(p, i)
        <5>1. \A j \in 1..(i - 1) : j \in 1..i /\ p[j] = t[j]
          BY <2>1, <2>3
        <5>2. i \in 1..i
          BY <2>1
        <5> QED
          BY <4>3, <5>1, <5>2 DEF LongIn
      <4> QED
        BY <4>1, <4>2, <4>4
    <3>3. Filled(a)
      BY <2>5, <2>7, <2>9, <2>10 DEF ParsedTo
    <3>4. Filled(b)
      BY <2>2, <2>3, <2>4, <2>5, <3>2, <3>3, FilledAppend
    <3> QED
      BY <2>1, <2>2, <2>5, <2>10, <3>1, <3>4 DEF ParsedTo
  <2>11. CASE ~OperatorsFine(t, i)
    <3>1. g[i] = Invalid
      <4>1. CASE OperatorsFine(t, k)
        BY <2>5, <2>6, <2>7, <2>8, <2>9, <2>11, <4>1 DEF ParsedTo
      <4>2. CASE ~OperatorsFine(t, k)
        <5>1. g[k] = Invalid
          BY <2>7, <4>2 DEF ParsedTo
        <5> QED
          BY <2>8, <5>1 DEF Word
      <4> QED
        BY <4>1, <4>2
    <3> QED
      BY <2>1, <2>2, <2>11, <3>1 DEF ParsedTo
  <2> QED
    BY <2>10, <2>11
<1>5. \A i \in Nat : i \in P
  <2> HIDE DEF P
  <2> QED
    BY <1>3, <1>4, SetInduction
<1> QED
  BY <1>1, <1>5

\* What parse_query makes of a line of tokens.
Parsing(t) == IF ~Grammatical(t) THEN Invalid ELSE IF t = <<>> THEN <<>> ELSE Alternatives(t)

\* The tokens that are taken from a line.
LEMMA TakenType ==
  ASSUME NEW line \in Seq(Tokens)
  PROVE  Taken(line) \in Seq(Tokens)
<1>1. PICK n : n = (IF Len(line) < MAX_WORDS THEN Len(line) ELSE MAX_WORDS)
  OBVIOUS
<1>2. n \in Int /\ n <= Len(line)
  BY <1>1, QueryAssumption, LenProperties
<1>3. SubSeq(line, 1, n) \in Seq(Tokens)
  BY <1>2, LenProperties, ElementOfSeq, SubSeqProperties
<1> QED
  BY <1>1, <1>3 DEF Taken

\* It takes the queries of the grammar, and its sequences are their alternatives, none of
\* them empty.
LEMMA ParseIsRight ==
  ASSUME NEW line \in Seq(Tokens), NEW t, t = Taken(line)
  PROVE  /\ Parse(line) = Parsing(t)
         /\ Grammatical(t) /\ t # <<>> => \A k \in DOMAIN Alternatives(t) : Alternatives(t)[k] # <<>>
<1>1. t \in Seq(Tokens)
  BY TakenType
<1>2. PICK n \in Nat : n = Len(t) /\ DOMAIN t = 1..n
  BY <1>1, LenProperties
<1>3. Parse(line) = IF Foreign(t) THEN Invalid
                    ELSE IF t = <<>> THEN <<>>
                    ELSE IF Head(t) \in Operators \/ Last(t) \in Operators THEN Invalid
                    ELSE Sequences(t)
  BY DEF Parse, Foreign
<1>4. Grammatical(t) <=>
        /\ ~Foreign(t)
        /\ n > 0 => t[1] \notin Operators /\ t[n] \notin Operators
        /\ \A i \in 1..(n - 1) : t[i] \in Operators => t[i + 1] \notin Operators
        /\ \A i \in 1..n : t[i] \in Operators => LongIn(t, i)
        /\ n > 0 => LongIn(t, n + 1)
  BY <1>2 DEF Grammatical, Foreign, LongIn
<1>5. CASE Foreign(t)
  BY <1>3, <1>4, <1>5 DEF Parsing
<1>6. CASE ~Foreign(t) /\ t = <<>>
  <2>1. n = 0
    BY <1>2, <1>6
  <2>2. Grammatical(t)
    BY <1>4, <1>6, <2>1
  <2> QED
    BY <1>3, <1>6, <2>2 DEF Parsing
<1>7. CASE ~Foreign(t) /\ t # <<>>
  <2>1. n > 0 /\ Head(t) = t[1] /\ Last(t) = t[n]
    <3>1. n # 0
      BY <1>1, <1>2, <1>7, EmptyQueue
    <3>2. Head(t) = t[1]
      BY <1>1, <1>7
    <3>3. Last(t) = t[n]
      BY <1>2 DEF Last
    <3> QED
      BY <1>2, <3>1, <3>2, <3>3
  <2>2. PICK g : ParseRun(g, t)
    BY <1>1, <1>7, ParseSteps
  <2>3. PICK a, s : a = Alternatives(t) /\ s = g[n]
    OBVIOUS
  <2>4. ParsedTo(t, s, t, n)
    <3>1. n \in 0..Len(t) /\ SubSeq(t, 1, n) = t
      BY <1>1, <1>2, SubSeqFull
    <3>2. ParsedTo(t, g[n], SubSeq(t, 1, n), n)
      BY <1>1, <1>7, <2>2, <3>1, ParserLoop
    <3> QED
      BY <2>3, <3>1, <3>2
  <2>5. Sequences(t) = IF s = Invalid \/ Last(s) = <<>> THEN Invalid ELSE s
    <3>1. FoldLeft(LAMBDA x, i : Word(t, x, i), << <<>> >>, [i \in DOMAIN t |-> i]) = s
      BY <1>2, <2>2, <2>3 DEF ParseRun
    <3> QED
      BY <3>1, Zenon DEF Sequences
  <2>6. a # Invalid /\ a # <<>> /\ (Last(a) # <<>> <=> LongIn(t, n + 1))
    <3>1. PICK m : m = Ors(t, Len(t) + 1) + 1
      OBVIOUS
    <3>2. a \in Seq(Seq(Long)) /\ a # <<>>
      BY <1>1, <2>3, <3>1, AlternativesType
    <3>3. Last(a) # <<>> <=> LongIn(t, n + 1)
      BY <1>1, <1>2, <2>3, LastAlternative
    <3> QED
      BY <3>2, <3>3, QueryAssumption
  <2>7. OperatorsFine(t, n) <=>
          /\ \A i \in 1..(n - 1) : t[i] \in Operators => t[i + 1] \notin Operators
          /\ \A i \in 1..n : t[i] \in Operators => LongIn(t, i)
    <3>1. ASSUME OperatorsFine(t, n)
          PROVE  /\ \A i \in 1..(n - 1) : t[i] \in Operators => t[i + 1] \notin Operators
                 /\ \A i \in 1..n : t[i] \in Operators => LongIn(t, i)
      BY <1>2, <3>1 DEF OperatorsFine
    <3>2. ASSUME \A i \in 1..(n - 1) : t[i] \in Operators => t[i + 1] \notin Operators,
                 \A i \in 1..n : t[i] \in Operators => LongIn(t, i)
          PROVE  OperatorsFine(t, n)
      <4>1. \A i \in 1..n : i < Len(t) => i \in 1..(n - 1)
        BY <1>2
      <4> QED
        BY <3>2, <4>1 DEF OperatorsFine
    <3> QED
      BY <3>1, <3>2
  <2>8. Parse(line) = Parsing(t)
    <3>1. CASE Grammatical(t)
      <4>1. s = a /\ Last(a) # <<>>
        BY <1>4, <2>1, <2>3, <2>4, <2>6, <2>7, <3>1 DEF ParsedTo
      <4> QED
        BY <1>3, <1>4, <1>7, <2>1, <2>3, <2>5, <2>6, <3>1, <4>1 DEF Parsing
    <3>2. CASE ~Grammatical(t)
      <4>1. CASE t[1] \in Operators \/ t[n] \in Operators
        BY <1>3, <1>7, <2>1, <3>2, <4>1 DEF Parsing
      <4>2. CASE t[1] \notin Operators /\ t[n] \notin Operators
        <5>1. Sequences(t) = Invalid
          <6>1. CASE OperatorsFine(t, n)
            BY <1>4, <1>7, <2>1, <2>3, <2>4, <2>5, <2>6, <2>7, <3>2, <4>2, <6>1 DEF ParsedTo
          <6>2. CASE ~OperatorsFine(t, n)
            BY <2>4, <2>5, <6>2 DEF ParsedTo
          <6> QED
            BY <6>1, <6>2
        <5> QED
          BY <1>3, <1>7, <2>1, <3>2, <4>2, <5>1 DEF Parsing
      <4> QED
        BY <4>1, <4>2
    <3> QED
      BY <3>1, <3>2
  <2>9. Grammatical(t) => \A k \in DOMAIN a : a[k] # <<>>
    <3> SUFFICES ASSUME Grammatical(t), NEW k \in DOMAIN a PROVE a[k] # <<>>
      OBVIOUS
    <3>1. Filled(a) /\ Last(a) # <<>>
      BY <1>4, <2>1, <2>3, <2>4, <2>6, <2>7 DEF ParsedTo
    <3>2. DOMAIN a = 1..Len(a) /\ Len(a) \in Nat
      <4>1. PICK m : m = Ors(t, Len(t) + 1) + 1
        OBVIOUS
      <4>2. a \in Seq(Seq(Long))
        BY <1>1, <2>3, <4>1, AlternativesType
      <4> QED
        BY <4>2, LenProperties
    <3>3. k \in 1..(Len(a) - 1) \/ k = Len(a)
      BY <3>2
    <3> QED
      BY <3>1, <3>3 DEF Filled, Last
  <2> QED
    BY <2>3, <2>8, <2>9
<1> QED
  BY <1>5, <1>6, <1>7

-----------------------------------------------------------------------------
(***************************************************************************)
(* Ranks: what the loop over the words of a query computes is the rank.    *)
(***************************************************************************)
\* What the sequences of a query, or its alternatives, add to the sum.
MinScores(count, ss) == [i \in DOMAIN ss |-> MinScore(count, ss[i])]

LeastCounts(count, ss) == [i \in DOMAIN ss |-> LeastCount(count, ss[i])]

\* A sum that is kept in an int.
AddsInt(g, n, a) ==
  /\ g[0] = 0 /\ \A i \in 0..n : g[i] \in Ints
  /\ \A i \in 1..n : a[i] \in Int /\ g[i] = ToInt(g[i - 1] + a[i])

\* The score is the sum of what the sequences add.
LEMMA ScoreSteps ==
  ASSUME NEW S, NEW ss \in Seq(S), NEW count, \A i \in DOMAIN ss : MinScore(count, ss[i]) \in Int
  PROVE  \E g : AddsInt(g, Len(ss), MinScores(count, ss)) /\ Score(count, ss) = g[Len(ss)]
<1>1. PICK n \in Nat : DOMAIN ss = 1..n /\ Len(ss) = n
  BY LenProperties
<1>2. PICK v, base : v = MinScores(count, ss) /\ base = 0 /\ base \in Ints
  <2>1. 0 \in Ints
    BY IndexAssumption DEF Ints
  <2> QED
    BY <2>1
<1>3. \A i \in 1..n : v[i] = MinScore(count, ss[i]) /\ v[i] \in Int
  BY <1>1, <1>2 DEF MinScores
<1>4. PICK h : h = [y \in (1..n) \X Ints |-> ToInt(y[2] + v[y[1]])]
  OBVIOUS
<1>5. h \in [(1..n) \X Ints -> Ints] /\ \A i \in 1..n, x \in Ints : h[<<i, x>>] = ToInt(x + MinScore(count, ss[i]))
  <2>1. ASSUME NEW i \in 1..n, NEW x \in Ints PROVE ToInt(x + v[i]) \in Ints
    <3>1. x + v[i] \in Int
      BY <1>3, IndexAssumption DEF Ints
    <3> QED
      BY <3>1, ToIntIsInt
  <2> QED
    BY <1>3, <1>4, <2>1
<1>6. PICK f \in [SUBSET (1..n) -> Ints] : IsFold(f, n, base, h)
  BY <1>2, <1>5, FoldExists
<1> DEFINE SumFold(e) == e = [t \in SUBSET (DOMAIN ss) |->
             IF t = {} THEN base ELSE ToInt(e[t \ {Max(t)}] + MinScore(count, ss[Max(t)]))]
<1>7. \E e : SumFold(e)
  <2>1. ASSUME NEW t \in SUBSET (1..n), t # {}
        PROVE  h[<<Max(t), f[t \ {Max(t)}]>>] = ToInt(f[t \ {Max(t)}] + MinScore(count, ss[Max(t)]))
    BY <1>5, <1>6, <2>1, BeforeMax
  <2>2. SumFold(f)
    BY <1>1, <1>6, <2>1 DEF IsFold
  <2> QED
    BY <2>2
<1>8. PICK r : r = Score(count, ss)
  OBVIOUS
<1>9. PICK e : SumFold(e) /\ r = e[1..n]
  <2>1. r = (CHOOSE e : SumFold(e))[1..n]
    BY <1>1, <1>2, <1>8 DEF Score, FoldLeft, MapThenFoldSet
  <2> HIDE DEF SumFold
  <2> QED
    BY <1>7, <2>1
<1>10. e[{}] = base
  BY <1>9
<1>11. ASSUME NEW t \in SUBSET (1..n), t # {}, e[t \ {Max(t)}] \in Ints
       PROVE  e[t] = h[<<Max(t), e[t \ {Max(t)}]>>]
  <2>1. Max(t) \in 1..n
    BY <1>11, BeforeMax
  <2>2. e[t] = ToInt(e[t \ {Max(t)}] + MinScore(count, ss[Max(t)]))
    BY <1>1, <1>9, <1>11
  <2> QED
    BY <1>5, <1>11, <2>1, <2>2
<1>12. PICK g : Runs(g, n, Ints, base, h, e[1..n])
  BY <1>2, <1>5, <1>10, <1>11, FoldSteps
<1>13. ASSUME NEW i \in 1..n PROVE g[i] = ToInt(g[i - 1] + v[i])
  <2>1. i - 1 \in 0..n
    OBVIOUS
  <2>2. g[i] = h[<<i, g[i - 1]>>] /\ g[i - 1] \in Ints
    BY <1>12, <2>1 DEF Runs
  <2> QED
    BY <1>3, <1>5, <2>2
<1>14. AddsInt(g, n, v) /\ r = g[n]
  BY <1>1, <1>2, <1>3, <1>9, <1>12, <1>13 DEF Runs, AddsInt
<1> QED
  BY <1>1, <1>2, <1>8, <1>14

\* So is the rank.
LEMMA RankSteps ==
  ASSUME NEW S, NEW ss \in Seq(S), NEW count, \A i \in DOMAIN ss : LeastCount(count, ss[i]) \in Int
  PROVE  \E g : Adds(g, Len(ss), 0, LeastCounts(count, ss)) /\ Rank(count, ss) = g[Len(ss)]
<1>1. PICK n \in Nat : DOMAIN ss = 1..n /\ Len(ss) = n
  BY LenProperties
<1>2. PICK v, base : v = LeastCounts(count, ss) /\ base = 0 /\ base \in Int
  OBVIOUS
<1>3. \A i \in 1..n : v[i] = LeastCount(count, ss[i]) /\ v[i] \in Int
  BY <1>1, <1>2 DEF LeastCounts
<1>4. PICK h : h = [y \in (1..n) \X Int |-> y[2] + v[y[1]]]
  OBVIOUS
<1>5. h \in [(1..n) \X Int -> Int] /\ \A i \in 1..n, x \in Int : h[<<i, x>>] = x + LeastCount(count, ss[i])
  BY <1>3, <1>4
<1>6. PICK f \in [SUBSET (1..n) -> Int] : IsFold(f, n, base, h)
  BY <1>2, <1>5, FoldExists
<1> DEFINE SumFold(e) == e = [t \in SUBSET (DOMAIN ss) |->
             IF t = {} THEN base ELSE e[t \ {Max(t)}] + LeastCount(count, ss[Max(t)])]
<1>7. \E e : SumFold(e)
  <2>1. ASSUME NEW t \in SUBSET (1..n), t # {}
        PROVE  h[<<Max(t), f[t \ {Max(t)}]>>] = f[t \ {Max(t)}] + LeastCount(count, ss[Max(t)])
    BY <1>5, <1>6, <2>1, BeforeMax
  <2>2. SumFold(f)
    BY <1>1, <1>6, <2>1 DEF IsFold
  <2> QED
    BY <2>2
<1>8. PICK r : r = Rank(count, ss)
  OBVIOUS
<1>9. PICK e : SumFold(e) /\ r = e[1..n]
  <2>1. r = (CHOOSE e : SumFold(e))[1..n]
    BY <1>1, <1>2, <1>8 DEF Rank, FoldLeft, MapThenFoldSet
  <2> HIDE DEF SumFold
  <2> QED
    BY <1>7, <2>1
<1>10. e[{}] = base
  BY <1>9
<1>11. ASSUME NEW t \in SUBSET (1..n), t # {}, e[t \ {Max(t)}] \in Int
       PROVE  e[t] = h[<<Max(t), e[t \ {Max(t)}]>>]
  <2>1. Max(t) \in 1..n
    BY <1>11, BeforeMax
  <2>2. e[t] = e[t \ {Max(t)}] + LeastCount(count, ss[Max(t)])
    BY <1>1, <1>9, <1>11
  <2> QED
    BY <1>5, <1>11, <2>1, <2>2
<1>12. PICK g : Runs(g, n, Int, base, h, e[1..n])
  BY <1>2, <1>5, <1>10, <1>11, FoldSteps
<1>13. ASSUME NEW i \in 1..n PROVE g[i] = g[i - 1] + v[i]
  <2>1. i - 1 \in 0..n
    OBVIOUS
  <2>2. g[i] = h[<<i, g[i - 1]>>] /\ g[i - 1] \in Int
    BY <1>12, <2>1 DEF Runs
  <2> QED
    BY <1>3, <1>5, <2>2
<1>14. Adds(g, n, 0, v) /\ r = g[n]
  BY <1>1, <1>2, <1>3, <1>9, <1>12, <1>13 DEF Runs, Adds
<1> QED
  BY <1>1, <1>2, <1>8, <1>14

\* A step of the loop over the words of a sequence in process_query.
LeastStep(min, c) == IF min < 0 \/ c < min THEN c ELSE min

\* It is the last of a sequence of values.
LEMMA MinSteps ==
  ASSUME NEW ws \in Seq(Long), NEW count \in [Long -> Nat]
  PROVE  \E g : /\ g[0] = -1 /\ \A i \in 0..Len(ws) : g[i] \in Int
                /\ \A i \in 1..Len(ws) : g[i] = LeastStep(g[i - 1], count[ws[i]])
                /\ FoldLeft(LAMBDA min, w : IF min < 0 \/ count[w] < min THEN count[w] ELSE min, -1, ws)
                     = g[Len(ws)]
<1>1. PICK n \in Nat : DOMAIN ws = 1..n /\ Len(ws) = n /\ \A i \in 1..n : ws[i] \in Long
  BY LenProperties, ElementOfSeq
<1>2. PICK base : base = -1 /\ base \in Int
  OBVIOUS
<1>3. PICK h : h = [y \in (1..n) \X Int |-> LeastStep(y[2], count[ws[y[1]]])]
  OBVIOUS
<1>4. h \in [(1..n) \X Int -> Int] /\ \A i \in 1..n, x \in Int : h[<<i, x>>] = LeastStep(x, count[ws[i]])
  <2>1. \A i \in 1..n, x \in Int : LeastStep(x, count[ws[i]]) \in Int
    <3> SUFFICES ASSUME NEW i \in 1..n, NEW x \in Int PROVE LeastStep(x, count[ws[i]]) \in Int
      OBVIOUS
    <3>1. count[ws[i]] \in Int
      BY <1>1
    <3> QED
      BY <3>1 DEF LeastStep
  <2> QED
    BY <1>3, <2>1
<1>5. PICK f \in [SUBSET (1..n) -> Int] : IsFold(f, n, base, h)
  BY <1>2, <1>4, FoldExists
<1> DEFINE MinFold(e) == e = [t \in SUBSET (DOMAIN ws) |->
             IF t = {} THEN base ELSE LeastStep(e[t \ {Max(t)}], count[ws[Max(t)]])]
<1>6. \E e : MinFold(e)
  <2>1. ASSUME NEW t \in SUBSET (1..n), t # {}
        PROVE  h[<<Max(t), f[t \ {Max(t)}]>>] = LeastStep(f[t \ {Max(t)}], count[ws[Max(t)]])
    BY <1>4, <1>5, <2>1, BeforeMax
  <2>2. MinFold(f)
    BY <1>1, <1>5, <2>1 DEF IsFold
  <2> QED
    BY <2>2
<1>7. PICK r : r = FoldLeft(LAMBDA min, w : IF min < 0 \/ count[w] < min THEN count[w] ELSE min, base, ws)
  OBVIOUS
<1>8. PICK e : MinFold(e) /\ r = e[1..n]
  <2>1. r = (CHOOSE e : MinFold(e))[1..n]
    BY <1>1, <1>7 DEF LeastStep, FoldLeft, MapThenFoldSet
  <2> HIDE DEF MinFold
  <2> QED
    BY <1>6, <2>1
<1>9. e[{}] = base
  BY <1>8
<1>10. ASSUME NEW t \in SUBSET (1..n), t # {}, e[t \ {Max(t)}] \in Int
       PROVE  e[t] = h[<<Max(t), e[t \ {Max(t)}]>>]
  <2>1. Max(t) \in 1..n
    BY <1>10, BeforeMax
  <2>2. e[t] = LeastStep(e[t \ {Max(t)}], count[ws[Max(t)]])
    BY <1>1, <1>8, <1>10
  <2> QED
    BY <1>4, <1>10, <2>1, <2>2
<1>11. PICK g : Runs(g, n, Int, base, h, e[1..n])
  BY <1>2, <1>4, <1>9, <1>10, FoldSteps
<1>12. g[0] = base /\ (\A i \in 0..n : g[i] \in Int) /\ g[n] = r
  BY <1>8, <1>11 DEF Runs
<1>13. ASSUME NEW i \in 1..n PROVE g[i] = LeastStep(g[i - 1], count[ws[i]])
  <2>1. i - 1 \in 0..n
    OBVIOUS
  <2>2. g[i] = h[<<i, g[i - 1]>>] /\ g[i - 1] \in Int
    BY <1>11, <2>1 DEF Runs
  <2> QED
    BY <1>4, <2>2
<1> QED
  BY <1>1, <1>2, <1>7, <1>12, <1>13

\* It finds the least of the counts, if there is any.
LEMMA MinIsLeast ==
  ASSUME NEW ws \in Seq(Long), ws # <<>>, NEW count \in [Long -> Nat]
  PROVE  MinScore(count, ws) = LeastCount(count, ws) /\ LeastCount(count, ws) \in Nat
<1>1. PICK n \in Nat : DOMAIN ws = 1..n /\ Len(ws) = n /\ \A i \in 1..n : ws[i] \in Long
  BY LenProperties, ElementOfSeq
<1>2. n >= 1
  BY <1>1, EmptyQueue
<1>3. \A i \in 1..n : count[ws[i]] \in Nat
  BY <1>1
<1>4. CASE \E i \in 1..n : count[ws[i]] = 0
  <2>1. MinScore(count, ws) = 0
    BY <1>1, <1>4 DEF MinScore
  <2>2. LeastCount(count, ws) = 0
    BY <1>1, <1>4 DEF LeastCount
  <2> QED
    BY <2>1, <2>2
<1>5. CASE \A i \in 1..n : count[ws[i]] # 0
  <2>1. PICK r : r = FoldLeft(LAMBDA min, w : IF min < 0 \/ count[w] < min THEN count[w] ELSE min, -1, ws)
    OBVIOUS
  <2>2. MinScore(count, ws) = r
    BY <1>1, <1>5, <2>1, Zenon DEF MinScore
  <2>3. PICK g : /\ g[0] = -1 /\ \A i \in 0..n : g[i] \in Int
                 /\ \A i \in 1..n : g[i] = LeastStep(g[i - 1], count[ws[i]])
                 /\ r = g[n]
    BY <1>1, <2>1, MinSteps
  <2> DEFINE P == {k \in Nat : k < n => /\ \E j \in 1..(k + 1) : g[k + 1] = count[ws[j]]
                                        /\ \A j \in 1..(k + 1) : g[k + 1] <= count[ws[j]]}
  <2>4. 0 \in P
    <3>1. 1 \in 1..n /\ 1 - 1 = 0 /\ 0 + 1 = 1
      BY <1>2
    <3>2. g[1] = LeastStep(g[0], count[ws[1]])
      BY <2>3, <3>1
    <3>3. g[1] = count[ws[1]] /\ count[ws[1]] \in Nat
      BY <1>3, <2>3, <3>1, <3>2 DEF LeastStep
    <3>4. \A j \in 1..1 : j = 1
      OBVIOUS
    <3> QED
      BY <3>1, <3>3, <3>4
  <2>5. ASSUME NEW k \in Nat, k \in P PROVE k + 1 \in P
    <3> SUFFICES ASSUME k + 1 < n
                 PROVE  /\ \E j \in 1..(k + 2) : g[k + 2] = count[ws[j]]
                        /\ \A j \in 1..(k + 2) : g[k + 2] <= count[ws[j]]
      <4>1. (k + 1) + 1 = k + 2
        OBVIOUS
      <4> QED
        BY <4>1
    <3>1. PICK m : m = k + 1 /\ m \in 1..n /\ m + 1 \in 1..n /\ (m + 1) - 1 = m /\ m + 1 = k + 2 /\ m < n
      OBVIOUS
    <3>2. g[m + 1] = LeastStep(g[m], count[ws[m + 1]])
      BY <2>3, <3>1
    <3>3. PICK a, c : a = g[m] /\ c = count[ws[m + 1]] /\ c \in Nat
      BY <1>3, <3>1
    <3>4. (\E j \in 1..m : a = count[ws[j]]) /\ (\A j \in 1..m : a <= count[ws[j]]) /\ a \in Nat
      <4>1. (\E j \in 1..m : a = count[ws[j]]) /\ (\A j \in 1..m : a <= count[ws[j]])
        BY <2>5, <3>1, <3>3
      <4>2. \A j \in 1..m : j \in 1..n
        BY <3>1
      <4> QED
        BY <1>3, <4>1, <4>2
    <3>5. g[m + 1] = IF c < a THEN c ELSE a
      BY <3>2, <3>3, <3>4 DEF LeastStep
    <3>6. \A j \in 1..(m + 1) : j \in 1..m \/ j = m + 1
      BY <3>1
    <3>7. \E j \in 1..(m + 1) : g[m + 1] = count[ws[j]]
      <4>1. m + 1 \in 1..(m + 1) /\ \A j \in 1..m : j \in 1..(m + 1)
        BY <3>1
      <4> QED
        BY <3>3, <3>4, <3>5, <4>1
    <3>8. ASSUME NEW j \in 1..(m + 1) PROVE g[m + 1] <= count[ws[j]]
      <4>1. CASE j = m + 1
        BY <3>3, <3>4, <3>5, <4>1
      <4>2. CASE j \in 1..m
        <5>1. a <= count[ws[j]] /\ count[ws[j]] \in Nat
          <6>1. j \in 1..n
            BY <3>1, <4>2
          <6> QED
            BY <1>3, <3>4, <4>2, <6>1
        <5> QED
          BY <3>3, <3>4, <3>5, <5>1
      <4> QED
        BY <3>6, <4>1, <4>2
    <3> QED
      BY <3>1, <3>7, <3>8
  <2>6. \A k \in Nat : k \in P
    <3> HIDE DEF P
    <3> QED
      BY <2>4, <2>5, SetInduction
  <2>7. (\E j \in 1..n : r = count[ws[j]]) /\ \A j \in 1..n : r <= count[ws[j]]
    <3>1. PICK k \in Nat : k = n - 1 /\ k < n /\ k + 1 = n
      BY <1>2
    <3>2. k \in P
      BY <2>6
    <3>3. (\E j \in 1..(k + 1) : g[k + 1] = count[ws[j]]) /\ \A j \in 1..(k + 1) : g[k + 1] <= count[ws[j]]
      BY <3>1, <3>2
    <3> QED
      BY <2>3, <3>1, <3>3
  <2>8. PICK C : C = {count[ws[i]] : i \in 1..n}
    OBVIOUS
  <2>9. LeastCount(count, ws) = Min(C)
    <3>1. \A i \in 1..n : count[ws[i]] > 0
      BY <1>3, <1>5
    <3> QED
      BY <1>1, <2>8, <3>1 DEF LeastCount
  <2>10. C \in SUBSET Nat /\ C # {} /\ r \in C /\ \A c \in C : r <= c
    BY <1>2, <1>3, <2>7, <2>8
  <2>11. Min(C) \in C /\ \A c \in C : Min(C) <= c
    BY <2>10, LeastOf
  <2>12. Min(C) = r
    <3>1. PICK m : m = Min(C) /\ m \in Nat /\ r \in Nat
      BY <2>10, <2>11
    <3>2. m <= r /\ r <= m
      BY <2>10, <2>11, <3>1
    <3> QED
      BY <3>1, <3>2
  <2> QED
    BY <2>2, <2>9, <2>10, <2>12
<1> QED
  BY <1>4, <1>5

\* A run of which no step adds more ends no higher.
LEMMA SumsCompare ==
  ASSUME NEW n \in Nat, NEW x \in Int, NEW a, NEW b, NEW g, NEW h,
         Adds(g, n, x, a), Adds(h, n, x, b), \A i \in 1..n : a[i] <= b[i]
  PROVE  g[n] <= h[n]
<1> DEFINE P == {i \in Nat : i <= n => g[i] <= h[i]}
<1>1. 0 \in P
  BY DEF Adds
<1>2. ASSUME NEW i \in Nat, i \in P PROVE i + 1 \in P
  <2> SUFFICES ASSUME i + 1 <= n PROVE g[i + 1] <= h[i + 1]
    OBVIOUS
  <2>1. i + 1 \in 1..n /\ (i + 1) - 1 = i /\ i \in 0..n /\ g[i] <= h[i]
    BY <1>2
  <2>2. /\ g[i + 1] = g[i] + a[i + 1] /\ h[i + 1] = h[i] + b[i + 1]
        /\ g[i] \in Int /\ h[i] \in Int /\ a[i + 1] \in Int /\ b[i + 1] \in Int /\ a[i + 1] <= b[i + 1]
    BY <2>1 DEF Adds
  <2> QED
    BY <2>1, <2>2
<1>3. \A i \in Nat : i \in P
  <2> HIDE DEF P
  <2> QED
    BY <1>1, <1>2, SetInduction
<1>4. n \in P
  BY <1>3
<1> QED
  BY <1>4

\* Queries as the parser makes them.
AllFilled(ss) == ss \in Seq(Seq(Long)) /\ \A k \in DOMAIN ss : ss[k] # <<>>

\* An int that overflows becomes less.
LEMMA ToIntIsLess ==
  ASSUME NEW n \in Int, -IntMax - 1 <= n
  PROVE  ToInt(n) <= n
<1>1. PICK x, m : x = n + IntMax + 1 /\ m = 2 * IntMax + 2
  OBVIOUS
<1>2. x \in Nat /\ m \in Nat \ {0}
  BY <1>1, IndexAssumption
<1>3. PICK q, r : q = x \div m /\ r = x % m
  OBVIOUS
<1>4. q \in Int /\ r \in 0..(m - 1) /\ x = q * m + r
  BY <1>2, <1>3
<1>5. r <= x
  <2>1. CASE q < 0
    <3>1. q * m <= -m
      BY <1>2, <1>4, <2>1
    <3> QED
      BY <1>2, <1>4, <3>1
  <2>2. CASE q >= 0
    <3>1. q * m >= 0 /\ q * m \in Int
      BY <1>2, <1>4, <2>2
    <3> QED
      BY <1>2, <1>4, <3>1
  <2> QED
    BY <1>4, <2>1, <2>2
<1>6. ToInt(n) = r - IntMax - 1
  BY <1>1, <1>3 DEF ToInt
<1> QED
  BY <1>1, <1>2, <1>4, <1>5, <1>6, IndexAssumption

\* A sum that is kept in an int is no higher than the sum, and the same if that is an int.
LEMMA IntSums ==
  ASSUME NEW n \in Nat, NEW a, NEW g, NEW h, AddsInt(g, n, a), Adds(h, n, 0, a), \A i \in 1..n : a[i] >= 0
  PROVE  g[n] \in Int /\ h[n] \in Int /\ g[n] <= h[n] /\ (h[n] <= IntMax => g[n] = h[n])
<1>0. IntMax \in Nat
  BY IndexAssumption
<1> DEFINE P == {i \in Nat : i <= n => g[i] <= h[i] /\ (h[i] <= IntMax => g[i] = h[i])}
<1>1. 0 \in P
  BY <1>0 DEF AddsInt, Adds
<1>2. ASSUME NEW i \in Nat, i \in P PROVE i + 1 \in P
  <2> SUFFICES ASSUME i + 1 <= n
               PROVE  g[i + 1] <= h[i + 1] /\ (h[i + 1] <= IntMax => g[i + 1] = h[i + 1])
    OBVIOUS
  <2>1. i + 1 \in 1..n /\ (i + 1) - 1 = i /\ i \in 0..n
    OBVIOUS
  <2>2. PICK b, c, d : b = g[i] /\ c = h[i] /\ d = a[i + 1]
    OBVIOUS
  <2>3. /\ b \in Ints /\ c \in Int /\ d \in Int /\ d >= 0
        /\ g[i + 1] = ToInt(b + d) /\ h[i + 1] = c + d
    BY <2>1, <2>2 DEF AddsInt, Adds
  <2>4. b <= c /\ (c <= IntMax => b = c)
    BY <1>2, <2>1, <2>2
  <2>5. b \in Int /\ b + d \in Int /\ -IntMax - 1 <= b + d
    BY <1>0, <2>3 DEF Ints
  <2>6. PICK s : s = ToInt(b + d) /\ s \in Int /\ s <= b + d
    <3>1. ToInt(b + d) <= b + d
      BY <2>5, ToIntIsLess
    <3>2. ToInt(b + d) \in Ints
      BY <2>5, ToIntIsInt
    <3> QED
      BY <1>0, <3>1, <3>2 DEF Ints
  <2>7. s <= c + d
    BY <2>3, <2>4, <2>5, <2>6
  <2>8. ASSUME c + d <= IntMax PROVE s = c + d
    <3>1. b = c
      BY <1>0, <2>3, <2>4, <2>8
    <3>2. b + d \in Ints
      BY <1>0, <2>5, <2>8, <3>1 DEF Ints
    <3>3. ToInt(b + d) = b + d
      BY <2>5, <3>2, ToIntIsInt
    <3> QED
      BY <2>6, <3>1, <3>3
  <2> QED
    BY <2>3, <2>6, <2>7, <2>8
<1>3. \A i \in Nat : i \in P
  <2> HIDE DEF P
  <2> QED
    BY <1>1, <1>2, SetInduction
<1>4. n \in P
  BY <1>3
<1>5. g[n] \in Int /\ h[n] \in Int
  <2>1. n \in 0..n
    OBVIOUS
  <2> QED
    BY <1>0, <2>1 DEF AddsInt, Adds, Ints
<1> QED
  BY <1>4, <1>5

\* The score of a document is its rank, or less if that is no int.
LEMMA ScoreIsRank ==
  ASSUME NEW ss, AllFilled(ss), NEW count \in [Long -> Nat]
  PROVE  /\ Score(count, ss) \in Int /\ Rank(count, ss) \in Int /\ Score(count, ss) <= Rank(count, ss)
         /\ Rank(count, ss) <= IntMax => Score(count, ss) = Rank(count, ss)
<1>1. PICK S, n : S = Seq(Long) /\ ss \in Seq(S) /\ n \in Nat /\ n = Len(ss) /\ DOMAIN ss = 1..n
  BY LenProperties DEF AllFilled
<1>2. \A i \in 1..n : /\ MinScore(count, ss[i]) = LeastCount(count, ss[i])
                      /\ MinScore(count, ss[i]) \in Nat
  <2> SUFFICES ASSUME NEW i \in 1..n
               PROVE  /\ MinScore(count, ss[i]) = LeastCount(count, ss[i])
                      /\ MinScore(count, ss[i]) \in Nat
    OBVIOUS
  <2>1. ss[i] \in Seq(Long) /\ ss[i] # <<>>
    BY <1>1, ElementOfSeq DEF AllFilled
  <2>2. MinScore(count, ss[i]) = LeastCount(count, ss[i]) /\ LeastCount(count, ss[i]) \in Nat
    BY <2>1, MinIsLeast
  <2> QED
    BY <2>2
<1>9. \A i \in DOMAIN ss : MinScore(count, ss[i]) \in Int /\ LeastCount(count, ss[i]) \in Int
  BY <1>1, <1>2
<1>3. PICK g : AddsInt(g, n, MinScores(count, ss)) /\ Score(count, ss) = g[n]
  BY <1>1, <1>9, ScoreSteps
<1>4. PICK h : Adds(h, n, 0, LeastCounts(count, ss)) /\ Rank(count, ss) = h[n]
  BY <1>1, <1>9, RankSteps
<1>5. PICK a : a = LeastCounts(count, ss)
  OBVIOUS
<1>6. MinScores(count, ss) = a /\ \A i \in 1..n : a[i] >= 0
  BY <1>1, <1>2, <1>5 DEF MinScores, LeastCounts
<1>7. AddsInt(g, n, a) /\ Adds(h, n, 0, a)
  BY <1>3, <1>4, <1>5, <1>6
<1>8. g[n] \in Int /\ h[n] \in Int /\ g[n] <= h[n] /\ (h[n] <= IntMax => g[n] = h[n])
  BY <1>1, <1>6, <1>7, IntSums
<1> QED
  BY <1>3, <1>4, <1>8

\* A document that has every word at most as often ranks at most as high.
LEMMA RankMonotone ==
  ASSUME NEW ss, AllFilled(ss), NEW count \in [Long -> Nat], NEW more \in [Long -> Nat],
         \A w \in Long : count[w] <= more[w]
  PROVE  Rank(count, ss) <= Rank(more, ss)
<1>1. PICK S, n : S = Seq(Long) /\ ss \in Seq(S) /\ n \in Nat /\ n = Len(ss) /\ DOMAIN ss = 1..n
  BY LenProperties DEF AllFilled
<1>2. ASSUME NEW i \in 1..n
      PROVE  /\ LeastCount(count, ss[i]) \in Int /\ LeastCount(more, ss[i]) \in Int
             /\ LeastCount(count, ss[i]) <= LeastCount(more, ss[i])
  <2>1. PICK ws : ws = ss[i] /\ ws \in Seq(Long) /\ ws # <<>>
    BY <1>1, ElementOfSeq DEF AllFilled
  <2>2. PICK m \in Nat : DOMAIN ws = 1..m /\ m >= 1 /\ \A j \in 1..m : ws[j] \in Long
    <3>1. Len(ws) \in Nat /\ DOMAIN ws = 1..Len(ws)
      BY <2>1, LenProperties
    <3>2. Len(ws) # 0
      BY <2>1, EmptySeq
    <3>3. \A j \in 1..Len(ws) : ws[j] \in Long
      BY <2>1, ElementOfSeq
    <3>4. PICK m \in Nat : m = Len(ws)
      BY <3>1
    <3>5. m >= 1
      BY <3>2, <3>4
    <3> QED
      BY <3>1, <3>3, <3>4, <3>5
  <2>3. PICK a, b : a = LeastCount(count, ws) /\ b = LeastCount(more, ws) /\ a \in Nat /\ b \in Nat
    BY <2>1, MinIsLeast
  <2>4. \A j \in 1..m : count[ws[j]] \in Nat /\ more[ws[j]] \in Nat /\ count[ws[j]] <= more[ws[j]]
    BY <2>2
  <2>5. CASE \A j \in 1..m : count[ws[j]] > 0
    <3>1. PICK C, D : C = {count[ws[j]] : j \in 1..m} /\ D = {more[ws[j]] : j \in 1..m}
      OBVIOUS
    <3>2. \A j \in 1..m : more[ws[j]] > 0
      BY <2>4, <2>5
    <3>3. a = Min(C) /\ b = Min(D)
      BY <2>2, <2>3, <2>5, <3>1, <3>2 DEF LeastCount
    <3>4. 1 \in 1..m
      BY <2>2
    <3>5. C \in SUBSET Nat /\ C # {} /\ D \in SUBSET Nat /\ D # {}
      BY <2>4, <3>1, <3>4
    <3>6. (\A c \in C : a <= c) /\ b \in D
      BY <3>3, <3>5, LeastOf
    <3>7. PICK j \in 1..m : b = more[ws[j]]
      BY <3>1, <3>6
    <3>8. a <= count[ws[j]]
      BY <3>1, <3>6
    <3>9. a <= b
      BY <2>3, <2>4, <3>7, <3>8
    <3> QED
      BY <2>1, <2>3, <3>9
  <2>6. CASE ~\A j \in 1..m : count[ws[j]] > 0
    <3>1. a = 0
      BY <2>2, <2>3, <2>6 DEF LeastCount
    <3> QED
      BY <2>1, <2>3, <3>1
  <2> QED
    BY <2>5, <2>6
<1>3. PICK a, b : a = LeastCounts(count, ss) /\ b = LeastCounts(more, ss)
  OBVIOUS
<1>4. PICK g : Adds(g, n, 0, a) /\ Rank(count, ss) = g[n]
  BY <1>1, <1>2, <1>3, RankSteps
<1>5. PICK h : Adds(h, n, 0, b) /\ Rank(more, ss) = h[n]
  BY <1>1, <1>2, <1>3, RankSteps
<1>6. \A i \in 1..n : a[i] <= b[i]
  BY <1>1, <1>2, <1>3 DEF LeastCounts
<1>7. 0 \in Int
  OBVIOUS
<1>8. g[n] <= h[n]
  BY <1>1, <1>4, <1>5, <1>6, <1>7, SumsCompare
<1> QED
  BY <1>4, <1>5, <1>8

-----------------------------------------------------------------------------
(***************************************************************************)
(* The querier reads an index file: what it takes for the counts of a word *)
(* are never more than those of the index x that the file was made of.     *)
(***************************************************************************)
\* The lines of the file, tokens as fgets returns them.
Toks(line) == <<line.word>> \o line.numbers

\* Counts of documents.
Counters == [DocIds -> Int]

\* The counts of a word are not more than those of the index, and the same.
Below(w, cs, x) == \A d \in DocIds \ {0} : cs[d] \in 0..CountOf(x, w, d)

Same(w, cs, x) == \A d \in DocIds \ {0} : cs[d] = CountOf(x, w, d)

\* A line of a file goes into one buffer, and begins with its word.
LEMMA PiecesOne ==
  ASSUME NEW line, line.numbers \in Seq(Int), Len(line.numbers) < LineMax
  PROVE  Pieces(line) = <<Toks(line)>>
<1>1. PICK toks, m : toks = Toks(line) /\ m = LineMax
  OBVIOUS
<1>2. PICK S : S = Int \cup {line.word}
  OBVIOUS
<1>3. toks \in Seq(S) /\ Len(toks) = Len(line.numbers) + 1
  <2>1. <<line.word>> \in Seq(S) /\ line.numbers \in Seq(S) /\ Len(<<line.word>>) = 1
    BY <1>2
  <2>2. \A a, b \in Seq(S) : a \o b \in Seq(S) /\ Len(a \o b) = Len(a) + Len(b)
    OBVIOUS
  <2>3. toks \in Seq(S) /\ Len(toks) = Len(<<line.word>>) + Len(line.numbers)
    BY <1>1, <2>1, <2>2 DEF Toks
  <2>4. Len(line.numbers) \in Nat
    OBVIOUS
  <2> QED
    BY <2>1, <2>3, <2>4
<1>4. PICK n : n = Len(toks)
  OBVIOUS
<1>5. m \in Nat /\ n \in Nat /\ 1 <= n /\ n <= m
  BY <1>1, <1>3, <1>4, QuerierAssumption
<1>6. (n + m - 1) \div m = 1
  <2>1. PICK q, r : q = (n + m - 1) \div m /\ r = (n + m - 1) % m
    OBVIOUS
  <2>2. /\ n + m - 1 \in Int /\ m > 0 /\ q \in Int /\ r \in 0..(m - 1)
        /\ n + m - 1 = q * m + r
    BY <1>5, <2>1
  <2>3. q * m >= 1 /\ q * m < 2 * m
    BY <1>5, <2>2
  <2>4. CASE q <= 0
    <3>1. q * m <= 0
      BY <1>5, <2>2, <2>4
    <3> QED
      BY <1>5, <2>2, <2>3, <3>1
  <2>5. CASE q >= 2
    <3>1. q * m >= 2 * m
      BY <1>5, <2>2, <2>5
    <3> QED
      BY <1>5, <2>2, <2>3, <3>1
  <2> QED
    BY <2>1, <2>2, <2>4, <2>5
<1>7. SubSeq(toks, (1 - 1) * m + 1, IF 1 * m < n THEN 1 * m ELSE n) = toks
  <2>1. (1 - 1) * m + 1 = 1 /\ (IF 1 * m < n THEN 1 * m ELSE n) = n
    BY <1>5
  <2>2. SubSeq(toks, 1, Len(toks)) = toks
    BY <1>3
  <2> QED
    BY <1>4, <2>1, <2>2
<1>8. Pieces(line) = [k \in 1..((n + m - 1) \div m) |->
                        SubSeq(toks, (k - 1) * m + 1, IF k * m < n THEN k * m ELSE n)]
  BY <1>1, <1>4 DEF Pieces, Toks
<1>9. Pieces(line) = [k \in 1..1 |-> toks]
  BY <1>6, <1>7, <1>8
<1> QED
  BY <1>1, <1>9

\* What a posting makes of the counters.
Counting(cs, d, c) == IF d \in DocIds THEN [cs EXCEPT ![d] = ToInt(c)] ELSE cs

\* Counters, one after another for every posting.
CountingRun(g, qs) ==
  /\ g[0] = [d \in DocIds |-> 0] /\ \A i \in 0..Len(qs) : g[i] \in Counters
  /\ \A i \in 1..Len(qs) : g[i] = Counting(g[i - 1], qs[i].docid, qs[i].count)

\* The counts of a line are the last of these.
LEMMA LineCountsSteps ==
  ASSUME NEW toks, NEW qs \in PostingLists, Pairs([numbers |-> Tail(toks)]) = PairsOf(qs)
  PROVE  \E g : CountingRun(g, qs) /\ LineCounts(toks) = g[Len(qs)]
<1>1. PICK n \in Nat : DOMAIN qs = 1..n /\ Len(qs) = n
  BY PostingType
<1>2. \A i \in 1..n : qs[i].docid \in 1..IntMax /\ qs[i].count \in Ints
  BY <1>1, PostingType
<1>3. PICK pairs : pairs = PairsOf(qs)
  OBVIOUS
<1>4. DOMAIN pairs = 1..n /\ \A i \in 1..n : pairs[i] = <<qs[i].docid, qs[i].count>>
  BY <1>1, <1>3 DEF PairsOf
<1>5. PICK base : base = [d \in DocIds |-> 0] /\ base \in Counters
  <2>1. [d \in DocIds |-> 0] \in Counters
    BY DEF Counters
  <2> QED
    BY <2>1
<1>6. ASSUME NEW cs \in Counters, NEW i \in 1..n PROVE Counting(cs, qs[i].docid, qs[i].count) \in Counters
  <2>1. ToInt(qs[i].count) \in Int
    <3>1. qs[i].count \in Int
      BY <1>2, IndexAssumption DEF Ints
    <3>2. ToInt(qs[i].count) \in Ints
      BY <3>1, ToIntIsInt
    <3> QED
      BY <3>2, IndexAssumption DEF Ints
  <2> QED
    BY <2>1 DEF Counting, Counters
<1>7. PICK h : h = [y \in (1..n) \X Counters |-> Counting(y[2], qs[y[1]].docid, qs[y[1]].count)]
  OBVIOUS
<1>8. h \in [(1..n) \X Counters -> Counters] /\ \A i \in 1..n, cs \in Counters : h[<<i, cs>>] = Counting(cs, qs[i].docid, qs[i].count)
  BY <1>6, <1>7
<1>9. PICK f \in [SUBSET (1..n) -> Counters] : IsFold(f, n, base, h)
  BY <1>5, <1>8, FoldExists
<1> DEFINE Op(cs, p) == Counting(cs, p[1], p[2])
           CountsFold(e) == e = [t \in SUBSET (DOMAIN pairs) |->
             IF t = {} THEN base ELSE Op(e[t \ {Max(t)}], pairs[Max(t)])]
<1>10. \A i \in 1..n : \A cs : Op(cs, pairs[i]) = Counting(cs, qs[i].docid, qs[i].count)
  BY <1>4
<1>11. \E e : CountsFold(e)
  <2>1. ASSUME NEW t \in SUBSET (1..n), t # {}
        PROVE  h[<<Max(t), f[t \ {Max(t)}]>>] = Op(f[t \ {Max(t)}], pairs[Max(t)])
    <3>1. Max(t) \in 1..n /\ f[t \ {Max(t)}] \in Counters
      BY <1>9, <2>1, BeforeMax
    <3> HIDE DEF Op
    <3> QED
      BY <1>8, <1>10, <3>1
  <2> HIDE DEF Op
  <2>2. CountsFold(f)
    BY <1>4, <1>9, <2>1 DEF IsFold
  <2> QED
    BY <2>2
<1>12. PICK r : r = LineCounts(toks)
  OBVIOUS
<1>13. PICK e : CountsFold(e) /\ r = e[1..n]
  <2>1. r = (CHOOSE e : CountsFold(e))[1..n]
    <3>1. LineCounts(toks) = (CHOOSE e : e = [t \in SUBSET (DOMAIN pairs) |->
             IF t = {} THEN [d \in DocIds |-> 0] ELSE Op(e[t \ {Max(t)}], pairs[Max(t)])])[DOMAIN pairs]
      BY <1>3 DEF LineCounts, FoldLeft, MapThenFoldSet, Counting
    <3> HIDE DEF Op
    <3> QED
      BY <1>4, <1>5, <1>12, <3>1
  <2> HIDE DEF CountsFold
  <2> QED
    BY <1>11, <2>1
<1> HIDE DEF Op
<1>14. e[{}] = base
  BY <1>13
<1>15. ASSUME NEW t \in SUBSET (1..n), t # {}, e[t \ {Max(t)}] \in Counters
       PROVE  e[t] = h[<<Max(t), e[t \ {Max(t)}]>>]
  <2>1. Max(t) \in 1..n
    BY <1>15, BeforeMax
  <2>2. e[t] = Op(e[t \ {Max(t)}], pairs[Max(t)])
    BY <1>4, <1>13, <1>15
  <2>3. e[t] = Counting(e[t \ {Max(t)}], qs[Max(t)].docid, qs[Max(t)].count)
    BY <1>10, <2>1, <2>2
  <2> QED
    BY <1>8, <1>15, <2>1, <2>3
<1>16. PICK g : Runs(g, n, Counters, base, h, e[1..n])
  BY <1>5, <1>8, <1>14, <1>15, FoldSteps
<1>17. ASSUME NEW i \in 1..n PROVE g[i] = Counting(g[i - 1], qs[i].docid, qs[i].count)
  <2>1. i - 1 \in 0..n
    OBVIOUS
  <2>2. g[i] = h[<<i, g[i - 1]>>] /\ g[i - 1] \in Counters
    BY <1>16, <2>1 DEF Runs
  <2> QED
    BY <1>8, <2>2
<1>18. g[0] = base /\ r = g[n] /\ \A i \in 0..n : g[i] \in Counters
  BY <1>13, <1>16 DEF Runs
<1>19. CountingRun(g, qs)
  BY <1>1, <1>5, <1>17, <1>18 DEF CountingRun
<1> QED
  BY <1>1, <1>12, <1>18, <1>19

\* A posting of a document in the postings up to position i.
HasUpTo(qs, i, d, n) == \E j \in 1..i : qs[j].docid = d /\ qs[j].count = n

\* The counters of a line whose documents are different are its counts.
LEMMA LineCountsAre ==
  ASSUME NEW toks, NEW qs \in PostingLists, OneEach(qs), Pairs([numbers |-> Tail(toks)]) = PairsOf(qs)
  PROVE  /\ LineCounts(toks) \in Counters
         /\ \A d \in DocIds : /\ \A n : Has(qs, d, n) => LineCounts(toks)[d] = n
                              /\ (\A n : ~Has(qs, d, n)) => LineCounts(toks)[d] = 0
<1>1. PICK m \in Nat : DOMAIN qs = 1..m /\ Len(qs) = m
  BY PostingType
<1>2. \A i \in 1..m : qs[i].docid \in 1..IntMax /\ qs[i].count \in Ints
  BY <1>1, PostingType
<1>3. PICK g : /\ g[0] = [d \in DocIds |-> 0] /\ LineCounts(toks) = g[m]
               /\ \A i \in 0..m : g[i] \in Counters
               /\ \A i \in 1..m : g[i] = Counting(g[i - 1], qs[i].docid, qs[i].count)
  <2>1. PICK g : CountingRun(g, qs) /\ LineCounts(toks) = g[Len(qs)]
    BY LineCountsSteps
  <2>2. Len(qs) = m
    BY <1>1
  <2> QED
    BY <2>1, <2>2 DEF CountingRun
<1> DEFINE Good(i) == \A d \in DocIds : /\ \A n : HasUpTo(qs, i, d, n) => g[i][d] = n
                                        /\ (\A n : ~HasUpTo(qs, i, d, n)) => g[i][d] = 0
           P == {i \in Nat : i <= m => Good(i)}
<1>4. 0 \in P
  <2>1. Good(0)
    BY <1>3 DEF HasUpTo
  <2> QED
    BY <2>1
<1>5. ASSUME NEW i \in Nat, i + 1 <= m, Good(i) PROVE Good(i + 1)
  <2>1. i \in Nat /\ i \in 0..m /\ i + 1 \in 1..m /\ (i + 1) - 1 = i /\ Good(i)
    BY <1>5
  <2>2. PICK k, p : k = i + 1 /\ p = qs[k] /\ k \in 1..m
    BY <2>1
  <2>3. g[k] = Counting(g[i], p.docid, p.count) /\ g[i] \in Counters
    BY <1>3, <2>1, <2>2
  <2>4. ToInt(p.count) = p.count
    <3>1. p.count \in Ints /\ p.count \in Int
      BY <1>2, <2>2, IndexAssumption DEF Ints
    <3> QED
      BY <3>1, ToIntIsInt
  <2>5. \A d, n : HasUpTo(qs, k, d, n) <=> HasUpTo(qs, i, d, n) \/ (p.docid = d /\ p.count = n)
    <3>1. \A j : j \in 1..k <=> j \in 1..i \/ j = k
      BY <2>1, <2>2
    <3> QED
      BY <2>2, <3>1 DEF HasUpTo
  <2>6. \A n : ~HasUpTo(qs, i, p.docid, n)
    <3> SUFFICES ASSUME NEW n, NEW j \in 1..i, qs[j].docid = p.docid PROVE FALSE
      BY DEF HasUpTo
    <3>1. j \in DOMAIN qs /\ k \in DOMAIN qs /\ j # k
      BY <1>1, <2>1, <2>2
    <3> QED
      BY <2>2, <3>1 DEF OneEach
  <2>7. ASSUME NEW d \in DocIds
        PROVE  g[k][d] = IF d = p.docid THEN p.count ELSE g[i][d]
    BY <2>3, <2>4 DEF Counting, Counters
  <2>8. Good(k)
    <3> SUFFICES ASSUME NEW d \in DocIds
                 PROVE  /\ \A n : HasUpTo(qs, k, d, n) => g[k][d] = n
                        /\ (\A n : ~HasUpTo(qs, k, d, n)) => g[k][d] = 0
      OBVIOUS
    <3>1. CASE d = p.docid
      BY <2>5, <2>6, <2>7, <3>1
    <3>2. CASE d # p.docid
      <4>1. /\ \A n : HasUpTo(qs, i, d, n) => g[i][d] = n
            /\ (\A n : ~HasUpTo(qs, i, d, n)) => g[i][d] = 0
        BY <2>1
      <4> QED
        BY <2>5, <2>7, <3>2, <4>1
    <3> QED
      BY <3>1, <3>2
  <2> QED
    BY <2>2, <2>8
<1>6. \A i \in Nat : i \in P
  <2> HIDE DEF Good
  <2>1. \A i \in Nat : i \in P => i + 1 \in P
    BY <1>5
  <2> HIDE DEF P
  <2> QED
    BY <1>4, <2>1, SetInduction
<1>7. Good(m)
  BY <1>6
<1>8. \A d, n : Has(qs, d, n) <=> HasUpTo(qs, m, d, n)
  BY <1>1 DEF Has, HasUpTo
<1>9. g[m] \in Counters
  <2>1. m \in 0..m
    OBVIOUS
  <2> QED
    BY <1>3, <2>1
<1> QED
  BY <1>3, <1>7, <1>8, <1>9

\* The counts of all postings are positive.
AllPositive(x) == \A i \in DOMAIN x : Positive(x[i].postings)

\* Such an index counts in natural numbers.
LEMMA PositiveCounts ==
  ASSUME NEW W, NEW x \in Indexes(W), AllPositive(x), NEW w, NEW d
  PROVE  CountOf(x, w, d) \in Nat
<1>1. CASE \E n : HasCount(x, w, d, n)
  <2>1. PICK n, i : i \in DOMAIN x /\ Has(x[i].postings, d, n) /\ CountOf(x, w, d) = n
    BY <1>1, CountIs DEF HasCount
  <2>2. n > 0
    BY <2>1 DEF AllPositive, Positive, Has
  <2>3. CountOf(x, w, d) \in Int
    BY CountType, IndexAssumption DEF Ints
  <2> QED
    BY <2>1, <2>2, <2>3
<1>2. CASE ~\E n : HasCount(x, w, d, n)
  BY <1>2, CountZero
<1> QED
  BY <1>1, <1>2

\* The tokens of a line are its word and its numbers.
LEMMA ToksOf ==
  ASSUME NEW line, NEW ns \in Seq(Int), ns = line.numbers
  PROVE  Head(Toks(line)) = line.word /\ Tail(Toks(line)) = ns /\ Toks(line) # <<>>
<1>1. PICK S, u : S = Int \cup {line.word} /\ u = <<line.word>>
  OBVIOUS
<1>2. u \in Seq(S) /\ ns \in Seq(S) /\ Len(u) = 1 /\ u[1] = line.word /\ Len(ns) \in Nat
  BY <1>1
<1>3. PICK t : t = u \o ns
  OBVIOUS
<1>4. t = Toks(line)
  BY <1>1, <1>3 DEF Toks
<1>5. /\ t \in Seq(S) /\ Len(t) = Len(ns) + 1 /\ t[1] = line.word
      /\ \A k \in 1..Len(ns) : t[k + 1] = ns[k]
  <2>1. t \in Seq(S) /\ Len(t) = Len(u) + Len(ns)
    BY <1>2, <1>3, ConcatProperties
  <2>2. t[1] = u[1]
    BY <1>2, <1>3, <2>1
  <2>3. \A k \in 1..Len(ns) : t[k + 1] = ns[k]
    <3> SUFFICES ASSUME NEW k \in 1..Len(ns) PROVE t[k + 1] = ns[k]
      OBVIOUS
    <3>1. PICK j : j = k + 1
      OBVIOUS
    <3>2. j \in 1..(Len(u) + Len(ns)) /\ ~(j <= Len(u)) /\ j - Len(u) = k
      BY <1>2, <3>1
    <3>3. (u \o ns)[j] = ns[j - Len(u)]
      <4>1. \A i \in 1..(Len(u) + Len(ns)) : (u \o ns)[i] = IF i <= Len(u) THEN u[i] ELSE ns[i - Len(u)]
        BY <1>2, ConcatProperties
      <4> QED
        BY <3>2, <4>1
    <3> QED
      BY <1>3, <3>1, <3>2, <3>3
  <2>4. Len(t) = Len(ns) + 1
    BY <1>2, <2>1
  <2>5. t[1] = line.word
    BY <1>2, <2>2
  <2> QED
    BY ONLY <2>1, <2>3, <2>4, <2>5
<1>6. t # <<>> /\ Head(t) = line.word
  BY <1>2, <1>5
<1>7. Tail(t) = ns
  <2>1. PICK s : s = Tail(t)
    OBVIOUS
  <2>2. s \in Seq(S) /\ Len(s) = Len(t) - 1 /\ \A k \in 1..Len(s) : s[k] = t[k + 1]
    BY <1>5, <1>6, <2>1, HeadTailProperties
  <2>3. Len(s) = Len(ns) /\ \A k \in 1..Len(s) : s[k] = ns[k]
    BY <1>2, <1>5, <2>2
  <2>4. s = ns
    BY <1>2, <2>2, <2>3, SeqEqual
  <2> QED
    BY <2>1, <2>4
<1> QED
  BY <1>4, <1>6, <1>7

\* A line of a file that was made of x.
LineOk(line, x) ==
  /\ line.numbers \in Seq(Int) /\ Len(line.numbers) < LineMax
  /\ LineCounts(Toks(line)) \in Counters /\ Below(line.word, LineCounts(Toks(line)), x)

\* The postings in a line have no counts that are higher than those of the index.
NoHigher(qs, w, x) == \A d, n : Has(qs, d, n) => n \in 0..CountOf(x, w, d)

\* Then it is such a line.
LEMMA LineIsOk ==
  ASSUME NEW W, NEW x \in Indexes(W), AllPositive(x), NEW line, NEW ns, ns = line.numbers,
         ns \in Seq(Int), Len(ns) < LineMax,
         NEW qs \in PostingLists, OneEach(qs), Pairs(line) = PairsOf(qs), NoHigher(qs, line.word, x)
  PROVE  /\ LineOk(line, x)
         /\ \A d \in DocIds : /\ \A n : Has(qs, d, n) => LineCounts(Toks(line))[d] = n
                              /\ (\A n : ~Has(qs, d, n)) => LineCounts(Toks(line))[d] = 0
<1>1. PICK toks : toks = Toks(line)
  OBVIOUS
<1>2. Tail(toks) = ns
  BY <1>1, ToksOf
<1>3. Pairs([numbers |-> Tail(toks)]) = PairsOf(qs)
  <2>1. [numbers |-> ns].numbers = line.numbers
    OBVIOUS
  <2>2. Pairs([numbers |-> ns]) = Pairs(line)
    BY <2>1 DEF Pairs
  <2> QED
    BY <1>2, <2>2
<1>4. PICK cs : cs = LineCounts(toks)
  OBVIOUS
<1>5. /\ cs \in Counters
      /\ \A d \in DocIds : /\ \A n : Has(qs, d, n) => cs[d] = n
                           /\ (\A n : ~Has(qs, d, n)) => cs[d] = 0
  BY <1>3, <1>4, LineCountsAre
<1>6. ASSUME NEW d \in DocIds \ {0} PROVE cs[d] \in 0..CountOf(x, line.word, d)
  <2>1. CASE \E n : Has(qs, d, n)
    BY <1>5, <2>1 DEF NoHigher
  <2>2. CASE \A n : ~Has(qs, d, n)
    <3>1. CountOf(x, line.word, d) \in Nat /\ cs[d] = 0
      BY <1>5, <2>2, PositiveCounts
    <3> QED
      BY <3>1
  <2> QED
    BY <2>1, <2>2
<1>7. LineOk(line, x)
  BY <1>1, <1>4, <1>5, <1>6 DEF LineOk, Below
<1> QED
  BY <1>1, <1>4, <1>5, <1>7

\* The index fits the buffer line by line.
ShortLines(x) == \A i \in DOMAIN x : 2 * Len(x[i].postings) < LineMax

\* The index is one of the indexes over W that the indexer makes, and fits.
Readable(x, W) == x \in Indexes(W) /\ AllPositive(x) /\ ShortLines(x)

\* A count in the postings of an entry is that of its word in the index.
LEMMA PostingCounted ==
  ASSUME NEW W, NEW x, Readable(x, W), NEW i \in DOMAIN x, NEW w, w = x[i].word, NEW ps, ps = x[i].postings
  PROVE  /\ \A d, n : Has(ps, d, n) => CountOf(x, w, d) = n /\ n \in Nat
         /\ \A d : (\A n : ~Has(ps, d, n)) => CountOf(x, w, d) = 0
<1>1. x \in Indexes(W) /\ AllPositive(x)
  BY DEF Readable
<1>2. \A k \in DOMAIN x : x[k].word = x[i].word => k = i
  BY <1>1, EntryType
<1>3. \A d, n : HasCount(x, w, d, n) <=> Has(ps, d, n)
  BY <1>2, CountedAt
<1>4. ASSUME NEW d, NEW n, Has(ps, d, n) PROVE CountOf(x, w, d) = n /\ n \in Nat
  <2>1. CountOf(x, w, d) = n
    BY <1>1, <1>3, <1>4, CountIs
  <2> QED
    BY <1>1, <2>1, PositiveCounts
<1>5. ASSUME NEW d, \A n : ~Has(ps, d, n) PROVE CountOf(x, w, d) = 0
  BY <1>3, <1>5, CountZero
<1> QED
  BY <1>4, <1>5

\* The line of an entry has the counts of its word.
LEMMA SavedLineOk ==
  ASSUME NEW W, NEW x, Readable(x, W), NEW i \in DOMAIN x, NEW line, line = Line(x[i])
  PROVE  LineOk(line, x) /\ line.word = x[i].word /\ Same(line.word, LineCounts(Toks(line)), x)
<1>1. PICK e, ps, w, ns : e = x[i] /\ ps = e.postings /\ w = e.word /\ ns = line.numbers
  OBVIOUS
<1>2. x \in Indexes(W) /\ AllPositive(x) /\ 2 * Len(ps) < LineMax
  BY <1>1 DEF Readable, ShortLines
<1>3. e \in IndexEntries(W) /\ ps \in PostingLists /\ OneEach(ps)
  BY <1>1, <1>2, EntryType
<1>4. line.word = w /\ Pairs(line) = PairsOf(ps)
  BY <1>1, <1>3, LinePairs
<1>5. ns \in Seq(Int) /\ Len(ns) = 2 * Len(ps)
  <2>1. Holds(ns, ps)
    BY <1>1, <1>3, LineNumbers
  <2> QED
    BY <2>1 DEF Holds
<1>6. /\ \A d, n : Has(ps, d, n) => CountOf(x, w, d) = n /\ n \in Nat
      /\ \A d : (\A n : ~Has(ps, d, n)) => CountOf(x, w, d) = 0
  BY <1>1, PostingCounted
<1>7. NoHigher(ps, line.word, x)
  <2> SUFFICES ASSUME NEW d, NEW n, Has(ps, d, n) PROVE n \in 0..CountOf(x, w, d)
    BY <1>4 DEF NoHigher
  <2>1. CountOf(x, w, d) = n /\ n \in Nat
    BY <1>6
  <2> QED
    BY <2>1
<1>8. Len(ns) < LineMax
  BY <1>2, <1>5
<1>9. /\ LineOk(line, x)
      /\ \A d \in DocIds : /\ \A n : Has(ps, d, n) => LineCounts(Toks(line))[d] = n
                           /\ (\A n : ~Has(ps, d, n)) => LineCounts(Toks(line))[d] = 0
  BY <1>1, <1>2, <1>3, <1>4, <1>5, <1>7, <1>8, LineIsOk
<1>10. ASSUME NEW d \in DocIds \ {0} PROVE LineCounts(Toks(line))[d] = CountOf(x, w, d)
  <2>1. CASE \E n : Has(ps, d, n)
    BY <1>6, <1>9, <2>1
  <2>2. CASE \A n : ~Has(ps, d, n)
    BY <1>6, <1>9, <2>2
  <2> QED
    BY <2>1, <2>2
<1> QED
  BY <1>1, <1>4, <1>9, <1>10 DEF Same

\* What is left of a line when a write fails has counts that are not higher.
LEMMA TornLineOk ==
  ASSUME NEW W, NEW x, Readable(x, W), NEW i \in DOMAIN x, NEW P \in PowerSets, NEW S,
         NEW cut \in TornLines(Line(x[i]), S, P)
  PROVE  LineOk(cut, x)
<1>1. PICK e, ps, w : e = x[i] /\ ps = e.postings /\ w = e.word
  OBVIOUS
<1>2. x \in Indexes(W) /\ AllPositive(x) /\ 2 * Len(ps) < LineMax /\ Positive(ps)
  BY <1>1 DEF Readable, ShortLines, AllPositive
<1>3. e \in IndexEntries(W) /\ ps \in PostingLists /\ OneEach(ps)
  BY <1>1, <1>2, EntryType
<1>4. PICK line, ns : line = Line(e) /\ ns = line.numbers
  OBVIOUS
<1>5. ns \in Seq(Int) /\ Len(ns) = 2 * Len(ps)
  <2>1. Holds(ns, ps)
    BY <1>1, <1>3, <1>4, LineNumbers
  <2> QED
    BY <2>1 DEF Holds
<1>6. \A d, n : Has(ps, d, n) => CountOf(x, w, d) = n /\ n \in Nat
  BY <1>1, PostingCounted
<1>7. CASE \E u \in S : cut = [word |-> u, numbers |-> <<>>]
  <2>1. PICK u : cut = [word |-> u, numbers |-> <<>>]
    BY <1>7
  <2>2. PICK qs, ms : qs = <<>> /\ ms = <<>>
    OBVIOUS
  <2>3. /\ qs \in PostingLists /\ OneEach(qs) /\ \A d, n : ~Has(qs, d, n)
    BY <2>2 DEF PostingLists, OneEach, Has
  <2>4. cut.numbers = ms /\ ms \in Seq(Int) /\ Len(ms) = 0 /\ Len(ms) < LineMax
    BY <2>1, <2>2, QuerierAssumption
  <2>5. Pairs(cut) = PairsOf(qs)
    <3>1. Len(cut.numbers) \div 2 = 0 /\ 1..0 = {} /\ DOMAIN qs = {}
      BY <2>2, <2>4
    <3> QED
      BY <3>1 DEF Pairs, PairsOf
  <2>6. NoHigher(qs, cut.word, x)
    BY <2>3 DEF NoHigher
  <2> QED
    BY <1>2, <2>3, <2>4, <2>5, <2>6, LineIsOk
<1>8. CASE ~\E u \in S : cut = [word |-> u, numbers |-> <<>>]
  <2>1. PICK qs, j : cut.word = w /\ Pairs(cut) = PairsOf(qs) /\ IsCut(qs, ps, j)
    BY <1>1, <1>2, <1>3, <1>8, TornPostings
  <2>2. PICK k, t : cut = [line EXCEPT !.numbers = t] /\ Prefix(t, ns, k, P)
    BY <1>1, <1>4, <1>5, <1>8, TornNumbers
  <2>3. t \in Seq(Int) /\ Len(t) <= Len(ns)
    BY <1>5, <2>2 DEF Prefix
  <2>4. cut.numbers = t
    <3>1. line = [word |-> e.word, numbers |-> ns]
      BY <1>1, <1>3, <1>4, LineNumbers
    <3> QED
      BY <2>2, <3>1
  <2>5. Len(t) < LineMax
    BY <1>2, <1>5, <2>3, QuerierAssumption
  <2>6. /\ qs \in PostingLists /\ Len(qs) <= Len(ps)
        /\ \A a \in 1..Len(qs) : qs[a].docid = ps[a].docid /\ 0 < qs[a].count /\ qs[a].count <= ps[a].count
    BY <2>1 DEF IsCut
  <2>7. /\ DOMAIN qs = 1..Len(qs) /\ DOMAIN ps = 1..Len(ps) /\ \A a \in 1..Len(qs) : a \in DOMAIN ps /\ a \in DOMAIN qs
    BY <1>3, <2>6, PostingType
  <2>8. OneEach(qs)
    BY <1>3, <2>6, <2>7 DEF OneEach
  <2>9. NoHigher(qs, cut.word, x)
    <3> SUFFICES ASSUME NEW d, NEW n, Has(qs, d, n) PROVE n \in 0..CountOf(x, w, d)
      BY <2>1 DEF NoHigher
    <3>1. PICK a \in 1..Len(qs) : qs[a].docid = d /\ qs[a].count = n
      BY <2>7 DEF Has
    <3>2. Has(ps, d, ps[a].count) /\ 0 < n /\ n <= ps[a].count
      BY <2>6, <2>7, <3>1 DEF Has
    <3>3. CountOf(x, w, d) = ps[a].count /\ ps[a].count \in Nat
      BY <1>6, <3>2
    <3>4. n \in Int
      BY <2>6, <2>7, <3>1, PostingType, IndexAssumption DEF Ints
    <3> QED
      BY <3>2, <3>3, <3>4
  <2> QED
    BY <1>2, <2>1, <2>3, <2>4, <2>5, <2>6, <2>8, <2>9, LineIsOk
<1> QED
  BY <1>7, <1>8

\* A file that was made of x.
FileOk(f, x) == IsSeq(f) /\ \A i \in DOMAIN f : LineOk(f[i], x)

\* The lines of an index.
LEMMA LinesType ==
  ASSUME NEW W, NEW x \in Indexes(W)
  PROVE  /\ Lines(x) \in Seq({Line(x[i]) : i \in DOMAIN x}) /\ Len(Lines(x)) = Len(x)
         /\ \A i \in DOMAIN x : Lines(x)[i] = Line(x[i])
<1>1. Len(x) \in Nat /\ DOMAIN x = 1..Len(x)
  <2>1. x \in Seq(IndexEntries(W))
    BY DEF Indexes
  <2> QED
    BY <2>1, LenProperties
<1>2. PICK T : T = {Line(x[i]) : i \in DOMAIN x}
  OBVIOUS
<1>3. PICK f : f = Lines(x)
  OBVIOUS
<1>4. f = [i \in 1..Len(x) |-> Line(x[i])]
  BY <1>1, <1>3 DEF Lines
<1>5. \A i \in 1..Len(x) : Line(x[i]) \in T
  BY <1>1, <1>2
<1>6. f \in Seq(T) /\ Len(f) = Len(x)
  BY <1>1, <1>4, <1>5
<1> QED
  BY <1>1, <1>2, <1>3, <1>4, <1>6

\* The file that indexsave writes.
LEMMA LinesAreOk ==
  ASSUME NEW W, NEW x, Readable(x, W)
  PROVE  FileOk(Lines(x), x)
<1>1. x \in Indexes(W)
  BY DEF Readable
<1>2. PICK f, T : f = Lines(x) /\ T = {Line(x[i]) : i \in DOMAIN x}
  OBVIOUS
<1>3. f \in Seq(T) /\ \A i \in DOMAIN x : f[i] = Line(x[i])
  BY <1>1, <1>2, LinesType
<1>4. DOMAIN f = DOMAIN x
  BY <1>2 DEF Lines
<1>5. IsSeq(f)
  BY <1>3, SeqIsSeq
<1>6. ASSUME NEW i \in DOMAIN f PROVE LineOk(f[i], x)
  <2>1. i \in DOMAIN x /\ f[i] = Line(x[i])
    BY <1>3, <1>4
  <2> QED
    BY <2>1, SavedLineOk
<1> QED
  BY <1>2, <1>3, <1>5, <1>6 DEF FileOk

\* The file that an indexsave which stops early leaves.
LEMMA TornFileOk ==
  ASSUME NEW W, NEW x, Readable(x, W), NEW P \in PowerSets, NEW stumps, NEW f \in TornFile(x, stumps, P)
  PROVE  FileOk(f, x)
<1>1. x \in Indexes(W)
  BY DEF Readable
<1>2. PICK g, T, n : g = Lines(x) /\ T = {Line(x[i]) : i \in DOMAIN x} /\ n = Len(x)
  OBVIOUS
<1>3. g \in Seq(T) /\ Len(g) = n /\ n \in Nat /\ DOMAIN x = 1..n
  <2>1. x \in Seq(IndexEntries(W))
    BY <1>1 DEF Indexes
  <2> QED
    <3>1. n \in Nat /\ DOMAIN x = 1..n
      BY <1>2, <2>1, LenProperties
    <3>2. g \in Seq(T) /\ Len(g) = n
      BY <1>1, <1>2, LinesType
    <3> QED
      BY <3>1, <3>2
<1>4. ASSUME NEW i \in 1..n PROVE LineOk(g[i], x)
  <2>1. i \in DOMAIN x /\ g[i] = Line(x[i])
    BY <1>1, <1>2, <1>3, LinesType
  <2> QED
    BY <2>1, SavedLineOk
<1>5. ASSUME NEW m \in 0..n
      PROVE  /\ SubSeq(g, 1, m) \in Seq(T) /\ Len(SubSeq(g, 1, m)) = m
             /\ \A i \in 1..m : SubSeq(g, 1, m)[i] = g[i]
  BY <1>3
<1>6. CASE \E m \in 0..n : f = SubSeq(g, 1, m)
  <2>1. PICK m \in 0..n : f = SubSeq(g, 1, m)
    BY <1>6
  <2>2. f \in Seq(T) /\ Len(f) = m /\ \A i \in 1..m : f[i] = g[i] /\ i \in 1..n
    BY <1>3, <1>5, <2>1
  <2>3. DOMAIN f = 1..m
    BY <2>2
  <2>4. IsSeq(f)
    BY <2>2, SeqIsSeq
  <2>5. \A i \in DOMAIN f : LineOk(f[i], x)
    BY <1>4, <2>2, <2>3
  <2> QED
    BY <2>4, <2>5 DEF FileOk
<1>7. CASE \E m \in 0..(n - 1) : \E cut \in TornLines(Line(x[m + 1]), stumps[x[m + 1].word], P) :
             f = Append(SubSeq(g, 1, m), cut)
  <2>1. PICK m, cut :
          /\ m \in 0..(n - 1) /\ cut \in TornLines(Line(x[m + 1]), stumps[x[m + 1].word], P)
          /\ f = Append(SubSeq(g, 1, m), cut)
    BY <1>7
  <2>2. m \in Nat /\ m \in 0..n /\ m + 1 \in DOMAIN x
    BY <1>3, <2>1
  <2>3. LineOk(cut, x)
    BY <2>1, <2>2, TornLineOk
  <2>4. PICK V, s : V = T \cup {cut} /\ s = SubSeq(g, 1, m)
    OBVIOUS
  <2>5. s \in Seq(V) /\ Len(s) = m /\ cut \in V /\ \A i \in 1..m : s[i] = g[i]
    <3>1. s \in Seq(T) /\ Len(s) = m /\ \A i \in 1..m : s[i] = g[i]
      BY <1>5, <2>2, <2>4
    <3> QED
      BY <2>4, <3>1
  <2>6. /\ f \in Seq(V) /\ Len(f) = m + 1 /\ f[m + 1] = cut
        /\ \A i \in 1..m : f[i] = s[i]
    <3>1. f = Append(s, cut)
      BY <2>1, <2>4
    <3> QED
      BY <2>5, <3>1, AppendProperties
  <2>7. DOMAIN f = 1..(m + 1) /\ \A i \in 1..(m + 1) : i = m + 1 \/ i \in 1..m
    BY <2>2, <2>6
  <2>8. IsSeq(f)
    BY <2>6, SeqIsSeq
  <2>9. \A i \in DOMAIN f : LineOk(f[i], x)
    <3> SUFFICES ASSUME NEW i \in DOMAIN f PROVE LineOk(f[i], x)
      OBVIOUS
    <3>1. CASE i = m + 1
      BY <2>3, <2>6, <3>1
    <3>2. CASE i \in 1..m
      <4>1. f[i] = g[i] /\ i \in 1..n
        BY <1>3, <2>2, <2>5, <2>6, <3>2
      <4> QED
        BY <1>4, <4>1
    <3> QED
      BY <2>7, <3>1, <3>2
  <2> QED
    BY <2>8, <2>9 DEF FileOk
<1> QED
  BY <1>2, <1>3, <1>6, <1>7 DEF TornFile

-----------------------------------------------------------------------------
(***************************************************************************)
(* What the querier has of the index x while it reads a file of it.        *)
(***************************************************************************)
\* The chunks are lines of the file that have still to be read, and tab has others.
Loading(chks, tab, x) ==
  /\ IsSeq(chks) /\ IsSeq(tab)
  /\ \A k \in DOMAIN chks : LineCounts(chks[k]) \in Counters /\ Below(Head(chks[k]), LineCounts(chks[k]), x)
  /\ \A k \in DOMAIN tab : tab[k].cs \in Counters /\ Below(tab[k].w, tab[k].cs, x)

\* The file is complete, and every line of it is among the chunks or in tab.
LoadingAll(chks, tab, x) ==
  /\ \A k \in DOMAIN chks : Same(Head(chks[k]), LineCounts(chks[k]), x)
  /\ \A k \in DOMAIN tab : Same(tab[k].w, tab[k].cs, x)
  /\ \A i \in DOMAIN x : \/ \E k \in DOMAIN chks : Head(chks[k]) = x[i].word
                         \/ \E k \in DOMAIN tab : tab[k].w = x[i].word

\* The pieces of the lines of a file are its lines.
LEMMA ChunksAre ==
  ASSUME NEW f, NEW x, FileOk(f, x), NEW c, c = Chunks(f)
  PROVE  /\ IsSeq(c) /\ DOMAIN c = DOMAIN f
         /\ \A k \in DOMAIN f : c[k] = Toks(f[k])
<1>1. PICK n : n = Len(f)
  OBVIOUS
<1>2. n \in Nat /\ DOMAIN f = 1..n
  BY <1>1 DEF FileOk, IsSeq
<1>3. \A i \in 1..n : Pieces(f[i]) = <<Toks(f[i])>>
  <2> SUFFICES ASSUME NEW i \in 1..n PROVE Pieces(f[i]) = <<Toks(f[i])>>
    OBVIOUS
  <2>1. f[i].numbers \in Seq(Int) /\ Len(f[i].numbers) < LineMax
    BY <1>2 DEF FileOk, LineOk
  <2> QED
    BY <2>1, PiecesOne
<1>4. PICK T, ss : T = {Toks(f[i]) : i \in 1..n} /\ ss = [i \in 1..n |-> <<Toks(f[i])>>]
  OBVIOUS
<1>5. c = FlattenSeq(ss)
  <2>1. [i \in DOMAIN f |-> Pieces(f[i])] = ss
    BY <1>2, <1>3, <1>4
  <2> QED
    BY <2>1 DEF Chunks
<1>6. \A i \in 1..n : <<Toks(f[i])>> \in Seq(T)
  BY <1>4
<1>7. ss \in Seq(Seq(T)) /\ Len(ss) = n /\ \A i \in 1..n : ss[i] = <<Toks(f[i])>>
  BY <1>2, <1>4, <1>6
<1>8. c \in Seq(T) /\ Len(c) = n /\ \A k \in 1..n : c[k] = Toks(f[k])
  <2>1. CASE n = 0
    <3>1. ss = <<>>
      BY <1>7, <2>1
    <3>2. FlattenSeq(ss) = ss
      BY <3>1 DEF FlattenSeq
    <3>3. c = <<>>
      BY <1>5, <3>1, <3>2
    <3>4. c \in Seq(T)
      BY <3>3, EmptySeq
    <3>5. Len(c) = 0
      BY <3>3
    <3> QED
      BY <2>1, <3>4, <3>5
  <2>2. CASE n # 0
    <3>1. ss # <<>>
      BY <1>7, <2>2
    <3>2. PICK g : /\ \A i \in 1..Len(ss) : g[i] \in Seq(T)
                   /\ g[1] = ss[1] /\ \A i \in 2..Len(ss) : g[i] = g[i - 1] \o ss[i]
                   /\ FlattenSeq(ss) = g[Len(ss)]
      BY <1>7, <3>1, FlattenSteps
    <3> DEFINE P == {i \in Nat : i + 1 <= n => Len(g[i + 1]) = i + 1 /\ \A k \in 1..(i + 1) : g[i + 1][k] = Toks(f[k])}
    <3>3. 0 \in P
      <4>1. Len(g[1]) = 1 /\ g[1][1] = Toks(f[1])
        <5>1. g[1] = <<Toks(f[1])>>
          BY <1>2, <1>7, <2>2, <3>2
        <5> QED
          BY <5>1
      <4> QED
        BY <4>1
    <3>4. ASSUME NEW i \in Nat, i \in P PROVE i + 1 \in P
      <4> SUFFICES ASSUME i + 2 <= n
                   PROVE  Len(g[i + 2]) = i + 2 /\ \A k \in 1..(i + 2) : g[i + 2][k] = Toks(f[k])
        OBVIOUS
      <4>1. PICK a, b, r : a = g[i + 1] /\ b = <<Toks(f[i + 2])>> /\ r = g[i + 2]
        OBVIOUS
      <4>2. i + 2 \in 2..n /\ i + 1 \in 1..n /\ (i + 2) - 1 = i + 1 /\ i + 2 \in 1..n
        BY <1>2
      <4>3. r = a \o b
        BY <1>7, <3>2, <4>1, <4>2
      <4>4. a \in Seq(T) /\ b \in Seq(T) /\ Len(b) = 1 /\ b[1] = Toks(f[i + 2])
        BY <1>6, <1>7, <3>2, <4>1, <4>2
      <4>5. Len(a) = i + 1 /\ \A k \in 1..(i + 1) : a[k] = Toks(f[k])
        BY <3>4, <4>1, <4>2
      <4>6. Len(r) = i + 2 /\ \A k \in 1..(i + 2) : r[k] = IF k <= i + 1 THEN a[k] ELSE b[k - (i + 1)]
        <5>1. Len(a) + Len(b) = i + 2
          BY <4>4, <4>5
        <5>2. /\ Len(a \o b) = Len(a) + Len(b)
              /\ \A k \in 1..(Len(a) + Len(b)) : (a \o b)[k] = IF k <= Len(a) THEN a[k] ELSE b[k - Len(a)]
          BY <4>4, ConcatProperties
        <5> QED
          BY <4>3, <4>5, <5>1, <5>2
      <4>7. ASSUME NEW k \in 1..(i + 2) PROVE r[k] = Toks(f[k])
        <5>1. CASE k <= i + 1
          <6>1. k \in 1..(i + 1)
            BY <5>1
          <6> QED
            BY <4>5, <4>6, <5>1, <6>1
        <5>2. CASE ~(k <= i + 1)
          <6>1. k = i + 2 /\ k - (i + 1) = 1
            BY <5>2
          <6> QED
            BY <4>4, <4>6, <5>2, <6>1
        <5> QED
          BY <5>1, <5>2
      <4> QED
        BY <4>1, <4>6, <4>7
    <3>5. \A i \in Nat : i \in P
      <4> HIDE DEF P
      <4> QED
        BY <3>3, <3>4, SetInduction
    <3>6. PICK i \in Nat : i + 1 = n
      <4>1. n - 1 \in Nat /\ (n - 1) + 1 = n
        BY <1>2, <2>2
      <4> QED
        BY <4>1
    <3>7. Len(g[n]) = n /\ \A k \in 1..n : g[n][k] = Toks(f[k])
      BY <3>5, <3>6
    <3>8. g[n] \in Seq(T) /\ c = g[n]
      <4>1. n \in 1..Len(ss)
        BY <1>2, <1>7, <2>2
      <4> QED
        BY <1>5, <1>7, <3>2, <4>1
    <3> QED
      BY <3>7, <3>8
  <2> QED
    BY <2>1, <2>2
<1>9. DOMAIN c = 1..n
  BY <1>8
<1>10. IsSeq(c)
  BY <1>8, SeqIsSeq
<1> QED
  BY <1>2, <1>8, <1>9, <1>10

\* When the file is opened all its lines are still to be read.
LEMMA LoadingStarts ==
  ASSUME NEW W, NEW x, Readable(x, W), NEW f, FileOk(f, x),
         NEW c, c = Chunks(f)
  PROVE  Loading(c, <<>>, x) /\ (f = Lines(x) => LoadingAll(c, <<>>, x))
<1>1. /\ IsSeq(c) /\ DOMAIN c = DOMAIN f
      /\ \A k \in DOMAIN f : c[k] = Toks(f[k])
  BY ChunksAre
<1>2. PICK tab : tab = <<>>
  OBVIOUS
<1>3. IsSeq(tab) /\ DOMAIN tab = {}
  BY <1>2 DEF IsSeq
<1>4. \A k \in DOMAIN c : /\ Head(c[k]) = f[k].word
                          /\ LineCounts(c[k]) \in Counters /\ Below(f[k].word, LineCounts(c[k]), x)
  <2> SUFFICES ASSUME NEW k \in DOMAIN c
               PROVE  /\ Head(c[k]) = f[k].word
                      /\ LineCounts(c[k]) \in Counters /\ Below(f[k].word, LineCounts(c[k]), x)
    OBVIOUS
  <2>1. LineOk(f[k], x) /\ c[k] = Toks(f[k])
    BY <1>1 DEF FileOk
  <2>2. Head(Toks(f[k])) = f[k].word
    BY <2>1, ToksOf DEF LineOk
  <2> QED
    BY <2>1, <2>2 DEF LineOk
<1>5. ASSUME f = Lines(x)
      PROVE  /\ \A k \in DOMAIN c : Same(Head(c[k]), LineCounts(c[k]), x)
             /\ \A i \in DOMAIN x : \E k \in DOMAIN c : Head(c[k]) = x[i].word
  <2>1. f = Lines(x) /\ DOMAIN f = DOMAIN x
    BY <1>5 DEF Lines
  <2>2. \A i \in DOMAIN x : f[i] = Line(x[i])
    BY <2>1 DEF Lines
  <2>3. \A i \in DOMAIN x : f[i].word = x[i].word /\ Same(f[i].word, LineCounts(Toks(f[i])), x)
    BY <2>2, SavedLineOk
  <2> QED
    BY <1>1, <1>4, <2>1, <2>3
<1> QED
  BY <1>1, <1>2, <1>3, <1>4, <1>5 DEF Loading, LoadingAll

\* One more entry, or another in its place.
LEMMA AddEntryAdds ==
  ASSUME NEW tab, IsSeq(tab), NEW w, NEW cs, NEW more, more = AddEntry(tab, w, cs),
         NEW e, e = [w |-> w, cs |-> cs]
  PROVE  /\ IsSeq(more)
         /\ \A k \in DOMAIN more : more[k] = e \/ (k \in DOMAIN tab /\ more[k] = tab[k])
         /\ \E k \in DOMAIN more : more[k] = e
         /\ \A k \in DOMAIN tab : k \in DOMAIN more /\ more[k].w = tab[k].w
<1>1. PICK n \in Nat : n = Len(tab) /\ DOMAIN tab = 1..n
  BY DEF IsSeq
<1>2. e.w = w
  OBVIOUS
<1>3. CASE \E i \in DOMAIN tab : tab[i].w = w
  <2>1. more = [i \in 1..n |-> IF tab[i].w = w THEN e ELSE tab[i]]
    BY <1>1, <1>3 DEF AddEntry
  <2>2. DOMAIN more = 1..n /\ \A i \in 1..n : more[i] = IF tab[i].w = w THEN e ELSE tab[i]
    BY <2>1
  <2>3. IsSeq(more)
    <3>1. PICK V : V = {tab[k] : k \in DOMAIN tab} \cup {e}
      OBVIOUS
    <3>2. \A i \in 1..n : (IF tab[i].w = w THEN e ELSE tab[i]) \in V
      BY <1>1, <3>1
    <3>3. more \in Seq(V)
      BY <2>1, <3>2
    <3> QED
      BY <3>3, SeqIsSeq
  <2> QED
    BY <1>1, <1>2, <1>3, <2>2, <2>3
<1>4. CASE ~\E i \in DOMAIN tab : tab[i].w = w
  <2>1. more = Append(tab, e)
    BY <1>4 DEF AddEntry
  <2>2. PICK V : V = {tab[k] : k \in DOMAIN tab} \cup {e}
    OBVIOUS
  <2>3. tab \in Seq(V) /\ e \in V
    <3>1. tab \in Seq({tab[k] : k \in DOMAIN tab})
      BY DEF IsSeq
    <3> QED
      BY <2>2, <3>1
  <2>4. /\ more \in Seq(V) /\ Len(more) = n + 1 /\ more[n + 1] = e
        /\ \A i \in 1..n : more[i] = tab[i]
    BY <1>1, <2>1, <2>3, AppendProperties
  <2>5. DOMAIN more = 1..(n + 1) /\ \A i \in 1..(n + 1) : i \in 1..n \/ i = n + 1
    BY <2>4
  <2>6. IsSeq(more)
    BY <2>4, SeqIsSeq
  <2> QED
    BY <1>1, <2>4, <2>5, <2>6
<1> QED
  BY <1>3, <1>4

\* Reading a line.
LEMMA LoadingGoesOn ==
  ASSUME NEW chks, NEW tab, NEW x, Loading(chks, tab, x), chks # <<>>,
         NEW more, more = AddEntry(tab, Head(Head(chks)), LineCounts(Head(chks))),
         NEW rest, rest = Tail(chks)
  PROVE  Loading(rest, more, x) /\ (LoadingAll(chks, tab, x) => LoadingAll(rest, more, x))
<1>1. PICK T, n : T = {chks[k] : k \in DOMAIN chks} /\ n = Len(chks)
  OBVIOUS
<1>2. chks \in Seq(T) /\ DOMAIN chks = 1..n /\ n \in Nat \ {0} /\ 1 \in DOMAIN chks
  <2>1. chks \in Seq(T)
    BY <1>1 DEF Loading, IsSeq
  <2>2. n \in Nat \ {0}
    BY <1>1, <2>1, EmptySeq
  <2>3. DOMAIN chks = 1..n
    BY <1>1, <2>1
  <2> QED
    BY <2>1, <2>2, <2>3
<1>3. Head(chks) = chks[1]
  OBVIOUS
<1>4. PICK w, cs, e : w = Head(chks[1]) /\ cs = LineCounts(chks[1]) /\ e = [w |-> w, cs |-> cs]
  OBVIOUS
<1>5. e.w = w /\ e.cs = cs /\ cs \in Counters /\ Below(w, cs, x) /\ (LoadingAll(chks, tab, x) => Same(w, cs, x))
  BY <1>2, <1>4 DEF Loading, LoadingAll
<1>6. rest \in Seq(T) /\ Len(rest) = n - 1 /\ \A k \in 1..Len(rest) : rest[k] = chks[k + 1]
  BY <1>1, <1>2, HeadTailProperties
<1>7. /\ DOMAIN rest = 1..(n - 1)
      /\ \A k \in DOMAIN rest : k + 1 \in DOMAIN chks /\ rest[k] = chks[k + 1]
      /\ \A k \in DOMAIN chks : k = 1 \/ \E j \in DOMAIN rest : rest[j] = chks[k]
  <2>1. DOMAIN rest = 1..(n - 1) /\ \A k \in DOMAIN rest : k + 1 \in DOMAIN chks /\ rest[k] = chks[k + 1]
    BY <1>2, <1>6
  <2>2. ASSUME NEW k \in DOMAIN chks, k # 1 PROVE \E j \in DOMAIN rest : rest[j] = chks[k]
    <3>1. k - 1 \in DOMAIN rest /\ (k - 1) + 1 = k
      BY <1>2, <2>1, <2>2
    <3> QED
      BY <2>1, <3>1
  <2> QED
    BY <2>1, <2>2
<1>8. IsSeq(rest)
  BY <1>6, SeqIsSeq
<1>9. /\ IsSeq(more)
      /\ \A k \in DOMAIN more : more[k] = e \/ (k \in DOMAIN tab /\ more[k] = tab[k])
      /\ \E k \in DOMAIN more : more[k] = e
      /\ \A k \in DOMAIN tab : k \in DOMAIN more /\ more[k].w = tab[k].w
  <2>1. IsSeq(tab) /\ more = AddEntry(tab, w, cs)
    BY <1>3, <1>4 DEF Loading
  <2>2. e = [w |-> w, cs |-> cs]
    BY <1>4
  <2> QED
    BY <2>1, <2>2, AddEntryAdds
<1>10. \A k \in DOMAIN rest : /\ LineCounts(rest[k]) \in Counters /\ Below(Head(rest[k]), LineCounts(rest[k]), x)
                              /\ LoadingAll(chks, tab, x) => Same(Head(rest[k]), LineCounts(rest[k]), x)
  <2> SUFFICES ASSUME NEW k \in DOMAIN rest
               PROVE  /\ LineCounts(rest[k]) \in Counters /\ Below(Head(rest[k]), LineCounts(rest[k]), x)
                      /\ LoadingAll(chks, tab, x) => Same(Head(rest[k]), LineCounts(rest[k]), x)
    OBVIOUS
  <2>1. PICK j \in DOMAIN chks : rest[k] = chks[j]
    BY <1>7
  <2> QED
    BY <2>1 DEF Loading, LoadingAll
<1>11. \A k \in DOMAIN more : /\ more[k].cs \in Counters /\ Below(more[k].w, more[k].cs, x)
                              /\ LoadingAll(chks, tab, x) => Same(more[k].w, more[k].cs, x)
  <2> SUFFICES ASSUME NEW k \in DOMAIN more
               PROVE  /\ more[k].cs \in Counters /\ Below(more[k].w, more[k].cs, x)
                      /\ LoadingAll(chks, tab, x) => Same(more[k].w, more[k].cs, x)
    OBVIOUS
  <2>1. CASE more[k] = e
    BY <1>5, <2>1
  <2>2. CASE k \in DOMAIN tab /\ more[k] = tab[k]
    BY <2>2 DEF Loading, LoadingAll
  <2> QED
    BY <1>9, <2>1, <2>2
<1>12. ASSUME LoadingAll(chks, tab, x), NEW i \in DOMAIN x
       PROVE  \/ \E k \in DOMAIN rest : Head(rest[k]) = x[i].word
              \/ \E k \in DOMAIN more : more[k].w = x[i].word
  <2>1. CASE \E k \in DOMAIN chks : Head(chks[k]) = x[i].word
    <3>1. PICK k \in DOMAIN chks : Head(chks[k]) = x[i].word
      BY <2>1
    <3>2. CASE k = 1
      BY <1>4, <1>5, <1>9, <3>1, <3>2
    <3>3. CASE \E j \in DOMAIN rest : rest[j] = chks[k]
      BY <3>1, <3>3
    <3> QED
      BY <1>7, <3>2, <3>3
  <2>2. CASE \E k \in DOMAIN tab : tab[k].w = x[i].word
    BY <1>9, <2>2
  <2> QED
    BY <1>12, <2>1, <2>2 DEF LoadingAll
<1> QED
  BY <1>8, <1>9, <1>10, <1>11, <1>12 DEF Loading, LoadingAll

\* What the querier finds for the words of a query is never more than in the index, and
\* the same if it has read a complete file to the end.
LEMMA GetCountsIs ==
  ASSUME NEW W, NEW x, Readable(x, W), NEW tab, Loading(<<>>, tab, x), NEW d \in DocIds \ {0},
         NEW cs, cs = GetCounts(tab, d)
  PROVE  /\ cs \in [Long -> Nat] /\ \A w \in Long : cs[w] \in 0..CountOf(x, w, d)
         /\ LoadingAll(<<>>, tab, x) => \A w \in Long : cs[w] = CountOf(x, w, d)
<1>1. \A w : CountOf(x, w, d) \in Nat
  BY PositiveCounts DEF Readable
<1>2. ASSUME NEW w \in Long
      PROVE  cs[w] \in 0..CountOf(x, w, d) /\ (LoadingAll(<<>>, tab, x) => cs[w] = CountOf(x, w, d))
  <2>1. CASE \E i \in DOMAIN tab : tab[i].w = w
    <3> DEFINE K == {i \in DOMAIN tab : tab[i].w = w}
               First(i) == i \in DOMAIN tab /\ tab[i].w = w /\ \A j \in 1..(i - 1) : tab[j].w # w
    <3>1. PICK n \in Nat : DOMAIN tab = 1..n
      BY DEF Loading, IsSeq
    <3>2. \E i \in DOMAIN tab : tab[i].w = w /\ \A j \in 1..(i - 1) : tab[j].w # w
      <4>1. K # {} /\ K \subseteq Nat
        BY <2>1, <3>1
      <4>2. PICK i \in K : \A j \in K : i <= j
        <5> HIDE DEF K
        <5> QED
          BY <4>1, LeastNumber
      <4>3. \A j \in 1..(i - 1) : tab[j].w # w
        <5> SUFFICES ASSUME NEW j \in 1..(i - 1), tab[j].w = w PROVE FALSE
          OBVIOUS
        <5>1. j \in DOMAIN tab /\ ~(i <= j)
          BY <3>1, <4>2
        <5> QED
          BY <4>2, <5>1
      <4> QED
        BY <4>2, <4>3
    <3>3. PICK k \in DOMAIN tab : tab[k].w = w /\ cs[w] = tab[k].cs[d]
      <4>1. PICK k : k = CHOOSE i \in DOMAIN tab : tab[i].w = w /\ \A j \in 1..(i - 1) : tab[j].w # w
        OBVIOUS
      <4>2. k \in DOMAIN tab /\ tab[k].w = w
        BY <3>2, <4>1
      <4>3. cs[w] = tab[k].cs[d]
        BY <2>1, <4>1 DEF GetCounts
      <4> QED
        BY <4>2, <4>3
    <3> QED
      BY <3>3 DEF Loading, LoadingAll, Below, Same
  <2>2. CASE ~\E i \in DOMAIN tab : tab[i].w = w
    <3>1. cs[w] = 0
      BY <2>2 DEF GetCounts
    <3>2. ASSUME LoadingAll(<<>>, tab, x) PROVE CountOf(x, w, d) = 0
      <4>1. \A i \in DOMAIN x : x[i].word # w
        <5> SUFFICES ASSUME NEW i \in DOMAIN x, x[i].word = w PROVE FALSE
          OBVIOUS
        <5>1. DOMAIN <<>> = {}
          OBVIOUS
        <5>2. \E k \in DOMAIN tab : tab[k].w = w
          BY <3>2, <5>1 DEF LoadingAll
        <5> QED
          BY <2>2, <5>2
      <4>2. \A n : ~HasCount(x, w, d, n)
        BY <4>1 DEF HasCount
      <4> QED
        BY <4>2, CountZero
    <3> QED
      BY <1>1, <3>1, <3>2
  <2> QED
    BY <2>1, <2>2
<1>3. cs \in [Long -> Nat]
  <2>1. DOMAIN cs = Long /\ cs = [w \in Long |-> cs[w]]
    BY DEF GetCounts
  <2>2. \A w \in Long : cs[w] \in Nat
    BY <1>1, <1>2
  <2> QED
    BY <2>1, <2>2
<1> QED
  BY <1>2, <1>3

-----------------------------------------------------------------------------
(***************************************************************************)
(* The querier: what has been parsed, read and printed.                    *)
(***************************************************************************)
NoQuery == {Invalid, <<>>}

\* A query that is ranked is made of alternatives that have words.
LEMMA RankedQuery ==
  ASSUME NEW line \in Seq(Tokens), NEW t, t = Taken(line), NEW ss, ss = Parsing(t), ss \notin NoQuery
  PROVE  ss = Alternatives(t) /\ AllFilled(ss)
<1>1. Grammatical(t) /\ t # <<>> /\ ss = Alternatives(t)
  BY DEF Parsing, NoQuery
<1>2. t \in Seq(Tokens)
  BY TakenType
<1>3. ss \in Seq(Seq(Long))
  BY <1>1, <1>2, AlternativesType
<1>4. \A k \in DOMAIN ss : ss[k] # <<>>
  BY <1>1, ParseIsRight
<1> QED
  BY <1>1, <1>3, <1>4 DEF AllFilled

\* The total of a document is not more than its rank by any counts that are not less than
\* those of the index, and the same if the counts are, the file is complete and the rank is
\* an int.
LEMMA TotalIs ==
  ASSUME NEW W, NEW x, Readable(x, W), NEW tab, Loading(<<>>, tab, x), NEW d \in DocIds \ {0},
         NEW ss, AllFilled(ss), NEW more \in [Long -> Nat], \A w \in Long : CountOf(x, w, d) <= more[w],
         NEW total, total = Score(GetCounts(tab, d), ss)
  PROVE  /\ total \in Int /\ Rank(more, ss) \in Int /\ total <= Rank(more, ss)
         /\ LoadingAll(<<>>, tab, x) /\ (\A w \in Long : CountOf(x, w, d) = more[w])
              => (Rank(more, ss) <= IntMax => total = Rank(more, ss))
<1>1. PICK cs : cs = GetCounts(tab, d)
  OBVIOUS
<1>2. /\ cs \in [Long -> Nat] /\ \A w \in Long : cs[w] \in 0..CountOf(x, w, d)
      /\ LoadingAll(<<>>, tab, x) => \A w \in Long : cs[w] = CountOf(x, w, d)
  BY <1>1, GetCountsIs
<1>3. /\ total \in Int /\ Rank(cs, ss) \in Int /\ total <= Rank(cs, ss)
      /\ Rank(cs, ss) <= IntMax => total = Rank(cs, ss)
  BY <1>1, <1>2, ScoreIsRank
<1>4. Rank(more, ss) \in Int
  BY ScoreIsRank
<1>5. \A w \in Long : cs[w] <= more[w]
  <2> SUFFICES ASSUME NEW w \in Long PROVE cs[w] <= more[w]
    OBVIOUS
  <2>1. CountOf(x, w, d) \in Nat
    BY PositiveCounts DEF Readable
  <2>2. cs[w] \in 0..CountOf(x, w, d) /\ CountOf(x, w, d) <= more[w] /\ more[w] \in Nat
    BY <1>2
  <2> QED
    BY <2>1, <2>2
<1>6. Rank(cs, ss) <= Rank(more, ss)
  BY <1>2, <1>5, RankMonotone
<1>7. ASSUME LoadingAll(<<>>, tab, x), \A w \in Long : CountOf(x, w, d) = more[w] PROVE cs = more
  BY <1>2, <1>7
<1>8. total <= Rank(more, ss)
  BY <1>3, <1>4, <1>6
<1> QED
  BY <1>3, <1>4, <1>7, <1>8

\* What the loop adds up for a document.
TotalOf(d) == Score(GetCounts(gtab, d), seqs)

\* The documents before docID are ranked.
Ranked ==
  /\ \A r \in output : r.doc \in 1..(docID - 1) /\ r.rank = TotalOf(r.doc) /\ r.rank > 0
  /\ \A d \in 1..(docID - 1) : TotalOf(d) > 0 => \E r \in output : r.doc = d

\* A query that is no query is answered at once, with nothing; any other when all documents
\* are ranked.
QueryInv ==
  /\ phase \in {"off", "load", "prompt", "rank", "answered"}
  /\ query \in Seq(Tokens)
  /\ phase \in {"rank", "answered"} => seqs = Parsing(Taken(query))
  /\ phase = "off" => gtab = <<>>
  /\ phase \notin {"off", "load"} => chunks = <<>>
  /\ phase \notin {"rank", "answered"} => output = {}
  /\ phase = "rank" => seqs \notin NoQuery /\ docID \in 1..MAX_DOCS
  /\ phase = "answered" /\ seqs \in NoQuery => output = {}
  /\ phase = "answered" /\ seqs \notin NoQuery => docID = MAX_DOCS
  /\ phase \in {"rank", "answered"} /\ seqs \notin NoQuery => Ranked
  /\ \A r \in output : r = [doc |-> r.doc, rank |-> r.rank, url |-> r.url]

\* One round of the loop ranks one document more.
LEMMA RankDocRanks ==
  ASSUME QueryInv, RankDoc
  PROVE  QueryInv'
<1>1. /\ phase = "rank" /\ phase' = "rank" /\ docID' = docID + 1 /\ docID < MAX_DOCS
      /\ query' = query /\ seqs' = seqs /\ chunks' = chunks /\ gtab' = gtab
  BY DEF RankDoc
<1>0. PICK url : LET total == Score(GetCounts(gtab, docID), seqs)
                 IN  output' = output \cup (IF total > 0 THEN {[doc |-> docID, rank |-> total, url |-> url]}
                                            ELSE {})
  BY DEF RankDoc
<1>2. PICK total, e : total = TotalOf(docID) /\ e = [doc |-> docID, rank |-> total, url |-> url]
  OBVIOUS
<1>3. output' = output \cup (IF total > 0 THEN {e} ELSE {})
  BY <1>0, <1>2 DEF TotalOf
<1>4. \A d : TotalOf(d)' = TotalOf(d)
  BY <1>1 DEF TotalOf
<1>5. MAX_DOCS \in Nat /\ docID \in 1..MAX_DOCS /\ seqs \notin NoQuery /\ Ranked
  BY <1>1, QuerierAssumption DEF QueryInv
<1>6. docID' \in 1..MAX_DOCS /\ docID' - 1 = docID
  BY <1>1, <1>5
<1>7. e.doc = docID /\ e.rank = total /\ e = [doc |-> e.doc, rank |-> e.rank, url |-> e.url]
  BY <1>2
<1>8. \A r \in output' : /\ r.doc \in 1..docID /\ r.rank = TotalOf(r.doc)' /\ r.rank > 0
                         /\ r = [doc |-> r.doc, rank |-> r.rank, url |-> r.url]
  <2> SUFFICES ASSUME NEW r \in output'
               PROVE  /\ r.doc \in 1..docID /\ r.rank = TotalOf(r.doc)' /\ r.rank > 0
                      /\ r = [doc |-> r.doc, rank |-> r.rank, url |-> r.url]
    OBVIOUS
  <2>1. CASE r \in output
    <3>1. r.doc \in 1..(docID - 1) /\ r.rank = TotalOf(r.doc) /\ r.rank > 0
      BY <1>5, <2>1 DEF Ranked
    <3>2. r = [doc |-> r.doc, rank |-> r.rank, url |-> r.url]
      BY <2>1 DEF QueryInv
    <3>3. r.doc \in 1..docID
      BY <1>5, <3>1
    <3> QED
      BY <1>4, <3>1, <3>2, <3>3
  <2>2. CASE r = e /\ total > 0
    <3>1. docID \in 1..docID
      BY <1>5
    <3> QED
      BY <1>2, <1>4, <1>7, <2>2, <3>1
  <2> QED
    BY <1>3, <2>1, <2>2
<1>9. ASSUME NEW d \in 1..docID, TotalOf(d) > 0 PROVE \E r \in output' : r.doc = d
  <2>1. CASE d = docID
    BY <1>2, <1>3, <1>7, <1>9, <2>1
  <2>2. CASE d # docID
    <3>1. d \in 1..(docID - 1)
      BY <1>5, <2>2
    <3> QED
      BY <1>3, <1>5, <1>9, <3>1 DEF Ranked
  <2> QED
    BY <2>1, <2>2
<1>10. Ranked'
  BY <1>4, <1>6, <1>8, <1>9 DEF Ranked
<1> QED
  BY <1>1, <1>5, <1>6, <1>8, <1>10 DEF QueryInv

\* Reading a query.
LEMMA ReadQueryKeeps ==
  ASSUME QueryInv, NEW toks \in Queries, ReadQuery(toks)
  PROVE  QueryInv'
<1>1. /\ phase = "prompt" /\ query' = toks /\ seqs' = Parse(toks) /\ docID' = 1
      /\ phase' = IF seqs' \in NoQuery THEN "answered" ELSE "rank"
      /\ chunks' = chunks /\ output' = output
  BY DEF ReadQuery, NoQuery
<1>2. output = {} /\ chunks = <<>> /\ toks \in Seq(Tokens)
  BY <1>1, QuerierAssumption DEF QueryInv
<1>3. seqs' = Parsing(Taken(query'))
  BY <1>1, <1>2, ParseIsRight
<1>4. docID' \in 1..MAX_DOCS
  BY <1>1, QuerierAssumption
<1>5. Ranked'
  <2>1. 1..(docID' - 1) = {} /\ output' = {}
    BY <1>1, <1>2
  <2> QED
    BY <2>1 DEF Ranked
<1> QED
  BY <1>1, <1>2, <1>3, <1>4, <1>5 DEF QueryInv

\* No other step is about a query.
LEMMA OthersKeepQuery ==
  ASSUME QueryInv, Open \/ ReadLine \/ EndOfIndex \/ End \/ EndOfDocs \/ NextQuery
  PROVE  QueryInv'
<1>1. CASE Open \/ ReadLine \/ End
  <2>1. /\ phase' \in {"off", "load"} /\ output = {}
        /\ query' = query /\ output' = output /\ (phase' = "off" => gtab' = <<>>)
    BY <1>1 DEF Open, ReadLine, End, QueryInv
  <2> QED
    BY <2>1 DEF QueryInv
<1>2. CASE EndOfIndex
  <2>1. phase' = "prompt" /\ output = {} /\ chunks = <<>> /\ query' = query /\ output' = output /\ chunks' = chunks
    BY <1>2 DEF EndOfIndex, locals, QueryInv
  <2> QED
    BY <2>1 DEF QueryInv
<1>3. CASE EndOfDocs
  <2>1. /\ phase = "rank" /\ phase' = "answered" /\ docID = MAX_DOCS /\ UNCHANGED locals
    BY <1>3 DEF EndOfDocs
  <2>2. UNCHANGED <<chunks, gtab, query, seqs, docID, output>>
    BY <2>1 DEF locals
  <2>3. Ranked' <=> Ranked
    BY <2>2 DEF Ranked, TotalOf
  <2> QED
    BY <2>1, <2>2, <2>3 DEF QueryInv
<1>4. CASE NextQuery
  <2>1. phase = "answered" /\ phase' = "prompt" /\ query' = <<>> /\ output' = {} /\ chunks' = chunks
    BY <1>4 DEF NextQuery
  <2>2. <<>> \in Seq(Tokens)
    BY EmptySeq
  <2> QED
    BY <2>1, <2>2 DEF QueryInv
<1> QED
  BY <1>1, <1>2, <1>3, <1>4

\* Every step.
LEMMA QueryKeeps ==
  ASSUME QueryInv, QuerierNext \/ UNCHANGED <<phase, locals>>
  PROVE  QueryInv'
<1>1. CASE QuerierNext
  BY <1>1, RankDocRanks, ReadQueryKeeps, OthersKeepQuery DEF QuerierNext
<1>2. CASE UNCHANGED <<phase, locals>>
  <2>1. UNCHANGED <<phase, chunks, gtab, query, seqs, docID, output>>
    BY <1>2 DEF locals
  <2>2. Ranked' <=> Ranked
    BY <2>1 DEF Ranked, TotalOf
  <2> QED
    BY <2>1, <2>2 DEF QueryInv
<1> QED
  BY <1>1, <1>2

\* No querier runs.
LEMMA QueryStarts ==
  ASSUME QuerierOff
  PROVE  QueryInv
<1>1. phase = "off" /\ gtab = <<>> /\ query = <<>> /\ output = {}
  BY DEF QuerierOff
<1>2. <<>> \in Seq(Tokens)
  BY EmptySeq
<1> QED
  BY <1>1, <1>2 DEF QueryInv

\* What has been parsed is what the grammar says.
LEMMA ParsedIsGrammar ==
  ASSUME QueryInv
  PROVE  ParsesGrammar
BY DEF QueryInv, ParsesGrammar, Parsing

\* A querier goes on with the index that it has opened.
LEMMA LoadKeeps ==
  ASSUME NEW x, phase # "off", Loading(chunks, gtab, x), QuerierNext \/ UNCHANGED <<phase, locals>>, phase' # "off"
  PROVE  /\ Loading(chunks', gtab', x) /\ source' = source
         /\ LoadingAll(chunks, gtab, x) => LoadingAll(chunks', gtab', x)
<1>1. CASE ReadLine
  <2>1. /\ chunks # <<>> /\ chunks' = Tail(chunks) /\ source' = source
        /\ gtab' = AddEntry(gtab, Head(Head(chunks)), LineCounts(Head(chunks)))
    BY <1>1 DEF ReadLine
  <2>2. PICK rest, more : rest = chunks' /\ more = gtab'
    OBVIOUS
  <2>3. Loading(rest, more, x) /\ (LoadingAll(chunks, gtab, x) => LoadingAll(rest, more, x))
    BY <2>1, <2>2, LoadingGoesOn
  <2> QED
    BY <2>1, <2>2, <2>3
<1>2. CASE ~ReadLine
  <2>1. chunks' = chunks /\ gtab' = gtab /\ source' = source
    BY <1>2 DEF QuerierNext, Open, EndOfIndex, End, ReadQuery, RankDoc, EndOfDocs, NextQuery, locals
  <2> QED
    BY <2>1
<1> QED
  BY <1>1, <1>2

\* Counts of a document that are not less than those of the index, and the same.
NotLess(more, x, d) == more \in [Long -> Nat] /\ \A w \in Long : CountOf(x, w, d) <= more[w]

NotMore(more, x, d) == \A w \in Long : CountOf(x, w, d) = more[w]

\* A total is a rank, from the documents of a query that are ranked.
LEMMA AnsweredTotals ==
  ASSUME QueryInv, NEW W, NEW x, Readable(x, W), Loading(chunks, gtab, x),
         phase \in {"rank", "answered"}, seqs \notin NoQuery, NEW d \in DocIds \ {0},
         NEW more, NotLess(more, x, d), NEW t, t = Taken(query)
  PROVE  /\ TotalOf(d) \in Int /\ Rank(more, Alternatives(t)) \in Int
         /\ TotalOf(d) <= Rank(more, Alternatives(t))
         /\ LoadingAll(chunks, gtab, x) /\ NotMore(more, x, d)
              => (Rank(more, Alternatives(t)) <= IntMax => TotalOf(d) = Rank(more, Alternatives(t)))
<1>1. PICK ss : ss = seqs
  OBVIOUS
<1>2. ss = Parsing(t) /\ ss \notin NoQuery /\ query \in Seq(Tokens)
  BY <1>1 DEF QueryInv
<1>3. ss = Alternatives(t) /\ AllFilled(ss)
  BY <1>2, RankedQuery
<1>4. chunks = <<>> /\ Loading(<<>>, gtab, x)
  <2>1. chunks = <<>>
    BY DEF QueryInv
  <2> QED
    BY <2>1
<1>5. PICK total : total = Score(GetCounts(gtab, d), ss)
  OBVIOUS
<1>6. /\ total \in Int /\ Rank(more, ss) \in Int /\ total <= Rank(more, ss)
      /\ LoadingAll(<<>>, gtab, x) /\ (\A w \in Long : CountOf(x, w, d) = more[w])
           => (Rank(more, ss) <= IntMax => total = Rank(more, ss))
  <2>1. more \in [Long -> Nat] /\ \A w \in Long : CountOf(x, w, d) <= more[w]
    BY DEF NotLess
  <2> QED
    BY <1>3, <1>4, <1>5, <2>1, TotalIs
<1>7. TotalOf(d) = total
  BY <1>1, <1>5 DEF TotalOf
<1> QED
  BY <1>3, <1>4, <1>6, <1>7 DEF NotMore

\* The querier has opened a file of the index that is still there, and what is printed
\* with a document is the first line of its page file or none.
ImageInv ==
  /\ written \in Images /\ file = Lines(written) /\ source = written
  /\ phase # "off" => Loading(chunks, gtab, written) /\ LoadingAll(chunks, gtab, written)
  /\ \A r \in output : r.url \in {GetUrl(r.doc), Unknown}

\* It stays so.
LEMMA ImageKeeps ==
  ASSUME NEW W, \A x \in Images : Readable(x, W), QueryInv, ImageInv, [QuerierNext]_querierVars
  PROVE  ImageInv'
<1>1. PICK x : x = written
  OBVIOUS
<1>2. written' = written /\ file' = file /\ pagedir' = pagedir /\ source' = source
  BY DEF QuerierNext, Open, ReadLine, EndOfIndex, End, ReadQuery, RankDoc, EndOfDocs, NextQuery, locals,
         querierVars, ImageInv
<1>3. Readable(x, W)
  BY <1>1 DEF ImageInv
<1>4. phase' # "off" => Loading(chunks', gtab', x) /\ LoadingAll(chunks', gtab', x)
  <2>1. CASE phase = "off"
    <3>1. CASE Open
      <4>1. PICK f, c : f = file /\ c = Chunks(f)
        OBVIOUS
      <4>2. chunks' = c /\ gtab' = gtab
        BY <3>1, <4>1 DEF Open, Chunks
      <4>3. f = Lines(x) /\ FileOk(f, x)
        <5>1. f = Lines(x)
          BY <1>1, <4>1 DEF ImageInv
        <5> QED
          BY <1>3, <5>1, LinesAreOk
      <4>4. Loading(c, <<>>, x) /\ LoadingAll(c, <<>>, x)
        BY <1>3, <4>1, <4>3, LoadingStarts
      <4>5. gtab = <<>>
        BY <2>1 DEF QueryInv
      <4> QED
        BY <4>2, <4>4, <4>5
    <3>2. CASE ~Open
      <4>1. phase' = phase
        BY <2>1, <3>2 DEF QuerierNext, Open, ReadLine, EndOfIndex, End, ReadQuery, RankDoc, EndOfDocs,
                          NextQuery, querierVars
      <4> QED
        BY <2>1, <4>1
    <3> QED
      BY <3>1, <3>2
  <2>2. CASE phase # "off"
    <3>1. Loading(chunks, gtab, x) /\ LoadingAll(chunks, gtab, x) /\ (QuerierNext \/ UNCHANGED <<phase, locals>>)
      BY <1>1, <2>2 DEF ImageInv, querierVars
    <3> QED
      BY <2>2, <3>1, LoadKeeps
  <2> QED
    BY <2>1, <2>2
<1>5. \A d : GetUrl(d)' = GetUrl(d)
  BY <1>2 DEF GetUrl
<1>6. \A r \in output' : r.url \in {GetUrl(r.doc), Unknown}
  <2> SUFFICES ASSUME NEW r \in output' PROVE r.url \in {GetUrl(r.doc), Unknown}
    OBVIOUS
  <2>1. CASE r \in output
    BY <2>1 DEF ImageInv
  <2>2. CASE r \notin output
    <3>1. RankDoc
      BY <2>2 DEF QuerierNext, Open, ReadLine, EndOfIndex, End, ReadQuery, RankDoc, EndOfDocs, NextQuery,
                  locals, querierVars
    <3>2. PICK total, url : r = [doc |-> docID, rank |-> total, url |-> url] /\ url \in {GetUrl(docID), Unknown}
      BY <2>2, <3>1 DEF RankDoc
    <3> QED
      BY <3>2
  <2> QED
    BY <2>1, <2>2
<1> QED
  BY <1>1, <1>2, <1>4, <1>5, <1>6 DEF ImageInv

\* What the querier answers for an index that the indexer makes and whose lines fit.
LEMMA ImageAnswers ==
  ASSUME NEW W, \A x \in Images : Readable(x, W), QueryInv, ImageInv
  PROVE  AnswersRight
<1> SUFFICES ASSUME phase = "answered"
             PROVE  /\ \A r \in output : r.rank \in 1..IndexRank(r.doc) /\ r.url \in {GetUrl(r.doc), Unknown}
                    /\ \A d \in DocIds \ {0} : IndexRank(d) \in 1..IntMax =>
                         {r.rank : r \in {r \in output : r.doc = d}} = {IndexRank(d)}
  BY DEF AnswersRight
<1>1. CASE seqs \in NoQuery
  <2>1. output = {}
    BY <1>1 DEF QueryInv
  <2>2. \A d : IndexRank(d) = 0
    BY <1>1 DEF IndexRank, NoQuery
  <2> QED
    BY <2>1, <2>2
<1>2. CASE seqs \notin NoQuery
  <2>1. PICK x, t : x = source /\ t = Taken(query)
    OBVIOUS
  <2>2. /\ Readable(x, W) /\ Loading(chunks, gtab, x) /\ LoadingAll(chunks, gtab, x)
        /\ \A r \in output : r.url \in {GetUrl(r.doc), Unknown}
    BY <2>1 DEF ImageInv
  <2>3. ASSUME NEW d \in DocIds \ {0}
        PROVE  /\ TotalOf(d) \in Int /\ IndexRank(d) \in Int /\ TotalOf(d) <= IndexRank(d)
               /\ IndexRank(d) <= IntMax => TotalOf(d) = IndexRank(d)
    <3>1. PICK more : more = [w \in Long |-> CountOf(source, w, d)]
      OBVIOUS
    <3>2. NotLess(more, x, d) /\ NotMore(more, x, d)
      <4>1. \A w : CountOf(x, w, d) \in Nat
        BY <2>2, PositiveCounts DEF Readable
      <4> QED
        BY <2>1, <3>1, <4>1 DEF NotLess, NotMore
    <3>3. /\ TotalOf(d) \in Int /\ Rank(more, Alternatives(t)) \in Int
          /\ TotalOf(d) <= Rank(more, Alternatives(t))
          /\ LoadingAll(chunks, gtab, x) /\ NotMore(more, x, d)
               => (Rank(more, Alternatives(t)) <= IntMax => TotalOf(d) = Rank(more, Alternatives(t)))
      BY <1>2, <2>1, <2>2, <3>2, AnsweredTotals
    <3>4. IndexRank(d) = Rank(more, Alternatives(t))
      BY <1>2, <2>1, <3>1 DEF IndexRank, NoQuery
    <3> QED
      BY <2>2, <3>2, <3>3, <3>4
  <2>4. Ranked /\ docID = MAX_DOCS /\ MAX_DOCS \in Nat /\ DocIds \ {0} = 1..(docID - 1)
    BY <1>2, QuerierAssumption DEF QueryInv, DocIds
  <2>5. ASSUME NEW r \in output
        PROVE  r.doc \in DocIds \ {0} /\ r.rank = TotalOf(r.doc) /\ r.rank \in 1..IndexRank(r.doc)
    <3>1. r.doc \in DocIds \ {0} /\ r.rank = TotalOf(r.doc) /\ r.rank > 0
      BY <2>4 DEF Ranked
    <3>2. r.rank \in Int /\ IndexRank(r.doc) \in Int /\ r.rank <= IndexRank(r.doc)
      BY <2>3, <3>1
    <3> QED
      BY <3>1, <3>2
  <2>6. ASSUME NEW d \in DocIds \ {0}, IndexRank(d) \in 1..IntMax
        PROVE  {r.rank : r \in {r \in output : r.doc = d}} = {IndexRank(d)}
    <3>1. TotalOf(d) = IndexRank(d) /\ TotalOf(d) > 0
      BY <2>3, <2>6, IndexAssumption
    <3>2. PICK q \in output : q.doc = d
      BY <2>4, <3>1 DEF Ranked
    <3>3. \A r \in output : r.doc = d => r.rank = IndexRank(d)
      BY <2>5, <3>1
    <3>4. PICK n : n = IndexRank(d)
      OBVIOUS
    <3> QED
      BY <3>2, <3>3, <3>4
  <2> QED
    BY <2>2, <2>5, <2>6
<1> QED
  BY <1>1, <1>2

\* The querier on its own parses queries as the grammar says.
THEOREM QuerierParses == QuerierSpec => []ParsesGrammar
<1>1. QuerierInit => QueryInv
  BY QueryStarts DEF QuerierInit
<1>2. QueryInv /\ [QuerierNext]_querierVars => QueryInv'
  BY QueryKeeps DEF querierVars
<1>3. QueryInv => ParsesGrammar
  BY ParsedIsGrammar
<1> QED
  BY <1>1, <1>2, <1>3, PTL DEF QuerierSpec

\* For the file of an index of positive counts that fits the buffer line by line, the
\* documents that the querier prints have all words of an alternative, and their ranks are
\* the sums of the least counts in the index, and the documents for which that sum is an int
\* are all printed; where it is none, the rank is less.
THEOREM QuerierAnswers ==
  ASSUME NEW W, \A x \in Images : Readable(x, W)
  PROVE  QuerierSpec => []AnswersRight
<1>1. QuerierInit => QueryInv /\ ImageInv
  <2> SUFFICES ASSUME QuerierInit PROVE QueryInv /\ ImageInv
    OBVIOUS
  <2>1. QuerierOff /\ written \in Images /\ file = Lines(written)
    BY DEF QuerierInit
  <2>2. phase = "off" /\ source = written /\ output = {}
    BY <2>1 DEF QuerierOff
  <2> QED
    BY <2>1, <2>2, QueryStarts DEF ImageInv
<1>2. QueryInv /\ ImageInv /\ [QuerierNext]_querierVars => (QueryInv /\ ImageInv)'
  <2> SUFFICES ASSUME QueryInv, ImageInv, [QuerierNext]_querierVars PROVE QueryInv' /\ ImageInv'
    OBVIOUS
  <2>1. QueryInv'
    BY QueryKeeps DEF querierVars
  <2>2. ImageInv'
    BY ImageKeeps
  <2> QED
    BY <2>1, <2>2
<1>3. QueryInv /\ ImageInv => AnswersRight
  BY ImageAnswers
<1> QED
  BY <1>1, <1>2, <1>3, PTL DEF QuerierSpec

-----------------------------------------------------------------------------
(***************************************************************************)
(* The three programs together, and what the querier answers.              *)
(***************************************************************************)
\* All postings of an index are of the pages that there can be, and count something.
Bounded(x) == \A w, d, n : HasCount(x, w, d, n) => n > 0 /\ d \in 1..MaxPages

\* A list with one posting for a document has no more postings than documents.
LEMMA OneEachIsShort ==
  ASSUME NEW n \in Nat, NEW ps \in PostingLists, OneEach(ps), \A j \in DOMAIN ps : ps[j].docid \in 1..n
  PROVE  Len(ps) <= n
<1>1. Len(ps) \in Nat /\ DOMAIN ps = 1..Len(ps)
  BY PostingType
<1>2. PICK m \in Nat : m = Len(ps)
  BY <1>1
<1>3. PICK f : f = [j \in 1..m |-> ps[j].docid]
  OBVIOUS
<1>4. f \in [1..m -> 1..n] /\ \A j, k \in 1..m : f[j] = f[k] => j = k
  BY <1>1, <1>2, <1>3 DEF OneEach
<1>5. f \in Injection(1..m, 1..n)
  BY <1>4 DEF Injection, IsInjective
<1>6. IsFiniteSet(1..m) /\ Cardinality(1..m) = m /\ IsFiniteSet(1..n) /\ Cardinality(1..n) = n
  <2>1. 1 \in Int /\ m \in Int /\ n \in Int /\ m - 1 + 1 = m
    OBVIOUS
  <2>2. \A k \in Nat : IsFiniteSet(1..k) /\ Cardinality(1..k) = k
    <3>1. ASSUME NEW k \in Nat PROVE IsFiniteSet(1..k) /\ Cardinality(1..k) = k
      <4>1. 1 \in Int /\ k \in Int
        OBVIOUS
      <4>2. IsFiniteSet(1..k) /\ Cardinality(1..k) = IF 1 > k THEN 0 ELSE k - 1 + 1
        BY <4>1, FS_Interval
      <4> QED
        BY <4>2
    <3> QED
      BY <3>1
  <2> QED
    BY <2>2
<1>7. Cardinality(1..m) <= Cardinality(1..n)
  BY <1>5, <1>6, FS_Injection
<1> QED
  BY <1>2, <1>6, <1>7

\* Such an index can be read.
LEMMA BoundedReadable ==
  ASSUME 2 * MaxPages + 1 <= LineMax, NEW W, NEW x \in Indexes(W), Bounded(x)
  PROVE  Readable(x, W)
<1>1. ASSUME NEW i \in DOMAIN x, NEW ps, ps = x[i].postings
      PROVE  Positive(ps) /\ 2 * Len(ps) < LineMax
  <2>1. ps \in PostingLists /\ OneEach(ps)
    BY <1>1, EntryType
  <2>2. ASSUME NEW j \in DOMAIN ps PROVE ps[j].count > 0 /\ ps[j].docid \in 1..MaxPages
    <3>1. HasCount(x, x[i].word, ps[j].docid, ps[j].count)
      BY <1>1, <2>2 DEF HasCount, Has
    <3> QED
      BY <3>1 DEF Bounded
  <2>3. MaxPages \in Nat /\ LineMax \in Nat
    BY TseAssumption, QuerierAssumption
  <2>4. Len(ps) <= MaxPages
    BY <2>1, <2>2, <2>3, OneEachIsShort
  <2>5. Len(ps) \in Nat
    BY <2>1, PostingType
  <2> QED
    BY <2>2, <2>3, <2>4, <2>5 DEF Positive
<1> QED
  BY <1>1 DEF Readable, AllPositive, ShortLines

\* The postings of an index that are added stay in bounds if the counts do not overflow.
LEMMA AddKeepsBounds ==
  ASSUME NEW W, NEW x \in Indexes(W), Bounded(x), NEW w \in W, NEW d \in 1..IntMax, d \in 1..MaxPages,
         NEW y, y = AddPosting(x, w, d, 1), CountOf(y, w, d) >= 0
  PROVE  Bounded(y)
<1>1. /\ y \in Indexes(W)
      /\ \A u, e, n : ~(u = w /\ e = d) => (HasCount(y, u, e, n) <=> HasCount(x, u, e, n))
      /\ \A n : HasCount(x, w, d, n) => HasCount(y, w, d, ToInt(n + 1))
      /\ (\A n : ~HasCount(x, w, d, n)) => HasCount(y, w, d, 1)
  <2>1. 1 \in 1..IntMax
    BY IndexAssumption
  <2> QED
    BY <2>1, AddPostingAdds
<1>2. ASSUME NEW u, NEW e, NEW n, HasCount(y, u, e, n) PROVE n > 0 /\ e \in 1..MaxPages
  <2>1. CASE ~(u = w /\ e = d)
    BY <1>1, <1>2, <2>1 DEF Bounded
  <2>2. CASE u = w /\ e = d
    <3>1. n = CountOf(y, w, d)
      BY <1>1, <1>2, <2>2, CountIs
    <3>2. CASE \A m : ~HasCount(x, w, d, m)
      <4>1. CountOf(y, w, d) = 1
        BY <1>1, <3>2, CountIs
      <4> QED
        BY <2>2, <3>1, <4>1
    <3>3. ASSUME NEW m, HasCount(x, w, d, m) PROVE n > 0
      <4>1. n = ToInt(m + 1)
        BY <1>1, <3>1, <3>3, CountIs
      <4>2. m > 0 /\ m = CountOf(x, w, d)
        BY <3>3, CountIs DEF Bounded
      <4>3. m \in Ints
        BY <4>2, CountType
      <4>4. IntMax \in Nat \ {0}
        BY IndexAssumption
      <4>5. CASE m + 1 \in Ints
        <5>1. ToInt(m + 1) = m + 1
          BY <4>3, <4>5, <4>4, ToIntIsInt DEF Ints
        <5> QED
          BY <4>1, <4>2, <4>3, <5>1, <4>4 DEF Ints
      <4>6. CASE m + 1 \notin Ints
        <5>1. m = IntMax
          BY <4>2, <4>3, <4>4, <4>6 DEF Ints
        <5>2. n = ((2 * IntMax + 2) % (2 * IntMax + 2)) - IntMax - 1
          BY <4>1, <4>4, <5>1 DEF ToInt
        <5>3. n < 0
          BY <4>4, <5>2
        <5> QED
          BY <3>1, <5>3, <4>4, <5>2
      <4> QED
        BY <4>5, <4>6
    <3> QED
      BY <2>2, <3>2, <3>3
  <2> QED
    BY <2>1, <2>2
<1> QED
  BY <1>2 DEF Bounded

\* What is saved is counted in the pages of which it was made.
Saves(h) ==
  /\ DOMAIN h = {"idx", "read", "mixed", "lost", "whole"}
  /\ Htmls(h.mixed)
  /\ h.idx \in Indexes(DOMAIN Stumps) /\ Bounded(h.idx)
  /\ \A w, d : CountOf(h.idx, w, d) \in 0..TrueCount(h.read, h.mixed, w, d)
  /\ ~h.lost => \A w, d : CountOf(h.idx, w, d) = TrueCount(h.read, h.mixed, w, d)

\* The index that is being saved is the one in memory.
Saving ==
  /\ written.idx = idx /\ written.read = read /\ written.mixed = mixed /\ written.lost = lost
  /\ ~written.whole

\* What the index file is a file of.
FileOf(f, h) == f # NoIndex => FileOk(f, h.idx) /\ (h.whole => f = Lines(h.idx))

\* What has been read of a file.
Loads(h) == Loading(chunks, gtab, h.idx) /\ (h.whole => LoadingAll(chunks, gtab, h.idx))

\* The index file is one of what was written last, and what the querier has read is one of
\* what had been written when it opened it, if the file was not replaced before it was read.
AnswerInv ==
  /\ Bounded(idx) /\ Saves(written) /\ Saves(source)
  /\ iphase = "save" => Saving
  /\ FileOf(file, written)
  /\ phase # "off" /\ ~replaced => Loads(source)

\* Nothing has been written of no page.
LEMMA NothingSaves ==
  /\ Bounded(<<>>) /\ Saves(I!NothingWritten) /\ ~I!NothingWritten.whole
<1>1. <<>> \in Indexes(DOMAIN Stumps) /\ \A w, d : CountOf(<<>>, w, d) = 0
  BY EmptyIndex
<1>2. \A w, d, n : ~HasCount(<<>>, w, d, n)
  BY DEF HasCount
<1>3. Bounded(<<>>)
  BY <1>2 DEF Bounded
<1>4. \A m, w, d : TrueCount(<<>>, m, w, d) = 0
  BY DEF TrueCount
<1>5. PICK h : h = I!NothingWritten
  OBVIOUS
<1>6. /\ DOMAIN h = {"idx", "read", "mixed", "lost", "whole"} /\ h.idx = <<>> /\ h.read = <<>>
      /\ ~h.whole /\ h.mixed = I!None
  BY <1>5 DEF I!NothingWritten
<1>8. Htmls(h.mixed)
  BY <1>6 DEF I!None, Htmls
<1>7. Saves(h)
  BY <1>1, <1>3, <1>4, <1>6, <1>8 DEF Saves
<1> QED
  BY <1>3, <1>5, <1>6, <1>7

\* Only words have counts, and only in pages that there can be.
LEMMA SeenIsTrue ==
  ASSUME TseInv, DirInv, CountInv, iphase # "words", NEW w, NEW d
  PROVE  /\ CountOf(idx, w, d) \in 0..TrueCount(read, mixed, w, d)
         /\ ~lost => CountOf(idx, w, d) = TrueCount(read, mixed, w, d)
<1>1. Seen(w, d) = TrueCount(read, mixed, w, d)
  BY DEF Seen, SeenIn
<1>2. read \in Seq(Stored) /\ idx \in Indexes(DOMAIN Stumps)
  BY DEF TseInv, ReadTypes, CountInv
<1>3. CASE w \in DOMAIN Stumps /\ d \in 1..IntMax
  <2>1. Counts(w, d)
    BY <1>3 DEF CountInv
  <2> QED
    BY <1>1, <2>1 DEF Counts
<1>4. CASE ~(w \in DOMAIN Stumps /\ d \in 1..IntMax)
  <2>1. \A n : ~HasCount(idx, w, d, n)
    <3> SUFFICES ASSUME NEW i \in DOMAIN idx, idx[i].word = w, NEW ps, ps = idx[i].postings,
                        NEW j \in DOMAIN ps, ps[j].docid = d
                 PROVE  FALSE
      BY DEF HasCount, Has
    <3>1. idx[i].word \in DOMAIN Stumps /\ ps \in PostingLists
      BY <1>2, EntryType
    <3>2. ps[j].docid \in 1..IntMax
      BY <3>1, PostingType
    <3> QED
      BY <1>4, <3>1, <3>2
  <2>2. CountOf(idx, w, d) = 0
    BY <2>1, CountZero
  <2>3. TrueCount(read, mixed, w, d) = 0
    <3>1. CASE d \notin DOMAIN read
      BY <3>1 DEF TrueCount
    <3>2. CASE d \in DOMAIN read
      <4>1. d \in 1..MaxPages
        <5>1. d \in DOMAIN pagedir
          BY <3>2, ReadHistory DEF TseInv, HistoryInv
        <5> QED
          BY <5>1 DEF DirInv
      <4>2. d \in 1..IntMax
        BY <4>1, TseAssumption, IndexAssumption
      <4>3. w \notin DOMAIN Stumps
        BY <1>4, <4>2
      <4>4. \A v \in DOMAIN Norm : Norm[v] # w
        BY <4>3, TseAssumption
      <4>5. PICK html : html = Text(read, mixed, d)
        OBVIOUS
      <4>6. {n \in DOMAIN html : html[n] \in DOMAIN Norm /\ Norm[html[n]] = w /\ ~InTag(html, n)} = {}
        BY <4>4
      <4>7. Occurrences(w, Text(read, mixed, d)) = Cardinality({})
        BY <4>5, <4>6 DEF Occurrences
      <4> QED
        BY <3>2, <4>7, FS_EmptySet DEF TrueCount
    <3> QED
      BY <3>1, <3>2
  <2> QED
    BY <2>2, <2>3
<1> QED
  BY <1>3, <1>4

\* The lines that the indexer saves are those of module Index.
LEMMA SameLines ==
  ASSUME NEW x, NEW s, NEW b
  PROVE  I!Lines(x) = Lines(x) /\ I!TornFile(x, s, b) = TornFile(x, s, b)
<1>1. \A e : I!Line(e) = Line(e)
  BY DEF I!Line, Line, I!FlattenSeq, FlattenSeq
<1>2. I!Lines(x) = Lines(x)
  BY <1>1 DEF I!Lines, Lines
<1>3. \A l, t : I!TornLines(l, t, b) = TornLines(l, t, b)
  BY DEF I!TornLines, TornLines, I!CutNumber, CutNumber
<1>4. I!TornFile(x, s, b) = TornFile(x, s, b)
  <2> DEFINE N == 0..(Len(x) - 1)
             P(n) == {Append(SubSeq(Lines(x), 1, n), cut) :
                        cut \in TornLines(Line(x[n + 1]), s[x[n + 1].word], b)}
             Q(n) == {Append(SubSeq(I!Lines(x), 1, n), cut) :
                        cut \in I!TornLines(I!Line(x[n + 1]), s[x[n + 1].word], b)}
             K == {SubSeq(Lines(x), 1, n) : n \in 0..Len(x)}
             M == {SubSeq(I!Lines(x), 1, n) : n \in 0..Len(x)}
  <2>1. \A n : P(n) = Q(n)
    BY <1>1, <1>2, <1>3
  <2>2. K = M
    BY <1>2
  <2>3. TornFile(x, s, b) = K \cup UNION {P(n) : n \in N}
    BY DEF TornFile
  <2>4. I!TornFile(x, s, b) = M \cup UNION {Q(n) : n \in N}
    BY DEF I!TornFile
  <2> HIDE DEF K, M, P, Q, N
  <2>5. {P(n) : n \in N} = {Q(n) : n \in N}
    BY <2>1
  <2> QED
    BY <2>2, <2>3, <2>4, <2>5
<1> QED
  BY <1>2, <1>4

\* The file that the indexer opens is empty.
LEMMA EmptyFileOk ==
  ASSUME NEW x
  PROVE  FileOk(<<>>, x)
<1>1. <<>> \in Seq({}) /\ DOMAIN <<>> = {}
  OBVIOUS
<1>2. IsSeq(<<>>)
  BY <1>1, SeqIsSeq
<1> QED
  BY <1>1, <1>2 DEF FileOk

\* The next word is in bounds.
LEMMA NextWordBounded ==
  ASSUME TseInv, DirInv, CountInv, CountInv', Bounded(idx), I!NextWord
  PROVE  Bounded(idx')
<1>1. /\ iphase = "words" /\ iphase' = "words" /\ id' = id /\ read' = read /\ mixed' = mixed
      /\ idx' = idx \/ \E v \in DOMAIN Norm : idx' = AddPosting(idx, Norm[v], id, 1)
  BY SameIndex DEF I!NextWord
<1>2. read \in Seq(Stored) /\ Len(read) = id /\ id \in DOMAIN read /\ idx \in Indexes(DOMAIN Stumps)
  BY <1>1 DEF TseInv, ReadTypes, ReadInv, CountInv
<1>3. id \in 1..MaxPages /\ id \in 1..IntMax
  <2>1. id \in DOMAIN pagedir
    BY <1>2, ReadHistory DEF TseInv, HistoryInv
  <2> QED
    BY <2>1, TseAssumption, IndexAssumption DEF DirInv
<1>4. ASSUME NEW w \in DOMAIN Stumps PROVE CountOf(idx', w, id) >= 0
  <2>1. PICK h, p, m, ph : h = page'.html /\ p = pos' /\ m = mixed /\ ph = iphase'
    OBVIOUS
  <2>2. Htmls(m) /\ (ph = "words" => IsHtml(h) /\ p \in 0..Len(h))
    BY <1>1, <2>1 DEF CountInv, InPage
  <2>3. SeenIn(ph, id, h, p, read, m, w, id) \in 0..IntMax
    BY <1>2, <2>2, SeenType
  <2>4. Seen(w, id)' \in 0..IntMax
    BY <1>1, <2>1, <2>3 DEF Seen
  <2>5. CountOf(idx', w, id) \in 0..Seen(w, id)'
    BY <1>1, <1>3 DEF CountInv, Counts
  <2> QED
    BY <2>4, <2>5, IndexAssumption
<1>5. ASSUME NEW v \in DOMAIN Norm, idx' = AddPosting(idx, Norm[v], id, 1) PROVE Bounded(idx')
  <2>1. PICK w \in DOMAIN Stumps : w = Norm[v]
    BY TseAssumption
  <2>2. PICK y : y = idx'
    OBVIOUS
  <2>3. y = AddPosting(idx, w, id, 1) /\ CountOf(y, w, id) >= 0
    BY <1>4, <1>5, <2>1, <2>2
  <2>4. Bounded(y)
    BY <1>2, <1>3, <2>3, AddKeepsBounds
  <2> QED
    BY <2>2, <2>4
<1> QED
  BY <1>1, <1>5

\* A word that is lost adds no posting.
LEMMA LostWordBounded ==
  ASSUME CountInv, Bounded(idx), I!NextWordLost
  PROVE  Bounded(idx')
<1>1. idx' = idx \/ idx' = WithEntry(idx, Norm[I!Word])
  BY SameIndex DEF I!NextWordLost
<1>2. PICK w \in DOMAIN Stumps : w = Norm[I!Word]
  BY TseAssumption DEF I!NextWordLost
<1>3. PICK y : y = WithEntry(idx, w)
  OBVIOUS
<1>4. \A u, e, n : HasCount(y, u, e, n) <=> HasCount(idx, u, e, n)
  BY <1>3, WithEntryKeeps DEF CountInv
<1>5. Bounded(y)
  BY <1>4 DEF Bounded
<1> QED
  BY <1>1, <1>2, <1>3, <1>5

\* The postings in memory stay in bounds.
LEMMA IndexStaysBounded ==
  ASSUME TseInv, DirInv, CountInv, CountInv', Bounded(idx), [Next]_vars
  PROVE  Bounded(idx')
<1>1. CASE Crawling \/ Querying \/ UNCHANGED vars
  <2>1. idx' = idx
    BY <1>1 DEF Crawling, Querying, vars, indexer
  <2> QED
    BY <2>1
<1>2. CASE Indexing
  <2>1. CASE \/ I!Start \/ I!LoadPage \/ I!ReadPart \/ I!ReadMore \/ I!EndRead \/ I!EndReadMixed
             \/ I!NoPageLoads \/ I!PageLoadFails \/ I!EndOfPage \/ I!EndOfPageLost \/ I!OpenIndex
    <3>1. idx' = idx
      BY <2>1 DEF I!Start, I!LoadPage, I!ReadPart, I!ReadMore, I!EndRead, I!EndReadMixed, I!PageReturned,
                  I!NoPageLoads, I!PageLoadFails, I!EndOfPages, I!EndOfPage, I!EndOfPageLost, I!NextPage,
                  I!OpenIndex, I!locals
    <3> QED
      BY <3>1
  <2>2. CASE I!Crash \/ I!OpenIndexFails \/ I!WriteIndex \/ I!WriteIndexFails \/ I!Kill
    <3>1. idx' = <<>>
      BY <2>2 DEF I!Crash, I!OpenIndexFails, I!WriteIndex, I!WriteIndexFails, I!Kill, I!Exit
    <3> QED
      BY <3>1, NothingSaves
  <2> QED
    BY <1>2, <2>1, <2>2, NextWordBounded, LostWordBounded DEF Indexing, IndexStep, NoFault, Fault
<1> QED
  BY <1>1, <1>2 DEF Next

\* The indexer opens the file.
LEMMA OpenIndexSaves ==
  ASSUME TseInv, DirInv, CountInv, AnswerInv, I!OpenIndex
  PROVE  Saves(written') /\ Saving' /\ FileOf(file', written')
<1>1. PICK h : h = written'
  OBVIOUS
<1>2. /\ h = [idx |-> idx, read |-> read, mixed |-> mixed, lost |-> lost, whole |-> FALSE]
      /\ file' = <<>> /\ iphase = "end"
      /\ idx' = idx /\ read' = read /\ mixed' = mixed /\ lost' = lost
  BY <1>1 DEF I!OpenIndex, I!locals
<1>3. /\ DOMAIN h = {"idx", "read", "mixed", "lost", "whole"}
      /\ h.idx = idx /\ h.read = read /\ h.mixed = mixed /\ h.lost = lost /\ ~h.whole
  BY <1>2
<1>4. \A w, d : /\ CountOf(idx, w, d) \in 0..TrueCount(read, mixed, w, d)
                /\ ~lost => CountOf(idx, w, d) = TrueCount(read, mixed, w, d)
  BY <1>2, SeenIsTrue
<1>5. Saves(h)
  BY <1>3, <1>4 DEF Saves, CountInv, AnswerInv
<1>6. Saving'
  BY <1>1, <1>2, <1>3 DEF Saving
<1>7. FileOf(<<>>, h)
  BY <1>3, EmptyFileOk DEF FileOf
<1> QED
  BY <1>1, <1>2, <1>5, <1>6, <1>7

\* It writes the file, or a part of it.
LEMMA WriteIndexSaves ==
  ASSUME 2 * MaxPages + 1 <= LineMax, CountInv, AnswerInv, I!WriteIndex \/ I!WriteIndexFails
  PROVE  Saves(written') /\ FileOf(file', written')
<1>1. PICK x, h, g, f : x = idx /\ h = written /\ g = written' /\ f = file'
  OBVIOUS
<1>2. Saves(h) /\ h.idx = x /\ ~h.whole
  BY <1>1 DEF AnswerInv, Saving, I!WriteIndex, I!WriteIndexFails
<1>3. Readable(x, DOMAIN Stumps)
  BY <1>2, BoundedReadable DEF Saves
<1>4. CASE I!WriteIndex
  <2>1. f = Lines(x) /\ g = [h EXCEPT !.whole = TRUE]
    BY <1>1, <1>4, SameLines DEF I!WriteIndex
  <2>2. /\ DOMAIN g = {"idx", "read", "mixed", "lost", "whole"}
        /\ g.idx = h.idx /\ g.read = h.read /\ g.mixed = h.mixed /\ g.lost = h.lost
    BY <1>2, <2>1 DEF Saves
  <2>3. Saves(g)
    BY <1>2, <2>2 DEF Saves
  <2>4. FileOk(f, x)
    BY <1>3, <2>1, LinesAreOk
  <2>5. FileOf(f, g)
    BY <1>2, <2>1, <2>2, <2>4 DEF FileOf
  <2> QED
    BY <1>1, <2>3, <2>5
<1>5. CASE I!WriteIndexFails
  <2>1. f \in TornFile(x, Stumps, Powers) /\ g = h
    BY <1>1, <1>5, SameLines DEF I!WriteIndexFails
  <2>4. Powers \in PowerSets
    BY TseAssumption DEF PowerSets
  <2>2. FileOk(f, x)
    BY <1>3, <2>1, <2>4, TornFileOk
  <2>3. FileOf(f, g)
    BY <1>2, <2>1, <2>2 DEF FileOf
  <2> QED
    BY <1>1, <1>2, <2>1, <2>3
<1> QED
  BY <1>4, <1>5

\* The index file stays one of what was written.
LEMMA FileStays ==
  ASSUME 2 * MaxPages + 1 <= LineMax, TseInv, DirInv, CountInv, AnswerInv, [Next]_vars
  PROVE  Saves(written') /\ FileOf(file', written') /\ (iphase' = "save" => Saving')
<1>1. Saves(written) /\ FileOf(file, written) /\ (iphase = "save" => Saving)
  BY DEF AnswerInv
<1>2. CASE UNCHANGED <<file, written>> /\ (iphase' = "save" => iphase = "save" /\ UNCHANGED <<idx, read, mixed, lost>>)
  <2>1. iphase' = "save" => Saving'
    BY <1>1, <1>2 DEF Saving
  <2> QED
    BY <1>1, <1>2, <2>1
<1>3. CASE Crawling \/ Querying \/ UNCHANGED vars
  <2>1. UNCHANGED <<file, written>>
    BY <1>3 DEF Crawling, Querying, QuerierNext, Open, ReadLine, EndOfIndex, End, ReadQuery, RankDoc, EndOfDocs,
                NextQuery, vars
  <2>2. UNCHANGED <<iphase, idx, read, mixed, lost>>
    BY <1>3 DEF Crawling, Querying, vars, indexer
  <2> QED
    BY <1>2, <2>1, <2>2
<1>4. CASE Indexing
  <2>1. CASE I!OpenIndex
    BY <2>1, OpenIndexSaves
  <2>2. CASE I!WriteIndex \/ I!WriteIndexFails
    <3>1. iphase' # "save"
      BY <2>2 DEF I!WriteIndex, I!WriteIndexFails, I!Exit
    <3> QED
      BY <2>2, <3>1, WriteIndexSaves
  <2>3. CASE \/ I!Start \/ I!LoadPage \/ I!ReadPart \/ I!ReadMore \/ I!EndRead \/ I!EndReadMixed
             \/ I!NoPageLoads \/ I!PageLoadFails \/ I!NextWord \/ I!NextWordLost \/ I!EndOfPage
             \/ I!EndOfPageLost \/ I!Crash \/ I!OpenIndexFails \/ I!Kill
    <3>1. UNCHANGED <<file, written>> /\ iphase' # "save"
      BY <2>3 DEF I!Start, I!LoadPage, I!ReadPart, I!ReadMore, I!EndRead, I!EndReadMixed, I!PageReturned,
                  I!NoPageLoads, I!PageLoadFails, I!EndOfPages, I!NextWord, I!NextWordLost, I!EndOfPage,
                  I!EndOfPageLost, I!NextPage, I!Crash, I!OpenIndexFails, I!Kill, I!Exit
    <3> QED
      BY <1>2, <3>1
  <2> QED
    BY <1>4, <2>1, <2>2, <2>3 DEF Indexing, IndexStep, NoFault, Fault
<1> QED
  BY <1>3, <1>4 DEF Next

\* The querier keeps what it has read of the file, and of what it was, as long as the file
\* is not replaced.
LEMMA LoadsStay ==
  ASSUME 2 * MaxPages + 1 <= LineMax, QueryInv, AnswerInv, [Next]_vars
  PROVE  Saves(source') /\ (phase' # "off" /\ ~replaced' => Loads(source)')
<1>1. Saves(written) /\ Saves(source) /\ FileOf(file, written) /\ (phase # "off" /\ ~replaced => Loads(source))
  BY DEF AnswerInv
<1>2. CASE UNCHANGED <<phase, locals, replaced>>
  <2>1. phase' = phase /\ source' = source /\ chunks' = chunks /\ gtab' = gtab /\ replaced' = replaced
    BY <1>2 DEF locals
  <2> QED
    BY <1>1, <2>1 DEF Loads
<1>4. CASE source' = source /\ replaced'
  BY <1>1, <1>4
<1>3. CASE QuerierNext /\ replaced' = (replaced /\ phase' # "off")
  <2>1. source' = source \/ source' = written
    BY <1>3 DEF QuerierNext, Open, ReadLine, EndOfIndex, End, ReadQuery, RankDoc, EndOfDocs, NextQuery, locals
  <2>2. Saves(source')
    BY <1>1, <2>1
  <2>3. CASE phase = "off"
    <3>1. CASE Open
      <4>1. PICK f, c, x, h : f = file /\ c = Chunks(f) /\ h = written /\ x = h.idx
        OBVIOUS
      <4>2. chunks' = c /\ gtab' = <<>> /\ source' = h /\ f # NoIndex
        BY <2>3, <3>1, <4>1 DEF Open, Chunks, QueryInv
      <4>3. Readable(x, DOMAIN Stumps)
        BY <1>1, <4>1, BoundedReadable DEF Saves
      <4>4. FileOk(f, x) /\ (h.whole => f = Lines(x))
        BY <1>1, <4>1, <4>2 DEF FileOf
      <4>5. Loading(c, <<>>, x) /\ (f = Lines(x) => LoadingAll(c, <<>>, x))
        BY <4>1, <4>3, <4>4, LoadingStarts
      <4>6. Loads(source)'
        BY <4>1, <4>2, <4>4, <4>5 DEF Loads
      <4> QED
        BY <2>2, <4>6
    <3>2. CASE ~Open
      <4>1. phase' = phase
        BY <1>3, <2>3, <3>2 DEF QuerierNext, Open, ReadLine, EndOfIndex, End, ReadQuery, RankDoc, EndOfDocs,
                                NextQuery
      <4> QED
        BY <2>2, <2>3, <4>1
    <3> QED
      BY <3>1, <3>2
  <2>4. CASE phase # "off" /\ phase' # "off" /\ ~replaced
    <3>1. PICK x : x = source.idx
      OBVIOUS
    <3>2. Loading(chunks, gtab, x) /\ (source.whole => LoadingAll(chunks, gtab, x))
      BY <1>1, <2>4, <3>1 DEF Loads
    <3>3. /\ Loading(chunks', gtab', x) /\ source' = source
          /\ LoadingAll(chunks, gtab, x) => LoadingAll(chunks', gtab', x)
      BY <1>3, <2>4, <3>2, LoadKeeps
    <3> QED
      BY <2>2, <3>1, <3>2, <3>3 DEF Loads
  <2> QED
    BY <1>3, <2>2, <2>3, <2>4
<1> QED
  <2>1. CASE Crawling \/ UNCHANGED vars
    <3>1. UNCHANGED <<phase, locals, replaced>>
      BY <2>1 DEF Crawling, vars, querier
    <3> QED
      BY <1>2, <3>1
  <2>2. CASE Querying
    BY <1>3, <2>2 DEF Querying
  <2>3. CASE Indexing
    <3>1. UNCHANGED <<phase, locals, replaced>> \/ (source' = source /\ replaced')
      BY <2>3 DEF Indexing, WhileLoaded, querier
    <3> QED
      BY <1>2, <1>4, <3>1
  <2> QED
    BY <2>1, <2>2, <2>3 DEF Next

\* Every step keeps the invariant of what is saved and read.
LEMMA AnswerKeeps ==
  ASSUME 2 * MaxPages + 1 <= LineMax, TseInv, DirInv, CountInv, CountInv', QueryInv, AnswerInv, [Next]_vars
  PROVE  AnswerInv'
<1>1. Bounded(idx')
  BY IndexStaysBounded DEF AnswerInv
<1> QED
  BY <1>1, FileStays, LoadsStay DEF AnswerInv

\* The querier runs as module Querier says, or not at all, or the file changes that it reads.
LEMMA TseQueryKeeps ==
  ASSUME QueryInv, [Next]_vars
  PROVE  QueryInv'
<1>1. CASE QuerierNext \/ UNCHANGED <<phase, locals>>
  BY <1>1, QueryKeeps
<1>2. CASE phase = "load" /\ UNCHANGED <<phase, source, gtab, query, seqs, docID, output>>
  BY <1>2 DEF QueryInv
<1> QED
  BY <1>1, <1>2 DEF Next, Crawling, Indexing, WhileLoaded, Querying, vars, querier

\* The parser takes the queries of the grammar, and no others, whatever goes on beside it.
THEOREM TseParses == Spec => []ParsesGrammar
<1>1. Init => QueryInv
  BY QueryStarts DEF Init
<1>2. QueryInv /\ [Next]_vars => QueryInv'
  BY TseQueryKeeps
<1>3. QueryInv => ParsesGrammar
  BY ParsedIsGrammar
<1> QED
  BY <1>1, <1>2, <1>3, PTL DEF Spec

\* The invariant of what is saved and read.
THEOREM AnswerInvariant ==
  ASSUME 2 * MaxPages + 1 <= LineMax
  PROVE  Spec => [](QueryInv /\ AnswerInv)
<1>1. Init => QueryInv /\ AnswerInv
  <2> SUFFICES ASSUME Init PROVE QueryInv /\ AnswerInv
    OBVIOUS
  <2>1. QueryInv
    BY QueryStarts DEF Init
  <2>2. /\ idx = <<>> /\ written = I!NothingWritten /\ source = written
        /\ file = NoIndex /\ iphase = "off" /\ phase = "off"
    BY DEF Init, I!Init, QuerierOff
  <2> QED
    BY <2>1, <2>2, NothingSaves DEF AnswerInv, FileOf
<1>2. TseInv /\ (DirInv /\ CountInv) /\ (DirInv /\ CountInv)' /\ (QueryInv /\ AnswerInv) /\ [Next]_vars
        => (QueryInv /\ AnswerInv)'
  BY AnswerKeeps, TseQueryKeeps
<1> QED
  BY <1>1, <1>2, TseInvariant, CountInvariant, PTL DEF Spec

\* The rank of a document in what the querier has read is its rank in the pages, or less.
LEMMA TotalsAreOfPages ==
  ASSUME 2 * MaxPages + 1 <= LineMax, TseInv, QueryInv, AnswerInv, phase \in {"rank", "answered"},
         ~replaced, seqs \notin NoQuery, NEW d \in DocIds \ {0}
  PROVE  /\ TotalOf(d) \in Int /\ TrueRank(d) \in Int /\ TotalOf(d) <= TrueRank(d)
         /\ source.whole /\ ~source.lost => (TrueRank(d) <= IntMax => TotalOf(d) = TrueRank(d))
<1>1. PICK h, x, t, more : /\ h = source /\ x = h.idx /\ t = Taken(query)
                           /\ more = [w \in Long |-> TrueCount(source.read, source.mixed, w, d)]
  OBVIOUS
<1>2. Saves(h) /\ Loads(h)
  BY <1>1 DEF AnswerInv
<1>3. Readable(x, DOMAIN Stumps)
  BY <1>1, <1>2, BoundedReadable DEF Saves
<1>4. TrueRank(d) = Rank(more, Alternatives(t))
  BY <1>1 DEF TrueRank, NoQuery
<1>5. ASSUME NEW w \in Long
      PROVE  /\ more[w] \in Nat /\ CountOf(x, w, d) <= more[w]
             /\ ~h.lost => CountOf(x, w, d) = more[w]
  <2>1. PICK r, m, ph : r = h.read /\ m = h.mixed /\ ph = "off"
    OBVIOUS
  <2>2. r \in Seq(Stored) /\ Htmls(m)
    BY <1>1, <1>2, <2>1 DEF TseInv, ReadTypes, Saves
  <2>7. ph = "words" => IsHtml(<<>>) /\ 0 \in 0..Len(<<>>)
    BY <2>1
  <2>3. SeenIn(ph, 0, <<>>, 0, r, m, w, d) \in 0..IntMax
    BY <2>2, <2>7, SeenType
  <2>4. TrueCount(r, m, w, d) \in 0..IntMax
    BY <2>1, <2>3 DEF SeenIn
  <2>5. more[w] = TrueCount(r, m, w, d)
    BY <1>1, <2>1
  <2>6. CountOf(x, w, d) \in 0..TrueCount(r, m, w, d) /\ (~h.lost => CountOf(x, w, d) = TrueCount(r, m, w, d))
    BY <1>1, <1>2, <2>1 DEF Saves
  <2> QED
    BY <2>4, <2>5, <2>6, IndexAssumption
<1>6. NotLess(more, x, d) /\ (~h.lost => NotMore(more, x, d))
  BY <1>1, <1>5 DEF NotLess, NotMore
<1>7. Loading(chunks, gtab, x) /\ (h.whole => LoadingAll(chunks, gtab, x))
  BY <1>1, <1>2 DEF Loads
<1> QED
  BY <1>1, <1>3, <1>4, <1>6, <1>7, AnsweredTotals

\* What is printed for a query are the pages that match it with the ranks that their words
\* give them, counted in what the indexer has read of the pages, if the index was complete
\* when it was opened, was not replaced before it was read, and the rank is an int; however
\* the index was made and torn, no other page is printed, and none with a higher rank.  An
\* index line of all pages has to fit the querier's buffer: without that, run querier_lines
\* shows, counts get lost.
THEOREM AnswersAreOfPages ==
  ASSUME 2 * MaxPages + 1 <= LineMax
  PROVE  Spec => []AnswersOfPages
<1>1. TseInv /\ QueryInv /\ AnswerInv => AnswersOfPages
  <2> SUFFICES ASSUME TseInv, QueryInv, AnswerInv, phase = "answered", ~replaced
               PROVE  /\ \A r \in output : r.rank \in 1..TrueRank(r.doc)
                      /\ source.whole /\ ~source.lost =>
                           \A d \in 1..(MAX_DOCS - 1) : TrueRank(d) \in 1..IntMax =>
                             {r.rank : r \in {r \in output : r.doc = d}} = {TrueRank(d)}
    BY DEF AnswersOfPages
  <2>1. CASE seqs \in NoQuery
    <3>1. output = {}
      BY <2>1 DEF QueryInv
    <3>2. \A d : TrueRank(d) = 0
      BY <2>1 DEF TrueRank, NoQuery
    <3> QED
      BY <3>1, <3>2
  <2>2. CASE seqs \notin NoQuery
    <3>1. Ranked /\ docID = MAX_DOCS /\ MAX_DOCS \in Nat /\ DocIds \ {0} = 1..(MAX_DOCS - 1)
      BY <2>2, QuerierAssumption DEF QueryInv, DocIds
    <3>2. ASSUME NEW d \in 1..(MAX_DOCS - 1)
          PROVE  /\ TotalOf(d) \in Int /\ TrueRank(d) \in Int /\ TotalOf(d) <= TrueRank(d)
                 /\ source.whole /\ ~source.lost => (TrueRank(d) <= IntMax => TotalOf(d) = TrueRank(d))
      <4>1. d \in DocIds \ {0}
        BY <3>1, <3>2
      <4> QED
        BY <2>2, <4>1, TotalsAreOfPages
    <3>3. ASSUME NEW r \in output
          PROVE  r.doc \in 1..(MAX_DOCS - 1) /\ r.rank = TotalOf(r.doc) /\ r.rank \in 1..TrueRank(r.doc)
      <4>1. r.doc \in 1..(MAX_DOCS - 1) /\ r.rank = TotalOf(r.doc) /\ r.rank > 0
        BY <3>1 DEF Ranked
      <4>2. r.rank \in Int /\ TrueRank(r.doc) \in Int /\ r.rank <= TrueRank(r.doc)
        BY <3>2, <4>1
      <4> QED
        BY <4>1, <4>2
    <3>4. ASSUME source.whole /\ ~source.lost, NEW d \in 1..(MAX_DOCS - 1), TrueRank(d) \in 1..IntMax
          PROVE  {r.rank : r \in {r \in output : r.doc = d}} = {TrueRank(d)}
      <4>1. TotalOf(d) = TrueRank(d) /\ TotalOf(d) > 0
        BY <3>2, <3>4, IndexAssumption
      <4>2. PICK q \in output : q.doc = d
        BY <3>1, <4>1 DEF Ranked
      <4>3. \A r \in output : r.doc = d => r.rank = TrueRank(d)
        BY <3>3, <4>1
      <4>4. PICK n : n = TrueRank(d)
        OBVIOUS
      <4> QED
        BY <4>2, <4>3, <4>4
    <3> QED
      BY <3>3, <3>4
  <2> QED
    BY <2>1, <2>2
<1> QED
  BY <1>1, TseInvariant, AnswerInvariant, PTL DEF Spec

\* A document that has none of the words has no rank.
LEMMA NoRank ==
  ASSUME NEW ss, AllFilled(ss), NEW count \in [Long -> Nat], \A w \in Long : count[w] = 0
  PROVE  Rank(count, ss) <= 0
<1>1. PICK S, n : S = Seq(Long) /\ ss \in Seq(S) /\ n \in Nat /\ n = Len(ss) /\ DOMAIN ss = 1..n
  BY LenProperties DEF AllFilled
<1>2. ASSUME NEW i \in 1..n PROVE LeastCount(count, ss[i]) = 0
  <2>1. PICK ws : ws = ss[i] /\ ws \in Seq(Long) /\ ws # <<>>
    BY <1>1, ElementOfSeq DEF AllFilled
  <2>2. Len(ws) \in Nat /\ Len(ws) # 0 /\ DOMAIN ws = 1..Len(ws)
    BY <2>1, LenProperties, EmptySeq
  <2>3. 1 \in DOMAIN ws
    BY <2>2
  <2>4. ws[1] \in Long
    BY <2>1, <2>2, <2>3, ElementOfSeq
  <2>5. ~(count[ws[1]] > 0)
    BY <2>4
  <2>6. LeastCount(count, ws) = 0
    BY <2>3, <2>5 DEF LeastCount
  <2> QED
    BY <2>1, <2>6
<1>3. \A i \in DOMAIN ss : LeastCount(count, ss[i]) \in Int
  BY <1>1, <1>2
<1>4. PICK g : Adds(g, n, 0, LeastCounts(count, ss)) /\ Rank(count, ss) = g[n]
  BY <1>1, <1>3, RankSteps
<1>5. PICK b : b = [i \in 1..n |-> 0]
  OBVIOUS
<1>6. PICK h : h = [i \in 0..n |-> 0]
  OBVIOUS
<1>7. Adds(h, n, 0, b)
  BY <1>1, <1>5, <1>6 DEF Adds
<1>8. PICK a : a = LeastCounts(count, ss)
  OBVIOUS
<1>9. \A i \in 1..n : a[i] <= b[i]
  BY <1>1, <1>2, <1>5, <1>8 DEF LeastCounts
<1>10. Adds(g, n, 0, a)
  BY <1>4, <1>8
<1>11. g[n] <= h[n]
  BY <1>1, <1>7, <1>9, <1>10, SumsCompare
<1> QED
  BY <1>1, <1>4, <1>6, <1>11

\* Only documents that have been read have a rank.
LEMMA RankedAreRead ==
  ASSUME QueryInv, phase \in {"rank", "answered"}, seqs \notin NoQuery, NEW d, TrueRank(d) > 0
  PROVE  d \in DOMAIN source.read
<1> SUFFICES ASSUME d \notin DOMAIN source.read PROVE FALSE
  OBVIOUS
<1>1. PICK t, more : t = Taken(query) /\ more = [w \in Long |-> TrueCount(source.read, source.mixed, w, d)]
  OBVIOUS
<1>2. TrueRank(d) = Rank(more, Alternatives(t))
  BY <1>1 DEF TrueRank, NoQuery
<1>3. more \in [Long -> Nat] /\ \A w \in Long : more[w] = 0
  BY <1>1 DEF TrueCount
<1>4. query \in Seq(Tokens) /\ seqs = Parsing(t)
  BY <1>1 DEF QueryInv
<1>5. AllFilled(seqs) /\ seqs = Alternatives(t)
  BY <1>1, <1>4, RankedQuery
<1>6. Rank(more, seqs) <= 0 /\ Rank(more, seqs) \in Int
  BY <1>3, <1>5, NoRank, ScoreIsRank
<1> QED
  BY <1>2, <1>5, <1>6

\* Only documents that have been read are printed.
LEMMA PrintedWasRead ==
  ASSUME 2 * MaxPages + 1 <= LineMax, TseInv, QueryInv, AnswerInv, [Next]_vars, ~replaced,
         NEW r \in output' \ output
  PROVE  r.doc \in DOMAIN source.read
<1>1. RankDoc
  BY DEF Next, Crawling, Indexing, WhileLoaded, Querying, QuerierNext, querier, vars, Open, ReadLine,
         EndOfIndex, End, ReadQuery, EndOfDocs, NextQuery, locals
<1>2. r.doc = docID /\ TotalOf(docID) > 0
  BY <1>1 DEF RankDoc, TotalOf
<1>3. /\ phase = "rank" /\ seqs \notin NoQuery /\ docID \in DocIds \ {0}
  BY <1>1, QuerierAssumption DEF RankDoc, QueryInv, DocIds
<1>4. TrueRank(docID) \in Int /\ TotalOf(docID) \in Int /\ TotalOf(docID) <= TrueRank(docID)
  BY <1>3, TotalsAreOfPages
<1>5. TrueRank(docID) > 0
  BY <1>2, <1>4
<1> QED
  BY <1>2, <1>3, <1>5, RankedAreRead

\* The URL printed for a document is that of the page whose words gave it its rank, or none,
\* unless a later crawl has opened its file since or the index was replaced while it was
\* read: no URL is printed beside the rank of another page.
THEOREM UrlsAreOfRanked ==
  ASSUME 2 * MaxPages + 1 <= LineMax
  PROVE  Spec => UrlOfRanked
<1>1. TseInv /\ QueryInv /\ AnswerInv /\ [Next]_vars =>
        [\A r \in output' \ output :
           LET indexed == source.read[r.doc]
           IN  ~replaced /\ pagedir[r.doc].by = indexed.by =>
                 r.url \in {indexed.by.page.url, Unknown}]_vars
  BY PrintedWasRead, PrintedUrl
<1> QED
  BY <1>1, TseInvariant, AnswerInvariant, PTL DEF Spec, UrlOfRanked

=============================================================================
