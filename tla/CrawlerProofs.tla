---------------------------- MODULE CrawlerProofs ---------------------------
(***************************************************************************)
(* Proofs about the sequential crawler, for every web and every depth      *)
(* limit: it works through the site level by level, so the depth of a page *)
(* is its distance from the seed.                                          *)
(***************************************************************************)
EXTENDS Crawler, Lemmas

\* The types, and where curr and pos are a page and a position in its links.
TypeInv ==
  /\ queue \in Seq(Page) /\ visited \subseteq Urls
  /\ id \in Nat /\ pos \in Nat /\ lost \in Nat
  /\ curr \in Page \cup {NoPage}
  /\ pc \in {"qget", "fetch", "scan", "exited"}
  /\ DOMAIN pagedir \subseteq Nat /\ \A i \in DOMAIN pagedir : pagedir[i] \in Page
  /\ crawled \subseteq Page /\ failed \subseteq Page
  /\ curr # NoPage <=> pc \in {"fetch", "scan"}
  /\ pc = "scan" => Scanned(curr) /\ pos <= Len(Links[curr.url])
  /\ pc = "exited" => queue = <<>>

\* The queue is sorted by depth and spans two levels at most; the page in work
\* is not below it, and what is done or saved is not below either.
Behind(p) ==
  /\ curr # NoPage => p.depth <= curr.depth
  /\ \A i \in DOMAIN queue : p.depth <= queue[i].depth
LevelInv ==
  /\ \A i, j \in DOMAIN queue :
       (i <= j => queue[i].depth <= queue[j].depth) /\ queue[j].depth <= queue[i].depth + 1
  /\ curr # NoPage => \A i \in DOMAIN queue :
       curr.depth <= queue[i].depth /\ queue[i].depth <= curr.depth + 1
  /\ \A p \in crawled \cup failed : Behind(p)
FileInv ==
  /\ \A i \in DOMAIN pagedir : i < id /\ Behind(pagedir[i])
  /\ IdsByDepth

\* All pages made so far, and a link to each of them but the seed.
Held == IF curr = NoPage THEN {} ELSE {curr}
Pages == InQueue(queue) \cup Held \cup crawled \cup failed
Retrieved == crawled \cup (IF pc = "scan" THEN {curr} ELSE {})
LinkedFrom(p, q) == Scanned(q) /\ p.depth = q.depth + 1 /\ p.url \in Children(q.url)
ReachInv ==
  /\ SeedPage \in Pages
  /\ \A p \in Pages : p = SeedPage \/ \E q \in Retrieved : LinkedFrom(p, q)

\* With memory, the table holds the URLs of the pages, no URL has two pages, and
\* the page of a link that was looked at is at most one level below it.
MetWithin(u, n) == \E p \in Pages : p.url = u /\ p.depth <= n
UrlInv ==
  /\ visited = {p.url : p \in Pages}
  /\ \A p, q \in Pages : p.url = q.url => p = q
  /\ NoDuplicate(queue) /\ InQueue(queue) \cap (Held \cup crawled \cup failed) = {}
  /\ Held \cap (crawled \cup failed) = {}
LinkInv ==
  /\ \A p \in crawled : Scanned(p) => \A u \in Children(p.url) : MetWithin(u, p.depth + 1)
  /\ pc = "scan" => \A i \in 1..pos : IsInternalURL(Links[curr.url][i]) =>
       MetWithin(Norm[Links[curr.url][i]], curr.depth + 1)
MemoryInv == lost = 0 => UrlInv /\ LinkInv

-----------------------------------------------------------------------------
\* A page has a URL and a depth, and its links are a list of URLs.
LEMMA PageType ==
  /\ \A p \in Page : p.url \in Urls /\ p.depth \in Nat /\ Links[p.url] \in Seq(Urls)
  /\ SeedPage \in Page
BY WebAssumption DEF Page, SeedPage

\* The next link leads to a page one level below the page in work.
LEMMA ChildType ==
  ASSUME TypeInv, pc = "scan", pos < Len(Links[curr.url])
  PROVE  /\ curr \in Page /\ curr # NoPage
         /\ pos + 1 \in DOMAIN Links[curr.url] /\ pos + 1 \in 1..Len(Links[curr.url])
         /\ Result \in Urls
         /\ Child \in Page /\ Child.url = Result /\ Child.depth = curr.depth + 1
         /\ IsInternalURL(Links[curr.url][pos + 1]) =>
              Result \in Children(curr.url) /\ LinkedFrom(Child, curr)
<1>1. curr \in Page /\ curr # NoPage
  BY DEF TypeInv
<1>2. /\ pos + 1 \in DOMAIN Links[curr.url] /\ pos + 1 \in 1..Len(Links[curr.url])
      /\ Links[curr.url][pos + 1] \in Urls
  BY <1>1, PageType DEF TypeInv
<1>3. Result \in Urls
  BY <1>2, WebAssumption DEF Result
<1>4. Child \in Page /\ Child.url = Result /\ Child.depth = curr.depth + 1
  BY <1>1, <1>3, PageType DEF Child, Page
<1>5. IsInternalURL(Links[curr.url][pos + 1]) => Result \in Children(curr.url)
  BY <1>2 DEF Result, Children
<1> QED
  BY <1>1, <1>2, <1>3, <1>4, <1>5 DEF LinkedFrom, TypeInv

\* main starts with the seed in the queue.
LEMMA InitType == Init => TypeInv
BY PageType, CrawlerAssumption, WebAssumption DEF Init, TypeInv

\* What the queue may be after a round of the loop over the links.
LEMMA NextURLQueue ==
  ASSUME TypeInv, NextURL
  PROVE  /\ queue' = queue \/ queue' = Append(queue, Child)
         /\ visited' = visited \/ visited' = visited \cup {Result}
         /\ lost' \in Nat /\ (lost' = 0 => lost = 0)
         /\ queue' # queue => IsInternalURL(Links[curr.url][pos + 1])
         /\ lost' = 0 /\ IsInternalURL(Links[curr.url][pos + 1]) =>
              \/ Result \in visited /\ queue' = queue /\ visited' = visited
              \/ /\ Result \notin visited /\ queue' = Append(queue, Child)
                 /\ visited' = visited \cup {Result}
         /\ lost' = 0 /\ ~IsInternalURL(Links[curr.url][pos + 1]) =>
              queue' = queue /\ visited' = visited
BY DEF NextURL, TypeInv

\* Every step keeps the types.
LEMMA StepType == TypeInv /\ [Next]_vars => TypeInv'
<1> SUFFICES ASSUME TypeInv, [Next]_vars PROVE TypeInv'
  OBVIOUS
<1> USE CrawlerAssumption DEF TypeInv
<1>1. CASE QGet
  <2>1. Head(queue) \in Page /\ Tail(queue) \in Seq(Page)
    BY <1>1, QueueType DEF QGet
  <2> QED
    BY <1>1, <2>1 DEF QGet
<1>2. CASE Exit
  BY <1>2 DEF Exit
<1>3. CASE FetchFails
  BY <1>3 DEF FetchFails, Continue
<1>4. CASE FetchAndSave
  <2>1. DOMAIN pagedir' \subseteq Nat /\ \A i \in DOMAIN pagedir' : pagedir'[i] \in Page
    BY <1>4 DEF FetchAndSave
  <2>2. CASE Scanned(curr)
    <3>1. Len(Links[curr.url]) \in Nat
      BY <1>4, PageType DEF FetchAndSave
    <3> QED
      BY <1>4, <2>1, <2>2, <3>1 DEF FetchAndSave
  <2>3. CASE ~Scanned(curr)
    BY <1>4, <2>1, <2>3 DEF FetchAndSave, Continue
  <2> QED
    BY <2>2, <2>3
<1>5. CASE NextURL
  <2>1. /\ Child \in Page /\ Result \in Urls
        /\ pos + 1 <= Len(Links[curr.url])
    BY <1>5, ChildType DEF NextURL
  <2>2. queue' \in Seq(Page) /\ visited' \subseteq Urls /\ lost' \in Nat
    BY <1>5, <2>1, NextURLQueue, QueueType, SMTT(30)
  <2> QED
    BY <1>5, <2>1, <2>2 DEF NextURL
<1>6. CASE EndOfLinks
  BY <1>6 DEF EndOfLinks, Continue
<1>7. CASE Exited \/ UNCHANGED vars
  BY <1>7 DEF Exited, vars
<1> QED
  BY <1>1, <1>2, <1>3, <1>4, <1>5, <1>6, <1>7 DEF Next

-----------------------------------------------------------------------------
(***************************************************************************)
(* The crawl goes level by level.                                          *)
(***************************************************************************)
\* What the head, the tail and a new last element of a queue are.
LEMMA QueueParts ==
  ASSUME NEW S, NEW q \in Seq(S)
  PROVE  /\ q # <<>> =>
              /\ 1 \in DOMAIN q /\ Head(q) = q[1]
              /\ \A i \in DOMAIN Tail(q) : i + 1 \in DOMAIN q /\ i \in Nat /\ Tail(q)[i] = q[i + 1]
         /\ \A p \in S : \A i \in DOMAIN Append(q, p) :
              \/ i \in DOMAIN q /\ i <= Len(q) /\ Append(q, p)[i] = q[i]
              \/ i = Len(q) + 1 /\ Append(q, p)[i] = p
         /\ \A i \in DOMAIN q : i \in Nat /\ i <= Len(q)
<1>1. ASSUME q # <<>>
      PROVE  /\ 1 \in DOMAIN q /\ Head(q) = q[1]
             /\ \A i \in DOMAIN Tail(q) : i + 1 \in DOMAIN q /\ i \in Nat /\ Tail(q)[i] = q[i + 1]
  BY <1>1
<1> QED
  BY <1>1

\* Every step keeps the queue sorted and what is done behind it.
LEMMA StepLevel == TypeInv /\ LevelInv /\ [Next]_vars => LevelInv'
<1> SUFFICES ASSUME TypeInv, LevelInv, [Next]_vars PROVE LevelInv'
  OBVIOUS
<1> USE CrawlerAssumption DEF TypeInv, LevelInv, Behind
<1>0. /\ \A i \in DOMAIN queue : queue[i] \in Page /\ queue[i].depth \in Nat
      /\ curr # NoPage => curr.depth \in Nat
      /\ \A p \in crawled \cup failed : p.depth \in Nat
  BY PageType
<1>1. CASE QGet
  <2>1. queue # <<>> /\ curr' = Head(queue) /\ queue' = Tail(queue) /\ UNCHANGED <<crawled, failed>>
    BY <1>1 DEF QGet
  <2>2. /\ 1 \in DOMAIN queue /\ curr' = queue[1]
        /\ \A i \in DOMAIN queue' : i + 1 \in DOMAIN queue /\ i \in Nat /\ queue'[i] = queue[i + 1]
    BY <2>1, QueueParts
  <2>3. \A i, j \in DOMAIN queue' :
          (i <= j => queue'[i].depth <= queue'[j].depth) /\ queue'[j].depth <= queue'[i].depth + 1
    BY <2>2
  <2>4. \A i \in DOMAIN queue' : curr'.depth <= queue'[i].depth /\ queue'[i].depth <= curr'.depth + 1
    BY <2>2
  <2>5. \A p \in crawled' \cup failed' :
          p.depth <= curr'.depth /\ \A i \in DOMAIN queue' : p.depth <= queue'[i].depth
    BY <2>1, <2>2
  <2> QED
    BY <2>3, <2>4, <2>5
<1>2. CASE Exit
  BY <1>2 DEF Exit
<1>3. CASE FetchFails
  BY <1>0, <1>3 DEF FetchFails, Continue
<1>4. CASE FetchAndSave
  <2>1. CASE Scanned(curr)
    BY <1>4, <2>1 DEF FetchAndSave
  <2>2. CASE ~Scanned(curr)
    BY <1>0, <1>4, <2>2 DEF FetchAndSave, Continue
  <2> QED
    BY <2>1, <2>2
<1>5. CASE NextURL
  <2>1. /\ curr' = curr /\ curr # NoPage /\ UNCHANGED <<crawled, failed>>
        /\ queue' = queue \/ queue' = Append(queue, Child)
        /\ Child \in Page /\ Child.depth = curr.depth + 1
    BY <1>5, ChildType, NextURLQueue DEF NextURL
  <2>2. CASE queue' = queue
    BY <2>1, <2>2
  <2>3. CASE queue' = Append(queue, Child)
    <3>1. \A i \in DOMAIN queue' :
            \/ i \in DOMAIN queue /\ i <= Len(queue) /\ queue'[i] = queue[i]
            \/ i = Len(queue) + 1 /\ queue'[i] = Child
      BY <2>1, <2>3, QueueParts
    <3>2. Len(queue) \in Nat /\ \A i \in DOMAIN queue : i \in Nat /\ i <= Len(queue)
      OBVIOUS
    <3>3. \A i, j \in DOMAIN queue' :
            (i <= j => queue'[i].depth <= queue'[j].depth) /\ queue'[j].depth <= queue'[i].depth + 1
      BY <1>0, <2>1, <3>1, <3>2, SMTT(30)
    <3>4. \A i \in DOMAIN queue' : curr.depth <= queue'[i].depth /\ queue'[i].depth <= curr.depth + 1
      BY <1>0, <2>1, <3>1
    <3>5. \A p \in crawled \cup failed :
            p.depth <= curr.depth /\ \A i \in DOMAIN queue' : p.depth <= queue'[i].depth
      BY <1>0, <2>1, <3>1
    <3> QED
      BY <2>1, <3>3, <3>4, <3>5
  <2> QED
    BY <2>1, <2>2, <2>3
<1>6. CASE EndOfLinks
  BY <1>0, <1>6 DEF EndOfLinks, Continue
<1>7. CASE Exited \/ UNCHANGED vars
  BY <1>7 DEF Exited, vars
<1> QED
  BY <1>1, <1>2, <1>3, <1>4, <1>5, <1>6, <1>7 DEF Next

\* A file gets a new id, and the page in work is not above any saved page.
LEMMA StepFile == TypeInv /\ LevelInv /\ FileInv /\ [Next]_vars => FileInv'
<1> SUFFICES ASSUME TypeInv, LevelInv, FileInv, [Next]_vars PROVE FileInv'
  OBVIOUS
<1> USE CrawlerAssumption DEF TypeInv, FileInv, IdsByDepth, Behind
<1>0. /\ \A i \in DOMAIN queue : queue[i] \in Page /\ queue[i].depth \in Nat
      /\ curr # NoPage => curr.depth \in Nat
      /\ \A i \in DOMAIN pagedir : pagedir[i].depth \in Nat /\ i \in Nat
  BY PageType
<1>1. CASE QGet
  <2>1. /\ 1 \in DOMAIN queue /\ curr' = queue[1] /\ pagedir' = pagedir /\ id' = id
        /\ \A i \in DOMAIN queue' : i + 1 \in DOMAIN queue /\ i \in Nat /\ queue'[i] = queue[i + 1]
    BY <1>1, QueueParts DEF QGet
  <2> QED
    BY <2>1
<1>2. CASE Exit
  BY <1>2 DEF Exit
<1>3. CASE FetchFails
  BY <1>3 DEF FetchFails, Continue
<1>4. CASE FetchAndSave
  <2>1. /\ curr # NoPage /\ id' = id + 1 /\ queue' = queue /\ curr' \in {curr, NoPage}
    BY <1>4 DEF FetchAndSave, Continue
  <2>2. ASSUME NEW i \in DOMAIN pagedir'
        PROVE  \/ i \in DOMAIN pagedir /\ pagedir'[i] = pagedir[i] /\ i < id
               \/ i = id /\ pagedir'[i] = curr
    <3>1. CASE pagedir' = pagedir
      BY <3>1
    <3>2. CASE pagedir' = [j \in DOMAIN pagedir \cup {id} |-> IF j = id THEN curr ELSE pagedir[j]]
      BY <3>2
    <3> QED
      BY <1>4, <3>1, <3>2 DEF FetchAndSave
  <2>3. \A i \in DOMAIN pagedir' : i < id' /\ pagedir'[i].depth <= curr.depth
    BY <1>0, <2>1, <2>2
  <2>4. \A i \in DOMAIN pagedir' : \A j \in DOMAIN queue : pagedir'[i].depth <= queue[j].depth
    BY <1>0, <2>1, <2>2 DEF LevelInv
  <2>5. \A i, j \in DOMAIN pagedir' : i < j => pagedir'[i].depth <= pagedir'[j].depth
    BY <1>0, <2>1, <2>2
  <2> QED
    BY <2>1, <2>3, <2>4, <2>5
<1>5. CASE NextURL
  <2>1. /\ curr' = curr /\ curr # NoPage /\ pagedir' = pagedir /\ id' = id
        /\ queue' = queue \/ queue' = Append(queue, Child)
        /\ Child \in Page /\ Child.depth = curr.depth + 1
    BY <1>5, ChildType, NextURLQueue DEF NextURL
  <2>2. \A i \in DOMAIN queue' : queue'[i] = Child \/ (i \in DOMAIN queue /\ queue'[i] = queue[i])
    BY <2>1, QueueParts
  <2> QED
    BY <1>0, <2>1, <2>2
<1>6. CASE EndOfLinks
  BY <1>6 DEF EndOfLinks, Continue
<1>7. CASE Exited \/ UNCHANGED vars
  BY <1>7 DEF Exited, vars
<1> QED
  BY <1>1, <1>2, <1>3, <1>4, <1>5, <1>6, <1>7 DEF Next

\* The page files are numbered by distance: a page with a smaller id is never
\* deeper than one with a larger id.
THEOREM FilesByDepth == Spec => []IdsByDepth
<1>1. Init => LevelInv /\ FileInv
  BY DEF Init, LevelInv, FileInv, IdsByDepth, SeedPage
<1>2. FileInv => IdsByDepth
  BY DEF FileInv
<1> QED
  BY <1>1, <1>2, InitType, StepType, StepLevel, StepFile, PTL DEF Spec

-----------------------------------------------------------------------------
(***************************************************************************)
(* Every page but the seed has a link from a retrieved page one level up.  *)
(***************************************************************************)
\* What a step does to the pages: one moves from the queue to curr, or from curr
\* to the finished ones, or a new one is queued.
PageTaken ==
  /\ queue # <<>> /\ curr = NoPage /\ queue' = Tail(queue) /\ curr' = Head(queue)
  /\ UNCHANGED <<visited, crawled, failed, lost>>
  /\ pc' = "fetch"

PageEnds ==
  /\ curr # NoPage /\ curr' = NoPage /\ pc' = "qget"
  /\ UNCHANGED <<queue, visited, lost>>
  /\ \/ /\ Scanned(curr) => pc = "scan" /\ pos = Len(Links[curr.url])
        /\ crawled' = crawled \cup {curr} /\ UNCHANGED failed
     \/ pc = "fetch" /\ failed' = failed \cup {curr} /\ UNCHANGED crawled

PageScanned ==
  /\ pc = "scan" /\ pc' = "scan" /\ pos < Len(Links[curr.url]) /\ pos' = pos + 1
  /\ NextURL
  /\ UNCHANGED <<curr, crawled, failed>>

PageStays ==
  /\ UNCHANGED <<queue, visited, curr, crawled, failed, lost>>
  /\ pc' # "scan" => pc # "scan"
  /\ pc' = "scan" => pos' = 0 \/ (pc = "scan" /\ pos' = pos)

\* Every step is one of these.
LEMMA PageMoves ==
  ASSUME TypeInv, [Next]_vars
  PROVE  PageTaken \/ PageEnds \/ PageScanned \/ PageStays
<1> USE DEF TypeInv
<1>1. CASE QGet
  BY <1>1 DEF QGet, PageTaken
<1>2. CASE Exit
  BY <1>2 DEF Exit, PageStays
<1>3. CASE FetchFails
  BY <1>3 DEF FetchFails, Continue, PageEnds
<1>4. CASE FetchAndSave
  <2>1. CASE Scanned(curr)
    BY <1>4, <2>1 DEF FetchAndSave, PageStays
  <2>2. CASE ~Scanned(curr)
    BY <1>4, <2>2 DEF FetchAndSave, Continue, PageEnds
  <2> QED
    BY <2>1, <2>2
<1>5. CASE NextURL
  BY <1>5 DEF NextURL, PageScanned
<1>6. CASE EndOfLinks
  BY <1>6 DEF EndOfLinks, Continue, PageEnds
<1>7. CASE Exited \/ UNCHANGED vars
  BY <1>7 DEF Exited, vars, PageStays
<1> QED
  BY <1>1, <1>2, <1>3, <1>4, <1>5, <1>6, <1>7 DEF Next

\* What that does to the set of all pages.
LEMMA StepPages ==
  ASSUME TypeInv, [Next]_vars
  PROVE  /\ PageTaken \/ PageEnds \/ PageStays => Pages' = Pages
         /\ PageScanned => Pages' = Pages \/ (queue' = Append(queue, Child) /\ Pages' = Pages \cup {Child})
<1> USE DEF Pages, Held
<1>1. ASSUME PageTaken PROVE Pages' = Pages
  <2>1. InQueue(queue) = InQueue(queue') \cup {curr'} /\ curr' # NoPage
    BY <1>1, QueuePages, QueueType, CrawlerAssumption DEF PageTaken, TypeInv
  <2> QED
    BY <1>1, <2>1 DEF PageTaken
<1>2. PageEnds => Pages' = Pages
  BY DEF PageEnds
<1>3. PageStays => Pages' = Pages
  BY DEF PageStays
<1>4. ASSUME PageScanned
      PROVE  Pages' = Pages \/ (queue' = Append(queue, Child) /\ Pages' = Pages \cup {Child})
  <2>1. queue' = queue \/ queue' = Append(queue, Child)
    BY <1>4, NextURLQueue DEF PageScanned
  <2>2. Child \in Page
    BY <1>4, ChildType DEF PageScanned
  <2>3. queue' = Append(queue, Child) => InQueue(queue') = InQueue(queue) \cup {Child}
    BY <2>2, QueuePages DEF TypeInv
  <2> QED
    BY <1>4, <2>1, <2>3 DEF PageScanned
<1> QED
  BY <1>1, <1>2, <1>3, <1>4

\* A page whose links were taken is never forgotten.
LEMMA StepReach == TypeInv /\ ReachInv /\ [Next]_vars => ReachInv'
<1> SUFFICES ASSUME TypeInv, ReachInv, [Next]_vars PROVE ReachInv'
  OBVIOUS
<1>1. Pages' = Pages \/ (PageScanned /\ queue' = Append(queue, Child) /\ Pages' = Pages \cup {Child})
  BY PageMoves, StepPages
<1>2. Retrieved \subseteq Retrieved'
  BY PageMoves DEF PageTaken, PageEnds, PageScanned, PageStays, Retrieved, TypeInv
<1>3. PageScanned /\ queue' = Append(queue, Child) => LinkedFrom(Child, curr) /\ curr \in Retrieved
  <2> SUFFICES ASSUME PageScanned, queue' = Append(queue, Child)
               PROVE  LinkedFrom(Child, curr) /\ curr \in Retrieved
    OBVIOUS
  <2>1. queue' # queue
    BY DEF TypeInv
  <2> QED
    BY <2>1, NextURLQueue, ChildType DEF PageScanned, Retrieved
<1>4. ASSUME NEW p \in Pages', p # SeedPage PROVE \E q \in Retrieved' : LinkedFrom(p, q)
  <2>1. p \in Pages \/ (p = Child /\ PageScanned /\ queue' = Append(queue, Child))
    BY <1>1
  <2> QED
    BY <1>2, <1>3, <1>4, <2>1 DEF ReachInv
<1> QED
  BY <1>1, <1>4 DEF ReachInv, LinkedFrom, SeedPage

-----------------------------------------------------------------------------
(***************************************************************************)
(* With memory, every link is followed, and at most one level down.        *)
(***************************************************************************)
\* No page is more than one level below the page in work.
LEMMA LevelsBelow ==
  ASSUME TypeInv, LevelInv, curr # NoPage
  PROVE  \A p \in Pages : p.depth <= curr.depth + 1
<1>1. \A p \in Pages : p \in Page /\ p.depth \in Nat
  BY PageType DEF Pages, Held, InQueue, TypeInv
<1>2. curr.depth \in Nat /\ \A p \in crawled \cup failed : p.depth <= curr.depth
  BY <1>1 DEF LevelInv, Behind, Pages, Held
<1>3. \A p \in InQueue(queue) : p.depth <= curr.depth + 1
  BY DEF InQueue, LevelInv
<1> QED
  BY <1>1, <1>2, <1>3 DEF Pages, Held

\* At the end of the links, the pages of all children are met.
LEMMA AllMet ==
  ASSUME TypeInv, LinkInv, pc = "scan", pos = Len(Links[curr.url])
  PROVE  \A u \in Children(curr.url) : MetWithin(u, curr.depth + 1)
<1>1. DOMAIN Links[curr.url] = 1..pos
  BY PageType DEF TypeInv
<1>2. \A i \in 1..pos : IsInternalURL(Links[curr.url][i]) =>
        MetWithin(Norm[Links[curr.url][i]], curr.depth + 1)
  BY DEF LinkInv
<1> HIDE DEF MetWithin
<1> QED
  BY <1>1, <1>2 DEF Children

\* Allocations do not become successful afterwards.
LEMMA LostStays == TypeInv /\ [Next]_vars /\ lost' = 0 => lost = 0
BY PageMoves, NextURLQueue DEF PageTaken, PageEnds, PageScanned, PageStays

\* A link on the page in work either leads to a page met before, or a page is
\* made for it.
LEMMA ScannedLink ==
  ASSUME TypeInv, LevelInv, UrlInv, lost' = 0, PageScanned
  PROVE  \/ /\ UNCHANGED <<queue, visited>> /\ Pages' = Pages
            /\ IsInternalURL(Links[curr.url][pos + 1]) => MetWithin(Result, curr.depth + 1)
         \/ /\ IsInternalURL(Links[curr.url][pos + 1]) /\ Result \notin visited
            /\ queue' = Append(queue, Child) /\ visited' = visited \cup {Result}
            /\ Pages' = Pages \cup {Child}
<1>1. CASE Result \in visited \/ ~IsInternalURL(Links[curr.url][pos + 1])
  <2>1. UNCHANGED <<queue, visited>>
    BY <1>1, NextURLQueue DEF PageScanned
  <2>2. Result \in visited => MetWithin(Result, curr.depth + 1)
    BY LevelsBelow DEF UrlInv, MetWithin, PageScanned, TypeInv
  <2>3. Pages' = Pages
    BY <2>1 DEF Pages, Held, PageScanned
  <2> QED
    BY <1>1, <2>1, <2>2, <2>3
<1>2. CASE Result \notin visited /\ IsInternalURL(Links[curr.url][pos + 1])
  <2>1. queue' = Append(queue, Child) /\ visited' = visited \cup {Result}
    BY <1>2, NextURLQueue DEF PageScanned
  <2>2. InQueue(queue') = InQueue(queue) \cup {Child}
    BY <2>1, ChildType, QueuePages DEF PageScanned, TypeInv
  <2>3. Pages' = Pages \cup {Child}
    BY <2>2 DEF Pages, Held, PageScanned
  <2> QED
    BY <1>2, <2>1, <2>3
<1> QED
  BY <1>1, <1>2

\* The table, the pages and the queue change together.
LEMMA StepUrls ==
  ASSUME TypeInv, LevelInv, UrlInv, lost' = 0, [Next]_vars
  PROVE  UrlInv'
<1> USE DEF UrlInv
<1>1. CASE PageTaken
  <2>1. Pages' = Pages /\ visited' = visited
    BY <1>1, StepPages DEF PageTaken
  <2>2. /\ NoDuplicate(queue') /\ UrlsOf(queue') = UrlsOf(queue) \ {Head(queue).url}
        /\ InQueue(queue) = InQueue(queue') \cup {Head(queue)}
    BY <1>1, QueueUrls, QueuePages DEF PageTaken, TypeInv
  <2>3. Head(queue) \notin InQueue(queue')
    BY <2>2 DEF InQueue, UrlsOf
  <2>4. Held' = {Head(queue)} /\ Held = {}
    BY <1>1, QueueType, CrawlerAssumption DEF PageTaken, Held, TypeInv
  <2> QED
    BY <1>1, <2>1, <2>2, <2>3, <2>4 DEF PageTaken
<1>2. CASE PageEnds
  <2>1. Pages' = Pages /\ visited' = visited /\ queue' = queue
    BY <1>2, StepPages DEF PageEnds
  <2>2. Held' = {} /\ Held' \cup crawled' \cup failed' = Held \cup crawled \cup failed
    BY <1>2 DEF PageEnds, Held
  <2> QED
    BY <2>1, <2>2
<1>3. CASE PageScanned
  <2>1. Held' = Held /\ crawled' = crawled /\ failed' = failed
    BY <1>3 DEF PageScanned, Held
  <2>2. CASE UNCHANGED <<queue, visited>> /\ Pages' = Pages
    BY <2>1, <2>2
  <2>3. CASE /\ Result \notin visited /\ visited' = visited \cup {Result}
             /\ queue' = Append(queue, Child) /\ Pages' = Pages \cup {Child}
    <3>1. Child \in Page /\ Child.url = Result
      BY <1>3, ChildType DEF PageScanned
    <3>2. UrlsOf(queue) \subseteq visited
      BY DEF UrlsOf, Pages, InQueue
    <3>3. NoDuplicate(queue') /\ InQueue(queue') = InQueue(queue) \cup {Child}
      BY <2>3, <3>1, <3>2, QueueUrls, QueuePages DEF TypeInv
    <3>4. \A p \in Pages : p.url # Child.url
      BY <2>3, <3>1
    <3>5. Child \notin Held \cup crawled \cup failed
      BY <3>4 DEF Pages
    <3> QED
      BY <2>1, <2>3, <3>1, <3>3, <3>4, <3>5
  <2> QED
    BY <1>3, <2>2, <2>3, ScannedLink
<1>4. CASE PageStays
  <2>1. Pages' = Pages /\ Held' = Held
    BY <1>4, StepPages DEF PageStays, Held
  <2> QED
    BY <1>4, <2>1 DEF PageStays
<1> QED
  BY <1>1, <1>2, <1>3, <1>4, PageMoves

\* No link is passed over.
LEMMA StepLinks ==
  ASSUME TypeInv, LevelInv, UrlInv, LinkInv, lost' = 0, [Next]_vars
  PROVE  LinkInv'
<1> DEFINE MetAfter(u, n) == \E p \in Pages' : p.url = u /\ p.depth <= n
<1>1. \A u, n : MetWithin(u, n) => MetAfter(u, n)
  BY PageMoves, StepPages DEF MetWithin
<1>2. ASSUME NEW p \in crawled', Scanned(p), NEW u \in Children(p.url)
      PROVE  MetAfter(u, p.depth + 1)
  <2>1. p \in crawled \/ (p = curr /\ pc = "scan" /\ pos = Len(Links[curr.url]))
    BY <1>2, PageMoves DEF PageTaken, PageEnds, PageScanned, PageStays
  <2>2. MetWithin(u, p.depth + 1)
    BY <1>2, <2>1, AllMet DEF LinkInv
  <2> QED
    BY <1>1, <2>2
<1>3. ASSUME pc' = "scan", NEW i \in 1..pos', IsInternalURL(Links[curr'.url][i])
      PROVE  MetAfter(Norm[Links[curr'.url][i]], curr'.depth + 1)
  <2>1. CASE PageScanned
    <3>1. curr' = curr /\ i \in 1..(pos + 1) /\ pos \in Nat
      BY <1>3, <2>1 DEF PageScanned, TypeInv
    <3>2. i \in 1..pos => MetWithin(Norm[Links[curr.url][i]], curr.depth + 1)
      BY <1>3, <2>1, <3>1 DEF LinkInv, PageScanned
    <3>3. i = pos + 1 => MetAfter(Norm[Links[curr.url][i]], curr.depth + 1)
      <4>1. Child \in Pages' => MetAfter(Result, curr.depth + 1)
        BY <2>1, <3>1, ChildType DEF MetWithin, PageScanned, Page
      <4>2. i = pos + 1 => MetWithin(Result, curr.depth + 1) \/ Child \in Pages'
        <5> HIDE DEF MetAfter
        <5> QED
          BY <1>3, <2>1, <3>1, ScannedLink
      <4> HIDE DEF MetAfter
      <4> QED
        BY <1>1, <4>1, <4>2 DEF Result
    <3> HIDE DEF MetAfter
    <3> QED
      BY <1>1, <3>1, <3>2, <3>3
  <2>2. CASE PageStays
    <3>1. curr' = curr /\ pc = "scan" /\ pos' = pos
      BY <1>3, <2>2 DEF PageStays
    <3>2. MetWithin(Norm[Links[curr.url][i]], curr.depth + 1)
      BY <1>3, <3>1 DEF LinkInv
    <3> QED
      BY <1>1, <3>1, <3>2
  <2>3. PageTaken \/ PageEnds => FALSE
    BY <1>3 DEF PageTaken, PageEnds
  <2> QED
    BY <2>1, <2>2, <2>3, PageMoves
<1> QED
  BY <1>2, <1>3 DEF LinkInv, MetWithin

\* The seed is the one page and the one known URL at first.
LEMMA InitMemory == Init => ReachInv /\ MemoryInv
<1> SUFFICES ASSUME Init PROVE ReachInv /\ UrlInv /\ LinkInv
  BY DEF MemoryInv
<1>1. InQueue(queue) = {SeedPage} /\ Held = {} /\ crawled = {} /\ failed = {}
  BY DEF Init, InQueue, Held
<1>2. Pages = {SeedPage}
  BY <1>1 DEF Pages
<1> QED
  BY <1>1, <1>2 DEF Init, ReachInv, UrlInv, LinkInv, NoDuplicate, SeedPage

\* As long as no allocation fails, every step keeps both.
LEMMA StepMemory == TypeInv /\ LevelInv /\ MemoryInv /\ [Next]_vars => MemoryInv'
BY LostStays, StepUrls, StepLinks DEF MemoryInv

\* The invariants of the crawl hold in every state.
THEOREM CrawlInvariant == Spec => [](TypeInv /\ LevelInv /\ ReachInv /\ MemoryInv)
<1>1. Init => LevelInv
  BY DEF Init, LevelInv, SeedPage
<1> QED
  BY <1>1, InitType, InitMemory, StepType, StepLevel, StepReach, StepMemory, PTL DEF Spec

-----------------------------------------------------------------------------
(***************************************************************************)
(* Depth is distance.                                                      *)
(***************************************************************************)
\* What the links of the pages of done lead to from the URLs in near.
Nearby(done, near) == near \cup UNION {Children(p.url) : p \in {q \in done : q.url \in near}}

\* Within is the iteration of Nearby from the seed.
LEMMA WithinSteps ==
  ASSUME NEW done \in SUBSET Page
  PROVE  /\ Within(done, 0) = {Seed}
         /\ \A n \in Nat : Within(done, n + 1) = Nearby(done, Within(done, n))
<1> DEFINE g == [near \in SUBSET Urls |-> Nearby(done, near)]
           IsNear(near) == near = [k \in Nat |->
             IF k = 0 THEN {Seed}
             ELSE near[k - 1] \cup
                  UNION {Children(p.url) : p \in {q \in done : q.url \in near[k - 1]}}]
           Near == CHOOSE near : IsNear(near)
<1>1. {Seed} \in SUBSET Urls /\ g \in [SUBSET Urls -> SUBSET Urls]
  <2>1. \A p \in Page : Children(p.url) \subseteq Urls
    BY WebAssumption DEF Page, Children
  <2> QED
    BY <2>1, WebAssumption DEF Nearby
<1>2. PICK f \in [Nat -> SUBSET Urls] : f[0] = {Seed} /\ \A n \in Nat : f[n + 1] = g[f[n]]
  <2> DEFINE T == SUBSET Urls
  <2>1. {Seed} \in T /\ g \in [T -> T]
    BY <1>1
  <2> HIDE DEF g, T
  <2>2. \E f \in [Nat -> T] : f[0] = {Seed} /\ \A n \in Nat : f[n + 1] = g[f[n]]
    BY <2>1, Iterates
  <2> QED
    BY <2>2 DEF T
<1>3. IsNear(f)
  <2>1. \A k \in Nat \ {0} : f[k] = Nearby(done, f[k - 1])
    <3>1. \A n \in Nat : f[n + 1] = Nearby(done, f[n])
      BY <1>2
    <3> HIDE DEF g
    <3> SUFFICES ASSUME NEW k \in Nat \ {0} PROVE f[k] = Nearby(done, f[k - 1])
      OBVIOUS
    <3>2. k - 1 \in Nat /\ (k - 1) + 1 = k
      OBVIOUS
    <3> QED
      BY <3>1, <3>2
  <2> QED
    BY <1>2, <2>1 DEF Nearby
<1>4. IsNear(Near)
  <2> HIDE DEF IsNear
  <2> QED
    BY <1>3
<1>5. \A n : Within(done, n) = Near[n]
  BY DEF Within
<1> HIDE DEF Near
<1>6. Near[0] = {Seed}
  BY <1>4
<1>7. ASSUME NEW n \in Nat PROVE Near[n + 1] = Nearby(done, Near[n])
  <2>1. n + 1 \in Nat /\ n + 1 # 0 /\ (n + 1) - 1 = n
    OBVIOUS
  <2>2. Near[n + 1] = Nearby(done, Near[(n + 1) - 1])
    BY <1>4, <2>1 DEF Nearby
  <2> QED
    BY <2>1, <2>2
<1> QED
  BY <1>5, <1>6, <1>7

\* The URLs of the pages down to a level.
UrlsTo(n) == {p.url : p \in {q \in Pages : q.depth <= n}}

\* When the crawl is over, the URLs within n links are those of the pages down to
\* level n, for every level that was to be scanned.
LEMMA WithinIsLevel ==
  ASSUME TypeInv, ReachInv, UrlInv, LinkInv, pc = "exited"
  PROVE  \A n \in Nat : n = 0 \/ n <= MaxDepth => Within(crawled, n) = UrlsTo(n)
<1> DEFINE K == {n \in Nat : n = 0 \/ n <= MaxDepth => Within(crawled, n) = UrlsTo(n)}
<1>1. /\ crawled \in SUBSET Page /\ crawled \subseteq Pages
      /\ Retrieved = crawled /\ MaxDepth \in Int
      /\ \A p \in Pages : p \in Page /\ p.depth \in Nat
  BY PageType, WebAssumption DEF TypeInv, Pages, Held, InQueue, Retrieved
<1>2. 0 \in K
  <2>1. \A p \in Pages : p.depth <= 0 => p = SeedPage
    BY <1>1 DEF ReachInv, LinkedFrom
  <2>2. SeedPage \in Pages /\ SeedPage.depth <= 0 /\ SeedPage.url = Seed
    BY DEF ReachInv, SeedPage
  <2>3. UrlsTo(0) = {Seed}
    BY <2>1, <2>2 DEF UrlsTo
  <2> QED
    BY <1>1, <2>3, WithinSteps
<1>3. ASSUME NEW n \in Nat, n \in K PROVE n + 1 \in K
  <2> SUFFICES ASSUME n + 1 <= MaxDepth PROVE Within(crawled, n + 1) = UrlsTo(n + 1)
    OBVIOUS
  <2>1. Within(crawled, n + 1) = Nearby(crawled, UrlsTo(n))
    <3>1. Within(crawled, n) = UrlsTo(n)
      BY <1>1, <1>3
    <3> QED
      BY <1>1, <3>1, WithinSteps
  <2>2. ASSUME NEW u \in Nearby(crawled, UrlsTo(n)) PROVE u \in UrlsTo(n + 1)
    <3>1. CASE u \in UrlsTo(n)
      BY <1>1, <3>1 DEF UrlsTo
    <3>2. CASE u \notin UrlsTo(n)
      <4>1. PICK p \in crawled : p.url \in UrlsTo(n) /\ u \in Children(p.url)
        BY <2>2, <3>2 DEF Nearby
      <4>2. p.depth <= n
        BY <1>1, <4>1 DEF UrlsTo, UrlInv
      <4>3. Scanned(p)
        BY <1>1, <4>1, <4>2 DEF Scanned
      <4>4. PICK r \in Pages : r.url = u /\ r.depth <= p.depth + 1
        BY <4>1, <4>3 DEF LinkInv, MetWithin
      <4>5. r.depth <= n + 1
        BY <1>1, <4>1, <4>2, <4>4
      <4> QED
        BY <4>4, <4>5 DEF UrlsTo
    <3> QED
      BY <3>1, <3>2
  <2>3. ASSUME NEW p \in Pages, p.depth <= n + 1
        PROVE  p.url \in Nearby(crawled, UrlsTo(n))
    <3>1. CASE p.depth <= n
      BY <3>1 DEF UrlsTo, Nearby
    <3>2. CASE p.depth = n + 1
      <4>1. p # SeedPage
        BY <3>2 DEF SeedPage
      <4>2. PICK q \in crawled : LinkedFrom(p, q)
        BY <1>1, <4>1 DEF ReachInv
      <4>3. q \in Pages /\ q.depth <= n
        BY <1>1, <3>2, <4>2 DEF LinkedFrom
      <4>4. q.url \in UrlsTo(n)
        BY <4>3 DEF UrlsTo
      <4> QED
        BY <4>2, <4>4 DEF Nearby, LinkedFrom
    <3> QED
      BY <1>1, <2>3, <3>1, <3>2
  <2> QED
    BY <2>1, <2>2, <2>3 DEF UrlsTo
<1>4. \A n \in Nat : n \in K
  <2> HIDE DEF K
  <2> QED
    BY <1>2, <1>3, SetInduction
<1> QED
  BY <1>4

\* When the crawl is over, the table holds exactly the URLs within MaxDepth links of
\* the seed, and the depth of every page is the length of the shortest way to it.
THEOREM DepthIsDistance == Spec => []ShortestDepth
<1>1. TypeInv /\ ReachInv /\ MemoryInv => ShortestDepth
  <2> SUFFICES ASSUME TypeInv, ReachInv, UrlInv, LinkInv, pc = "exited"
               PROVE  /\ MaxDepth >= 0 => visited = Within(crawled, MaxDepth)
                      /\ \A p \in crawled \cup failed :
                           /\ p.url \in Within(crawled, p.depth)
                           /\ p.depth > 0 => p.url \notin Within(crawled, p.depth - 1)
    BY DEF MemoryInv, ShortestDepth
  <2>1. Retrieved = crawled /\ crawled \cup failed \subseteq Pages
    BY DEF Retrieved, Pages
  <2>2. ASSUME NEW p \in Pages
        PROVE  p \in Page /\ p.depth \in Nat /\ (p.depth = 0 \/ p.depth <= MaxDepth)
    <3>1. p \in Page /\ p.depth \in Nat
      BY PageType DEF TypeInv, Pages, Held, InQueue
    <3>2. p # SeedPage => \E q \in crawled : q.depth < MaxDepth /\ p.depth = q.depth + 1
      BY <2>1 DEF ReachInv, LinkedFrom, Scanned
    <3>3. \A q \in crawled : q.depth \in Nat
      BY PageType DEF TypeInv
    <3> QED
      BY <3>1, <3>2, <3>3, WebAssumption DEF SeedPage
  <2>3. MaxDepth >= 0 => visited = Within(crawled, MaxDepth)
    <3> SUFFICES ASSUME MaxDepth >= 0 PROVE visited = Within(crawled, MaxDepth)
      OBVIOUS
    <3>1. MaxDepth \in Nat
      BY WebAssumption
    <3>2. visited = UrlsTo(MaxDepth)
      BY <2>2, <3>1 DEF UrlInv, UrlsTo
    <3> QED
      BY <3>1, <3>2, WithinIsLevel
  <2>4. ASSUME NEW p \in crawled \cup failed
        PROVE  /\ p.url \in Within(crawled, p.depth)
               /\ p.depth > 0 => p.url \notin Within(crawled, p.depth - 1)
    <3>1. p \in Pages /\ p.depth \in Nat /\ (p.depth = 0 \/ p.depth <= MaxDepth)
      BY <2>1, <2>2
    <3>2. p.url \in UrlsTo(p.depth)
      BY <3>1 DEF UrlsTo
    <3>3. p.depth > 0 => p.url \notin UrlsTo(p.depth - 1)
      BY <2>2, <3>1 DEF UrlsTo, UrlInv
    <3>4. p.depth > 0 => p.depth - 1 \in Nat /\ (p.depth - 1 = 0 \/ p.depth - 1 <= MaxDepth)
      BY <3>1, WebAssumption
    <3> QED
      BY <3>1, <3>2, <3>3, <3>4, WithinIsLevel
  <2> QED
    BY <2>3, <2>4
<1> QED
  BY <1>1, CrawlInvariant, PTL

-----------------------------------------------------------------------------
(***************************************************************************)
(* Every step is a step of Crawl, or changes nothing there.                *)
(***************************************************************************)
\* What is put aside has all its links in the table, and what is new is a link of
\* the page in work.
LEMMA StepCrawl ==
  ASSUME TypeInv, LevelInv, UrlInv, LinkInv, [Next]_vars, lost' = 0
  PROVE  Abstract!Next \/ UNCHANGED Abstract!vars
<1>0. Frontier = InQueue(queue) \cup Held /\ Frontier' = InQueue(queue') \cup Held'
  BY DEF Frontier, InQueue, Held
<1> USE DEF Abstract!Scanned, Scanned, Abstract!Children, Children,
            Abstract!IsInternalURL, IsInternalURL
<1>1. CASE PageTaken
  <2>1. InQueue(queue) = InQueue(queue') \cup {Head(queue)} /\ Head(queue) # NoPage
    BY <1>1, QueuePages, QueueType, CrawlerAssumption DEF PageTaken, TypeInv
  <2>2. Frontier' = Frontier
    BY <1>0, <1>1, <2>1 DEF PageTaken, Held
  <2> QED
    BY <1>1, <2>2 DEF PageTaken, Abstract!vars
<1>2. CASE PageEnds
  <2>1. /\ curr \in Frontier /\ Frontier' = Frontier \ {curr}
        /\ visited' = visited
    BY <1>0, <1>2 DEF PageEnds, Held, UrlInv
  <2>2. CASE crawled' = crawled \cup {curr} /\ failed' = failed
    <3>1. Scanned(curr) => Children(curr.url) \subseteq visited
      <4>1. \A u, n : MetWithin(u, n) => u \in visited
        BY DEF MetWithin, UrlInv
      <4>2. ASSUME Scanned(curr)
            PROVE  \/ pc = "scan" /\ pos = Len(Links[curr.url])
                   \/ curr \in crawled
        BY <1>2, <2>2, <4>2 DEF PageEnds
      <4> HIDE DEF MetWithin, Children, Scanned
      <4> QED
        BY <4>1, <4>2, AllMet DEF LinkInv
    <3>2. Abstract!FinishPage(curr)
      BY <2>1, <2>2, <3>1 DEF Abstract!FinishPage
    <3> QED
      BY <2>1, <3>2 DEF Abstract!Next, Abstract!Step
  <2>3. CASE failed' = failed \cup {curr} /\ crawled' = crawled
    <3>1. Abstract!FailPage(curr)
      BY <2>1, <2>3 DEF Abstract!FailPage
    <3> QED
      BY <2>1, <3>1 DEF Abstract!Next, Abstract!Step
  <2> QED
    BY <1>2, <2>2, <2>3 DEF PageEnds
<1>3. CASE PageScanned
  <2>1. /\ Child \in Page /\ Result \in Urls /\ curr \in Frontier /\ Held' = Held
        /\ UNCHANGED <<crawled, failed>>
    BY <1>0, <1>3, ChildType DEF PageScanned, Held
  <2>2. CASE UNCHANGED <<queue, visited>>
    BY <1>0, <2>1, <2>2 DEF Abstract!vars
  <2>3. CASE /\ IsInternalURL(Links[curr.url][pos + 1]) /\ Result \notin visited
             /\ queue' = Append(queue, Child) /\ visited' = visited \cup {Result}
    <3>1. Result \in Children(curr.url) /\ Scanned(curr)
      <4> HIDE DEF Children, Scanned, IsInternalURL
      <4> QED
        BY <1>3, <2>3, ChildType DEF PageScanned, TypeInv
    <3>2. Frontier' = Frontier \cup {Child}
      BY <1>0, <2>1, <2>3, QueuePages DEF TypeInv
    <3>3. Abstract!Discover(curr, Result)
      BY <2>1, <2>3, <3>1, <3>2 DEF Abstract!Discover, Child
    <3> QED
      BY <2>1, <3>3 DEF Abstract!Next, Abstract!Step
  <2> QED
    BY <1>3, <2>2, <2>3, ScannedLink
<1>4. CASE PageStays
  BY <1>0, <1>4 DEF PageStays, Held, Abstract!vars
<1> QED
  BY <1>1, <1>2, <1>3, <1>4, PageMoves

\* As long as no allocation fails, the sequential crawler takes the steps of the
\* crawl of module Crawl and no other.
THEOREM CrawlerCrawls ==
  Spec => /\ Abstract!Init
          /\ [][lost' = 0 => Abstract!Next \/ UNCHANGED Abstract!vars]_vars
<1>1. Init => Abstract!Init
  BY DEF Init, Abstract!Init, Abstract!SeedPage, SeedPage, Frontier
<1>2. TypeInv /\ LevelInv /\ MemoryInv /\ [Next]_vars =>
        [lost' = 0 => Abstract!Next \/ UNCHANGED Abstract!vars]_vars
  BY StepCrawl, LostStays DEF MemoryInv
<1> QED
  BY <1>1, <1>2, CrawlInvariant, PTL DEF Spec

=============================================================================
