--------------------------- MODULE TCrawlerProofs ---------------------------
(***************************************************************************)
(* Proofs about the multi-threaded crawler, for every number of threads,   *)
(* every web and every depth limit.                                        *)
(***************************************************************************)
EXTENDS TCrawler, Lemmas

\* A mutex is held exactly inside the critical section that needs it over two
\* steps, and what its holder read is still the value of the shared variable.
LockInv ==
  \A t \in Threads :
    /\ active_mutex = t <=> pc[t] \in {"activating", "deactivating"}
    /\ id_mutex = t <=> pc[t] = "setid"
    /\ hash_mutex = t <=> pc[t] = "hput"
    /\ pc[t] \in {"activating", "deactivating"} => reg[t] = active_threads
    /\ pc[t] = "setid" => reg[t] = page_id
    /\ pc[t] = "save" => reg[t] \in Nat

\* A thread holds a page exactly in the labels of Holding, and in the loop over
\* the links pos is a position of the page's list.
PageInv ==
  \A t \in Threads :
    /\ pc[t] \in Holding <=> curr[t] # NoPage
    /\ pc[t] = "scan" => pos[t] \in 0..Len(PageLinks(t))
    /\ pc[t] \in {"hsearch", "hput", "qput"} =>
         pos[t] \in 1..Len(PageLinks(t)) /\ IsInternalURL(PageLinks(t)[pos[t]])
    /\ pc[t] \in {"scan", "hsearch", "hput", "qput"} => Scanned(curr[t])

CoreInv == TypeOK /\ LockInv /\ PageInv

USE DEF At, Goto

\* A page has a URL and a depth, its links are a list of URLs, and the seed is a page.
LEMMA PageType ==
  /\ \A p \in Page : p.url \in Urls /\ p.depth \in Nat
  /\ \A p \in Page : Links[p.url] \in Seq(Urls)
  /\ SeedPage \in Page
BY WebAssumption DEF Page, SeedPage

\* The URL taken from the list is a URL, so the child is a page.
LEMMA ResultType ==
  ASSUME CoreInv, NEW t \in Threads, pc[t] \in {"hsearch", "hput", "qput"}
  PROVE  /\ curr[t] \in Page
         /\ Result(t) \in Urls
         /\ Norm[Result(t)] = Result(t)
         /\ Child(t) \in Page
<1>1. curr[t] \in Page
  BY DEF CoreInv, TypeOK, PageInv, Holding
<1>2. PageLinks(t) \in Seq(Urls) /\ pos[t] \in 1..Len(PageLinks(t))
  BY <1>1, PageType DEF CoreInv, PageInv, PageLinks
<1>3. Result(t) \in Urls /\ Norm[Result(t)] = Result(t)
  BY <1>2, WebAssumption DEF Result
<1> QED
  BY <1>1, <1>3, PageType DEF Child, Page

\* No thread is born yet and no mutex held when main starts.
LEMMA InitCore == Init => CoreInv
<1> SUFFICES ASSUME Init PROVE CoreInv
  OBVIOUS
<1>1. TypeOK
  BY PageType, ThreadAssumption, WebAssumption DEF Init, TypeOK, Labels
<1>2. LockInv
  BY ThreadAssumption DEF Init, LockInv
<1>3. PageInv
  BY ThreadAssumption DEF Init, PageInv, Holding
<1> QED
  BY <1>1, <1>2, <1>3 DEF CoreInv

\* Every step keeps the mutexes exclusive and what was read under them current.
LEMMA StepLock == CoreInv /\ [Next]_vars => LockInv'
<1> SUFFICES ASSUME CoreInv, [Next]_vars PROVE LockInv'
  OBVIOUS
<1> USE ThreadAssumption DEF vars, shared, mutexes, locals, process, outcome, CoreInv, TypeOK, LockInv
<1>1. ASSUME NEW t \in Threads, Create(t) PROVE LockInv'
  BY <1>1 DEF Create
<1>2. ASSUME NEW t \in Threads, QGet(t) PROVE LockInv'
  BY <1>2 DEF QGet
<1>3. ASSUME NEW t \in Threads, CheckActive(t) PROVE LockInv'
  BY <1>3 DEF CheckActive
<1>4. ASSUME NEW t \in Threads, Activate(t) PROVE LockInv'
  BY <1>4 DEF Activate, ReadActive, WriteActive
<1>5. ASSUME NEW t \in Threads, Deactivate(t) PROVE LockInv'
  BY <1>5 DEF Deactivate, ReadActive, WriteActive
<1>6. ASSUME NEW t \in Threads, Fetch(t) PROVE LockInv'
  BY <1>6 DEF Fetch
<1>7. ASSUME NEW t \in Threads, FetchFails(t) PROVE LockInv'
  BY <1>7 DEF FetchFails
<1>8. ASSUME NEW t \in Threads, ReadId(t) PROVE LockInv'
  BY <1>8 DEF ReadId
<1>9. ASSUME NEW t \in Threads, WriteId(t) PROVE LockInv'
  BY <1>9 DEF WriteId
<1>10. ASSUME NEW t \in Threads, Save(t) PROVE LockInv'
  BY <1>10 DEF Save
<1>11. ASSUME NEW t \in Threads, NextURL(t) PROVE LockInv'
  BY <1>11 DEF NextURL
<1>12. ASSUME NEW t \in Threads, EndOfLinks(t) PROVE LockInv'
  BY <1>12 DEF EndOfLinks
<1>13. ASSUME NEW t \in Threads, HSearch(t) PROVE LockInv'
  <2>1. CASE Result(t) \in visited
    BY <1>13, <2>1 DEF HSearch
  <2>2. CASE Result(t) \notin visited
    BY <1>13, <2>2 DEF HSearch
  <2> QED
    BY <2>1, <2>2
<1>14. ASSUME NEW t \in Threads, HPut(t) PROVE LockInv'
  BY <1>14 DEF HPut, Lose
<1>15. ASSUME NEW t \in Threads, QPut(t) PROVE LockInv'
  BY <1>15 DEF QPut, Lose
<1>16. CASE Join
  BY <1>16 DEF Join
<1>17. CASE Exited
  BY <1>17 DEF Exited
<1>18. CASE UNCHANGED vars
  BY <1>18
<1> QED
  BY <1>1, <1>2, <1>3, <1>4, <1>5, <1>6, <1>7, <1>8, <1>9, <1>10, <1>11, <1>12, <1>13, <1>14, <1>15, <1>16, <1>17, <1>18 DEF Next, ThreadStep

\* Every step keeps the pages with the threads that work on them.
LEMMA StepPage == CoreInv /\ [Next]_vars => PageInv'
<1> SUFFICES ASSUME CoreInv, [Next]_vars PROVE PageInv'
  OBVIOUS
<1> USE ThreadAssumption, PageType DEF vars, shared, mutexes, locals, process, outcome, CoreInv, TypeOK, PageInv, Holding, PageLinks
<1>1. ASSUME NEW t \in Threads, Create(t) PROVE PageInv'
  BY <1>1 DEF Create
<1>2. ASSUME NEW t \in Threads, QGet(t) PROVE PageInv'
  BY <1>2, SMTT(30) DEF QGet
<1>3. ASSUME NEW t \in Threads, CheckActive(t) PROVE PageInv'
  BY <1>3 DEF CheckActive
<1>4. ASSUME NEW t \in Threads, Activate(t) PROVE PageInv'
  BY <1>4 DEF Activate, ReadActive, WriteActive
<1>5. ASSUME NEW t \in Threads, Deactivate(t) PROVE PageInv'
  BY <1>5 DEF Deactivate, ReadActive, WriteActive
<1>6. ASSUME NEW t \in Threads, Fetch(t) PROVE PageInv'
  BY <1>6 DEF Fetch
<1>7. ASSUME NEW t \in Threads, FetchFails(t) PROVE PageInv'
  BY <1>7 DEF FetchFails, Delete
<1>8. ASSUME NEW t \in Threads, ReadId(t) PROVE PageInv'
  BY <1>8 DEF ReadId
<1>9. ASSUME NEW t \in Threads, WriteId(t) PROVE PageInv'
  BY <1>9 DEF WriteId
<1>10. ASSUME NEW t \in Threads, Save(t) PROVE PageInv'
  <2>1. CASE Scanned(curr[t])
    BY <1>10, <2>1, SMTT(30) DEF Save
  <2>2. CASE ~Scanned(curr[t])
    BY <1>10, <2>2, SMTT(30) DEF Save, Delete
  <2> QED
    BY <2>1, <2>2
<1>11. ASSUME NEW t \in Threads, NextURL(t) PROVE PageInv'
  BY <1>11 DEF NextURL
<1>12. ASSUME NEW t \in Threads, EndOfLinks(t) PROVE PageInv'
  BY <1>12 DEF EndOfLinks, Delete
<1>13. ASSUME NEW t \in Threads, HSearch(t) PROVE PageInv'
  BY <1>13 DEF HSearch
<1>14. ASSUME NEW t \in Threads, HPut(t) PROVE PageInv'
  BY <1>14 DEF HPut, Lose
<1>15. ASSUME NEW t \in Threads, QPut(t) PROVE PageInv'
  BY <1>15 DEF QPut, Lose
<1>16. CASE Join
  BY <1>16 DEF Join
<1>17. CASE Exited
  BY <1>17 DEF Exited
<1>18. CASE UNCHANGED vars
  BY <1>18
<1> QED
  BY <1>1, <1>2, <1>3, <1>4, <1>5, <1>6, <1>7, <1>8, <1>9, <1>10, <1>11, <1>12, <1>13, <1>14, <1>15, <1>16, <1>17, <1>18 DEF Next, ThreadStep

\* Every step keeps the types.
LEMMA StepType == CoreInv /\ [Next]_vars => TypeOK'
<1> SUFFICES ASSUME CoreInv, [Next]_vars PROVE TypeOK'
  OBVIOUS
<1> USE DEF vars, shared, mutexes, locals, process, outcome, CoreInv, TypeOK, Labels
<1>1. ASSUME NEW t \in Threads, Create(t) PROVE TypeOK'
  BY <1>1 DEF Create
<1>2. ASSUME NEW t \in Threads, QGet(t) PROVE TypeOK'
  <2>1. queue # <<>> => Head(queue) \in Page /\ Tail(queue) \in Seq(Page)
    BY QueueType
  <2>2. queue' \in Seq(Page) /\ curr' \in [Threads -> Page \cup {NoPage}]
    BY <1>2, <2>1 DEF QGet
  <2>3. pc' \in [Threads -> Labels]
    BY <1>2 DEF QGet
  <2> QED
    BY <1>2, <2>2, <2>3 DEF QGet
<1>3. ASSUME NEW t \in Threads, CheckActive(t) PROVE TypeOK'
  BY <1>3 DEF CheckActive
<1>4. ASSUME NEW t \in Threads, Activate(t) PROVE TypeOK'
  <2>1. CASE ReadActive(t, "activate", "activating")
    BY <2>1 DEF ReadActive
  <2>2. CASE WriteActive(t, "activating", "fetch", 1)
    <3>1. reg[t] \in Int /\ active_threads' \in Int
      BY <2>2 DEF WriteActive
    <3> QED
      BY <2>2, <3>1 DEF WriteActive
  <2> QED
    BY <1>4, <2>1, <2>2 DEF Activate
<1>5. ASSUME NEW t \in Threads, Deactivate(t) PROVE TypeOK'
  <2>1. CASE ReadActive(t, "deactivate", "deactivating")
    BY <2>1 DEF ReadActive
  <2>2. CASE WriteActive(t, "deactivating", "qget", -1)
    <3>1. reg[t] \in Int /\ active_threads' \in Int
      BY <2>2 DEF WriteActive
    <3> QED
      BY <2>2, <3>1 DEF WriteActive
  <2> QED
    BY <1>5, <2>1, <2>2 DEF Deactivate
<1>6. ASSUME NEW t \in Threads, Fetch(t) PROVE TypeOK'
  BY <1>6 DEF Fetch
<1>7. ASSUME NEW t \in Threads, FetchFails(t) PROVE TypeOK'
  BY <1>7 DEF FetchFails, Delete, PageInv, Holding
<1>8. ASSUME NEW t \in Threads, ReadId(t) PROVE TypeOK'
  BY <1>8 DEF ReadId
<1>9. ASSUME NEW t \in Threads, WriteId(t) PROVE TypeOK'
  BY <1>9 DEF WriteId, LockInv
<1>10. ASSUME NEW t \in Threads, Save(t) PROVE TypeOK'
  <2>1. curr[t] \in Page /\ reg[t] \in Nat
    BY <1>10 DEF Save, LockInv, PageInv, Holding
  <2>2. DOMAIN pagedir' \subseteq Nat /\ \A i \in DOMAIN pagedir' : pagedir'[i] \in Page
    BY <1>10, <2>1 DEF Save, WriteFile
  <2>3. curr' \in [Threads -> Page \cup {NoPage}]
    <3>1. curr' = curr \/ curr' = [curr EXCEPT ![t] = NoPage]
      BY <1>10 DEF Save, Delete
    <3> QED
      BY <3>1
  <2>4. pos' \in [Threads -> Nat]
    <3>1. pos' = pos \/ pos' = [pos EXCEPT ![t] = 0]
      BY <1>10 DEF Save
    <3> QED
      BY <3>1, 0 \in Nat
  <2>5. pc' \in [Threads -> Labels] /\ crawled' \subseteq Page
    BY <1>10, <2>1 DEF Save
  <2>6. UNCHANGED <<shared, mutexes, reg, process, failed, lost>>
    BY <1>10 DEF Save
  <2> QED
    BY <2>2, <2>3, <2>4, <2>5, <2>6
<1>11. ASSUME NEW t \in Threads, NextURL(t) PROVE TypeOK'
  BY <1>11 DEF NextURL
<1>12. ASSUME NEW t \in Threads, EndOfLinks(t) PROVE TypeOK'
  BY <1>12 DEF EndOfLinks, Delete, PageInv, Holding
<1>13. ASSUME NEW t \in Threads, HSearch(t) PROVE TypeOK'
  BY <1>13 DEF HSearch
<1>14. ASSUME NEW t \in Threads, HPut(t) PROVE TypeOK'
  <2>1. Result(t) \in Urls
    BY <1>14, ResultType DEF HPut
  <2>2. visited' \subseteq Urls
    <3>1. visited' = visited \cup {Result(t)} \/ visited' = visited
      BY <1>14 DEF HPut
    <3> QED
      BY <2>1, <3>1
  <2>3. lost' \in Nat
    BY <1>14 DEF HPut, Lose
  <2>4. pc' \in [Threads -> Labels] /\ hash_mutex' = NoThread
    BY <1>14 DEF HPut
  <2>5. UNCHANGED <<queue, page_id, active_threads, id_mutex, active_mutex, locals, process,
                    pagedir, crawled, failed>>
    BY <1>14 DEF HPut
  <2> QED
    BY <2>2, <2>3, <2>4, <2>5
<1>15. ASSUME NEW t \in Threads, QPut(t) PROVE TypeOK'
  <2>1. Child(t) \in Page
    BY <1>15, ResultType DEF QPut
  <2>2. Append(queue, Child(t)) \in Seq(Page)
    BY <2>1, QueueType
  <2>3. queue' = Append(queue, Child(t)) \/ queue' = queue
    BY <1>15 DEF QPut
  <2>4. lost' \in Nat /\ pc' \in [Threads -> Labels]
    BY <1>15 DEF QPut, Lose
  <2>5. UNCHANGED <<visited, page_id, active_threads, mutexes, locals, process,
                    pagedir, crawled, failed>>
    BY <1>15 DEF QPut
  <2> QED
    BY <2>2, <2>3, <2>4, <2>5
<1>16. CASE Join
  BY <1>16 DEF Join
<1>17. CASE Exited
  BY <1>17 DEF Exited
<1>18. CASE UNCHANGED vars
  BY <1>18
<1> QED
  BY <1>1, <1>2, <1>3, <1>4, <1>5, <1>6, <1>7, <1>8, <1>9, <1>10, <1>11, <1>12, <1>13, <1>14, <1>15, <1>16, <1>17, <1>18 DEF Next, ThreadStep

\* The three parts together are inductive.
LEMMA StepCore == CoreInv /\ [Next]_vars => CoreInv'
BY StepLock, StepPage, StepType DEF CoreInv

\* CoreInv is inductive: every state of every crawl satisfies it.
THEOREM CoreInvariant == Spec => []CoreInv
<1> QED
  BY InitCore, StepCore, PTL DEF Spec

\* Every variable keeps its type, whatever the threads do.
THEOREM TypeCorrect == Spec => []TypeOK
<1>1. CoreInv => TypeOK
  BY DEF CoreInv
<1> QED
  BY <1>1, CoreInvariant, PTL

-----------------------------------------------------------------------------
(***************************************************************************)
(* No page file is ever replaced.                                          *)
(***************************************************************************)
\* The ids handed out are below page_id, and the ones still to be used as file
\* names differ from each other and from the names of the files there are.
FileInv ==
  /\ \A i \in DOMAIN pagedir : i < page_id
  /\ \A t \in Threads : pc[t] = "save" => reg[t] < page_id /\ reg[t] \notin DOMAIN pagedir
  /\ \A s, t \in Threads : s # t /\ pc[s] = "save" /\ pc[t] = "save" => reg[s] # reg[t]

\* Every step keeps the ids apart.
LEMMA StepFile == CoreInv /\ FileInv /\ [Next]_vars => FileInv'
<1> SUFFICES ASSUME CoreInv, FileInv, [Next]_vars PROVE FileInv'
  OBVIOUS
<1> USE  DEF vars, shared, mutexes, locals, process, outcome, CoreInv, TypeOK, FileInv
<1>1. ASSUME NEW t \in Threads, Create(t) PROVE FileInv'
  BY <1>1 DEF Create
<1>2. ASSUME NEW t \in Threads, QGet(t) PROVE FileInv'
  BY <1>2 DEF QGet
<1>3. ASSUME NEW t \in Threads, CheckActive(t) PROVE FileInv'
  BY <1>3 DEF CheckActive
<1>4. ASSUME NEW t \in Threads, Activate(t) PROVE FileInv'
  BY <1>4 DEF Activate, ReadActive, WriteActive
<1>5. ASSUME NEW t \in Threads, Deactivate(t) PROVE FileInv'
  BY <1>5 DEF Deactivate, ReadActive, WriteActive
<1>6. ASSUME NEW t \in Threads, Fetch(t) PROVE FileInv'
  BY <1>6 DEF Fetch
<1>7. ASSUME NEW t \in Threads, FetchFails(t) PROVE FileInv'
  BY <1>7 DEF FetchFails
<1>8. ASSUME NEW t \in Threads, ReadId(t) PROVE FileInv'
  BY <1>8 DEF ReadId, LockInv
<1>9. ASSUME NEW t \in Threads, WriteId(t) PROVE FileInv'
  BY <1>9 DEF WriteId, LockInv
<1>10. ASSUME NEW t \in Threads, Save(t) PROVE FileInv'
  BY <1>10 DEF Save, WriteFile
<1>11. ASSUME NEW t \in Threads, NextURL(t) PROVE FileInv'
  BY <1>11 DEF NextURL
<1>12. ASSUME NEW t \in Threads, EndOfLinks(t) PROVE FileInv'
  BY <1>12 DEF EndOfLinks
<1>13. ASSUME NEW t \in Threads, HSearch(t) PROVE FileInv'
  BY <1>13 DEF HSearch
<1>14. ASSUME NEW t \in Threads, HPut(t) PROVE FileInv'
  BY <1>14 DEF HPut, Lose
<1>15. ASSUME NEW t \in Threads, QPut(t) PROVE FileInv'
  BY <1>15 DEF QPut, Lose
<1>16. CASE Join
  BY <1>16 DEF Join
<1>17. CASE Exited
  BY <1>17 DEF Exited
<1>18. CASE UNCHANGED vars
  BY <1>18
<1> QED
  BY <1>1, <1>2, <1>3, <1>4, <1>5, <1>6, <1>7, <1>8, <1>9, <1>10, <1>11, <1>12, <1>13, <1>14, <1>15, <1>16, <1>17, <1>18 DEF Next, ThreadStep


\* The page directory is empty at first and page_id is 1.
LEMMA InitFile == Init => FileInv
BY DEF Init, FileInv

\* Only Save touches a file, and it writes under an id that names no file yet.
LEMMA StepFilesKept ==
  ASSUME CoreInv, FileInv, Next
  PROVE  \A i \in DOMAIN pagedir : i \in DOMAIN pagedir' /\ pagedir'[i] = pagedir[i]
<1>1. ASSUME NEW t \in Threads, Save(t)
      PROVE  \A i \in DOMAIN pagedir : i \in DOMAIN pagedir' /\ pagedir'[i] = pagedir[i]
  BY <1>1 DEF Save, WriteFile, FileInv
<1>2. ASSUME NEW t \in Threads, ~Save(t), Create(t) \/ ThreadStep(t)
      PROVE  UNCHANGED pagedir
  BY <1>2 DEF Create, ThreadStep, QGet, CheckActive, Activate, Deactivate, ReadActive,
     WriteActive, Fetch, FetchFails, ReadId, WriteId, NextURL, EndOfLinks, HSearch,
     HPut, QPut, outcome
<1> QED
  BY <1>1, <1>2 DEF Next, Join, Exited, vars, outcome

\* What one thread saved is never replaced by what another one saves.
THEOREM FilesAreKept == Spec => FilesKept
<1>1. Init => CoreInv /\ FileInv
  BY InitCore, InitFile
<1>2. CoreInv /\ FileInv /\ [Next]_vars => (CoreInv /\ FileInv)'
  BY StepCore, StepFile
<1>3. CoreInv /\ FileInv /\ [Next]_vars =>
        [\A i \in DOMAIN pagedir : i \in DOMAIN pagedir' /\ pagedir'[i] = pagedir[i]]_vars
  BY StepFilesKept
<1> QED
  BY <1>1, <1>2, <1>3, PTL DEF Spec, FilesKept

-----------------------------------------------------------------------------
(***************************************************************************)
(* No page is left in the queue by threads that stop early.                *)
(***************************************************************************)
\* NoPageAbandoned is inductive: a thread that stops has seen the queue empty,
\* and whoever fills it afterwards looks at it again.
LEMMA StepAbandoned == CoreInv /\ NoPageAbandoned /\ [Next]_vars => NoPageAbandoned'
<1> SUFFICES ASSUME CoreInv, NoPageAbandoned, [Next]_vars PROVE NoPageAbandoned'
  OBVIOUS
<1> USE  DEF vars, shared, mutexes, locals, process, outcome, CoreInv, TypeOK, NoPageAbandoned, Labels
<1>1. ASSUME NEW t \in Threads, Create(t) PROVE NoPageAbandoned'
  BY <1>1 DEF Create
<1>2. ASSUME NEW t \in Threads, QGet(t) PROVE NoPageAbandoned'
  BY <1>2 DEF QGet
<1>3. ASSUME NEW t \in Threads, CheckActive(t) PROVE NoPageAbandoned'
  BY <1>3 DEF CheckActive
<1>4. ASSUME NEW t \in Threads, Activate(t) PROVE NoPageAbandoned'
  BY <1>4 DEF Activate, ReadActive, WriteActive
<1>5. ASSUME NEW t \in Threads, Deactivate(t) PROVE NoPageAbandoned'
  BY <1>5 DEF Deactivate, ReadActive, WriteActive
<1>6. ASSUME NEW t \in Threads, Fetch(t) PROVE NoPageAbandoned'
  BY <1>6 DEF Fetch
<1>7. ASSUME NEW t \in Threads, FetchFails(t) PROVE NoPageAbandoned'
  BY <1>7 DEF FetchFails
<1>8. ASSUME NEW t \in Threads, ReadId(t) PROVE NoPageAbandoned'
  BY <1>8 DEF ReadId, LockInv
<1>9. ASSUME NEW t \in Threads, WriteId(t) PROVE NoPageAbandoned'
  BY <1>9 DEF WriteId, LockInv
<1>10. ASSUME NEW t \in Threads, Save(t) PROVE NoPageAbandoned'
  BY <1>10 DEF Save
<1>11. ASSUME NEW t \in Threads, NextURL(t) PROVE NoPageAbandoned'
  BY <1>11 DEF NextURL
<1>12. ASSUME NEW t \in Threads, EndOfLinks(t) PROVE NoPageAbandoned'
  BY <1>12 DEF EndOfLinks
<1>13. ASSUME NEW t \in Threads, HSearch(t) PROVE NoPageAbandoned'
  BY <1>13 DEF HSearch
<1>14. ASSUME NEW t \in Threads, HPut(t) PROVE NoPageAbandoned'
  BY <1>14 DEF HPut, Lose
<1>15. ASSUME NEW t \in Threads, QPut(t) PROVE NoPageAbandoned'
  BY <1>15 DEF QPut, Lose
<1>16. CASE Join
  BY <1>16 DEF Join
<1>17. CASE Exited
  BY <1>17 DEF Exited
<1>18. CASE UNCHANGED vars
  BY <1>18
<1> QED
  BY <1>1, <1>2, <1>3, <1>4, <1>5, <1>6, <1>7, <1>8, <1>9, <1>10, <1>11, <1>12, <1>13, <1>14, <1>15, <1>16, <1>17, <1>18 DEF Next, ThreadStep

\* The threads that main is about to create will look at the queue.
LEMMA InitAbandoned == Init => NoPageAbandoned
BY ThreadAssumption DEF Init, NoPageAbandoned

\* While a page is queued, some thread will still look at the queue.
THEOREM PagesNotAbandoned == Spec => []NoPageAbandoned
<1>1. Init => CoreInv /\ NoPageAbandoned
  BY InitCore, InitAbandoned
<1>2. CoreInv /\ NoPageAbandoned /\ [Next]_vars => (CoreInv /\ NoPageAbandoned)'
  BY StepCore, StepAbandoned
<1> QED
  BY <1>1, <1>2, PTL DEF Spec

-----------------------------------------------------------------------------
(***************************************************************************)
(* active_threads counts the threads that have a page in work.             *)
(***************************************************************************)
Active == {t \in Threads : pc[t] \in Counted}

\* The active threads are some of finitely many.
LEMMA ActiveFinite ==
  IsFiniteSet(Active) /\ \A t : IsFiniteSet(Active \cup {t}) /\ IsFiniteSet(Active \ {t})
BY ThreadAssumption, FS_Subset, FS_AddElement, FS_RemoveElement DEF Active

\* A step of a thread moves at most that thread into or out of Active, and
\* does so together with the write of the counter.
LEMMA StepActive ==
  ASSUME CoreInv, [Next]_vars
  PROVE  \/ Active' = Active /\ active_threads' = active_threads
         \/ \E t \in Threads \ Active :
              Active' = Active \cup {t} /\ active_threads' = active_threads + 1
         \/ \E t \in Active :
              Active' = Active \ {t} /\ active_threads' = active_threads - 1
<1> USE DEF Active, Counted, Holding, CoreInv, TypeOK
<1> DEFINE Same == Active' = Active /\ active_threads' = active_threads
<1>1. ASSUME NEW t \in Threads, WriteActive(t, "activating", "fetch", 1)
      PROVE  /\ t \notin Active
             /\ Active' = Active \cup {t} /\ active_threads' = active_threads + 1
  BY <1>1 DEF WriteActive, LockInv
<1>2. ASSUME NEW t \in Threads, WriteActive(t, "deactivating", "qget", -1)
      PROVE  /\ t \in Active
             /\ Active' = Active \ {t} /\ active_threads' = active_threads - 1
  BY <1>2 DEF WriteActive, LockInv
<1>3. ASSUME NEW t \in Threads,
             \/ ReadActive(t, "activate", "activating")
             \/ ReadActive(t, "deactivate", "deactivating")
             \/ Create(t) \/ QGet(t) \/ CheckActive(t) \/ Fetch(t) \/ FetchFails(t)
      PROVE  Same
  BY <1>3 DEF ReadActive, Create, QGet, CheckActive, Fetch, FetchFails, shared
<1>4. ASSUME NEW t \in Threads,
             \/ ReadId(t) \/ WriteId(t) \/ Save(t) \/ NextURL(t) \/ EndOfLinks(t)
      PROVE  Same
  BY <1>4 DEF ReadId, WriteId, Save, NextURL, EndOfLinks, shared
<1>5. ASSUME NEW t \in Threads, HSearch(t) \/ HPut(t) \/ QPut(t)
      PROVE  Same
  BY <1>5 DEF HSearch, HPut, QPut, shared
<1>6. CASE Join \/ Exited \/ UNCHANGED vars
  BY <1>6 DEF Join, Exited, vars, shared
<1> QED
  BY <1>1, <1>2, <1>3, <1>4, <1>5, <1>6 DEF Next, ThreadStep, Activate, Deactivate

\* Every way through the loop body gives back what it took, so the counter that
\* idle threads stop on is exact.
THEOREM ActiveCounted == Spec => []ActiveCount
<1>1. Init => ActiveCount
  BY FS_EmptySet DEF Init, ActiveCount, Counted, Holding
<1>2. CoreInv /\ ActiveCount /\ [Next]_vars => ActiveCount'
  <2> SUFFICES ASSUME CoreInv, ActiveCount, [Next]_vars PROVE ActiveCount'
    OBVIOUS
  <2>1. active_threads = Cardinality(Active)
    BY DEF ActiveCount, Active
  <2>2. active_threads' = Cardinality(Active')
    BY <2>1, StepActive, ActiveFinite, FS_AddElement, FS_RemoveElement
  <2> QED
    BY <2>2 DEF ActiveCount, Active
<1> QED
  BY <1>1, <1>2, CoreInvariant, PTL DEF Spec

-----------------------------------------------------------------------------
(***************************************************************************)
(* Every URL has one owner: the queue, the thread that holds its page, the *)
(* thread that is about to queue it, or the set of finished pages.         *)
(***************************************************************************)
DoneUrls == {p.url : p \in crawled \cup failed}

\* The URL of the page a thread holds, and the URL it has put in the table and
\* not yet in the queue.
Current(t) == IF curr[t] = NoPage THEN {} ELSE {curr[t].url}
Pending(t) == IF pc[t] = "qput" THEN {Result(t)} ELSE {}
Owned(t) == Current(t) \cup Pending(t)

\* All owned URLs are in the visited table, the one about to be put there is not.
VisitedInv ==
  /\ UrlsOf(queue) \cup DoneUrls \subseteq visited
  /\ \A t \in Threads :
       /\ Owned(t) \subseteq visited
       /\ pc[t] = "hput" => Result(t) \notin visited

OwnerInv ==
  /\ NoDuplicate(queue)
  /\ UrlsOf(queue) \cap DoneUrls = {}
  /\ \A t \in Threads :
       /\ Owned(t) \cap (UrlsOf(queue) \cup DoneUrls) = {}
       /\ Current(t) \cap Pending(t) = {}
       /\ \A s \in Threads \ {t} : Owned(s) \cap Owned(t) = {}

\* With memory, the two hold together in every state.
UrlInv == lost = 0 => VisitedInv /\ OwnerInv

\* Frame: a step of t leaves the locals of the other threads alone.
LEMMA Others ==
  ASSUME CoreInv, NEW t \in Threads, Create(t) \/ ThreadStep(t), NEW s \in Threads \ {t}
  PROVE  pc'[s] = pc[s] /\ curr'[s] = curr[s] /\ pos'[s] = pos[s] /\ Result(s)' = Result(s)
<1>1. pc'[s] = pc[s] /\ curr'[s] = curr[s] /\ pos'[s] = pos[s]
  <2> USE DEF CoreInv, TypeOK
  <2>1. CASE Create(t) \/ QGet(t) \/ CheckActive(t) \/ Fetch(t) \/ FetchFails(t)
    BY <2>1 DEF Create, QGet, CheckActive, Fetch, FetchFails, Delete, locals
  <2>2. CASE Activate(t) \/ Deactivate(t)
    BY <2>2 DEF Activate, Deactivate, ReadActive, WriteActive, locals
  <2>3. CASE ReadId(t) \/ WriteId(t) \/ NextURL(t) \/ EndOfLinks(t)
    BY <2>3 DEF ReadId, WriteId, NextURL, EndOfLinks, Delete, locals
  <2>4. CASE Save(t)
    BY <2>4 DEF Save, Delete
  <2>5. CASE HSearch(t) \/ HPut(t) \/ QPut(t)
    BY <2>5 DEF HSearch, HPut, QPut, locals
  <2> QED
    BY <2>1, <2>2, <2>3, <2>4, <2>5 DEF ThreadStep
<1> QED
  BY <1>1 DEF Result, PageLinks

\* The number of failed allocations does not go back to 0.
LEMMA LostStays == CoreInv /\ [Next]_vars => (lost' = 0 => lost = 0)
<1> SUFFICES ASSUME CoreInv, [Next]_vars PROVE lost' = lost \/ lost' = lost + 1
  BY DEF CoreInv, TypeOK
<1>1. ASSUME NEW t \in Threads, HPut(t) \/ QPut(t) PROVE lost' = lost \/ lost' = lost + 1
  BY <1>1 DEF HPut, QPut, Lose
<1>2. ASSUME NEW t \in Threads, ~HPut(t), ~QPut(t), Create(t) \/ ThreadStep(t)
      PROVE  lost' = lost
  BY <1>2 DEF Create, ThreadStep, QGet, CheckActive, Activate, Deactivate, ReadActive,
     WriteActive, Fetch, FetchFails, ReadId, WriteId, Save, NextURL, EndOfLinks, HSearch,
     outcome
<1> QED
  BY <1>1, <1>2 DEF Next, Join, Exited, vars, outcome

\* What a step of t does to the owners: the URL of a page moves from the queue
\* to t, from t to the finished pages, from t to the queue, or a new one appears.
Unmoved(t) ==
  /\ queue' = queue /\ visited' = visited /\ DoneUrls' = DoneUrls
  /\ Current(t)' = Current(t) /\ Pending(t)' = Pending(t)

Taken(t) ==
  /\ queue # <<>> /\ queue' = Tail(queue)
  /\ Owned(t) = {} /\ Current(t)' = {Head(queue).url} /\ Pending(t)' = {}
  /\ visited' = visited /\ DoneUrls' = DoneUrls

Finished(t) ==
  /\ queue' = queue /\ visited' = visited
  /\ DoneUrls' = DoneUrls \cup Current(t)
  /\ Current(t)' = {} /\ Pending(t)' = Pending(t)

Met(t) ==
  /\ pc[t] = "hput"
  /\ queue' = queue /\ DoneUrls' = DoneUrls
  /\ visited' = visited \cup {Result(t)}
  /\ Current(t)' = Current(t)
  /\ Pending(t) = {} /\ Pending(t)' = {Result(t)}

PutBack(t) ==
  /\ pc[t] = "qput"
  /\ queue' = Append(queue, Child(t))
  /\ visited' = visited /\ DoneUrls' = DoneUrls
  /\ Current(t)' = Current(t)
  /\ Pending(t) = {Child(t).url} /\ Pending(t)' = {}

\* What a step of t does to the URLs it owns: nothing, or it takes a page from the
\* queue, finishes it, meets a new URL, or hands that one to the queue.
LEMMA Moves ==
  ASSUME CoreInv, lost' = 0, NEW t \in Threads, Create(t) \/ ThreadStep(t)
  PROVE  Unmoved(t) \/ Taken(t) \/ Finished(t) \/ Met(t) \/ PutBack(t)
<1> USE DEF CoreInv, TypeOK, Current, Pending
<1>1. CASE QGet(t)
  <2>1. CASE queue = <<>>
    BY <1>1, <2>1 DEF QGet, Unmoved, DoneUrls, outcome
  <2>2. CASE queue # <<>>
    <3>1. Head(queue) \in Page /\ Head(queue) # NoPage
      BY <2>2, QueueType, ThreadAssumption
    <3>2. queue' = Tail(queue) /\ curr' = [curr EXCEPT ![t] = Head(queue)]
      BY <1>1, <2>2 DEF QGet
    <3>3. pc[t] = "qget" /\ pc'[t] = "activate" /\ curr[t] = NoPage
      BY <1>1, <2>2 DEF QGet, PageInv, Holding
    <3>4. visited' = visited /\ DoneUrls' = DoneUrls
      BY <1>1 DEF QGet, DoneUrls, outcome
    <3> QED
      BY <2>2, <3>1, <3>2, <3>3, <3>4 DEF Taken, Owned
  <2> QED
    BY <2>1, <2>2
<1>2. CASE FetchFails(t) \/ EndOfLinks(t)
  BY <1>2 DEF FetchFails, EndOfLinks, Delete, Finished, DoneUrls, PageInv, Holding, shared
<1>3. CASE Save(t)
  <2>1. curr[t] # NoPage /\ pc[t] = "save" /\ queue' = queue /\ visited' = visited
    BY <1>3 DEF Save, PageInv, Holding, shared
  <2>2. CASE Scanned(curr[t])
    BY <1>3, <2>1, <2>2 DEF Save, Unmoved, DoneUrls
  <2>3. CASE ~Scanned(curr[t])
    BY <1>3, <2>1, <2>3 DEF Save, Delete, Finished, DoneUrls
  <2> QED
    BY <2>2, <2>3
<1>4. CASE HPut(t)
  BY <1>4 DEF HPut, Lose, Met, DoneUrls, Result, PageLinks, locals
<1>5. CASE QPut(t)
  BY <1>5 DEF QPut, Lose, PutBack, DoneUrls, Child, locals
<1>6. CASE Create(t) \/ CheckActive(t) \/ Fetch(t) \/ NextURL(t) \/ HSearch(t)
  BY <1>6 DEF Create, CheckActive, Fetch, NextURL, HSearch, Unmoved, DoneUrls, shared,
     locals, outcome
<1>7. CASE Activate(t) \/ Deactivate(t) \/ ReadId(t) \/ WriteId(t)
  BY <1>7 DEF Activate, Deactivate, ReadActive, WriteActive, ReadId, WriteId, Unmoved,
     DoneUrls, shared, locals, outcome
<1> QED
  BY <1>1, <1>2, <1>3, <1>4, <1>5, <1>6, <1>7 DEF ThreadStep

\* The seed is the only URL at first, in the queue and in the table.
LEMMA InitUrls == Init => UrlInv
BY ThreadAssumption DEF Init, UrlInv, VisitedInv, OwnerInv, UrlsOf, DoneUrls, NoDuplicate,
   SeedPage, Owned, Current, Pending

\* The visited table, the queue and the owners change together.
LEMMA StepUrls == CoreInv /\ UrlInv /\ [Next]_vars => UrlInv'
<1> SUFFICES ASSUME CoreInv, UrlInv, lost' = 0, [Next]_vars
             PROVE  VisitedInv' /\ OwnerInv'
  BY DEF UrlInv
<1>1. VisitedInv /\ OwnerInv
  BY LostStays DEF UrlInv
<1>2. ASSUME NEW t \in Threads, Create(t) \/ ThreadStep(t)
      PROVE  VisitedInv' /\ OwnerInv'
  <2>1. \A s \in Threads \ {t} :
          /\ Current(s)' = Current(s) /\ Pending(s)' = Pending(s) /\ Owned(s)' = Owned(s)
          /\ pc'[s] = pc[s] /\ Result(s)' = Result(s)
    BY <1>2, Others DEF Current, Pending, Owned
  <2>2. pc'[t] = "hput" => Result(t)' \notin visited'
    <3>1. pc'[t] = "hput" => HSearch(t)
      BY <1>2 DEF CoreInv, TypeOK, Create, ThreadStep, QGet, CheckActive, Activate,
         Deactivate, ReadActive, WriteActive, Fetch, FetchFails, ReadId, WriteId, Save,
         NextURL, EndOfLinks, HPut, QPut
    <3>2. HSearch(t) /\ pc'[t] = "hput" => Result(t)' \notin visited'
      BY DEF HSearch, Result, PageLinks, shared, locals, CoreInv, TypeOK
    <3> QED
      BY <3>1, <3>2
  <2>3. \A s \in Threads \ {t} : pc[s] = "hput" => pc[t] # "hput"
    BY DEF CoreInv, LockInv
  <2> USE DEF VisitedInv, OwnerInv, Owned
  <2>4. CASE Unmoved(t)
    BY <1>1, <2>1, <2>2, <2>4 DEF Unmoved
  <2>5. CASE Taken(t)
    <3>1. /\ Head(queue).url \in UrlsOf(queue)
          /\ UrlsOf(queue') = UrlsOf(queue) \ {Head(queue).url}
          /\ NoDuplicate(queue')
      BY <1>1, <2>5, QueueUrls DEF Taken, CoreInv, TypeOK
    <3> QED
      BY <1>1, <2>1, <2>2, <2>5, <3>1 DEF Taken
  <2>6. CASE Finished(t)
    BY <1>1, <2>1, <2>2, <2>6 DEF Finished
  <2>7. CASE Met(t)
    BY <1>1, <2>1, <2>2, <2>3, <2>7 DEF Met
  <2>8. CASE PutBack(t)
    <3>1. Child(t) \in Page
      BY <2>8, ResultType DEF PutBack
    <3>2. /\ UrlsOf(queue') = UrlsOf(queue) \cup {Child(t).url}
          /\ Child(t).url \notin UrlsOf(queue) => NoDuplicate(queue')
      BY <1>1, <2>8, <3>1, QueueUrls DEF PutBack, CoreInv, TypeOK
    <3> QED
      BY <1>1, <2>1, <2>2, <2>8, <3>2 DEF PutBack
  <2> QED
    BY <1>2, <2>4, <2>5, <2>6, <2>7, <2>8, Moves
<1>3. CASE Join \/ Exited \/ UNCHANGED vars
  BY <1>1, <1>3, ZenonT(30) DEF VisitedInv, OwnerInv, Owned, Current, Pending, DoneUrls, Result, PageLinks,
     Join, Exited, vars, shared, locals, outcome
<1> QED
  BY <1>2, <1>3 DEF Next

\* With memory the owners are disjoint in every state.
THEOREM OwnersDisjoint == Spec => []UrlInv
<1> QED
  BY InitUrls, StepUrls, CoreInvariant, PTL DEF Spec

\* A webpage_t has one owner and is not freed while it has one.
THEOREM SingleOwner == Spec => []OneOwner
<1>1. CoreInv /\ UrlInv => OneOwner
  <2> SUFFICES ASSUME CoreInv, UrlInv, lost = 0 PROVE OneOwner
    BY DEF OneOwner
  <2>1. OwnerInv
    BY DEF UrlInv
  <2>2. \A t \in Threads : curr[t] # NoPage => curr[t].url \in Owned(t)
    BY DEF Owned, Current
  <2>3. \A i \in DOMAIN queue : queue[i].url \in UrlsOf(queue)
    BY DEF UrlsOf
  <2>4. \A p \in crawled \cup failed : p.url \in DoneUrls
    BY DEF DoneUrls
  <2>5. ASSUME NEW t \in Threads, curr[t] # NoPage
        PROVE  /\ \A i \in DOMAIN queue : queue[i].url # curr[t].url
               /\ \A s \in Threads \ {t} : curr[s] # NoPage => curr[s].url # curr[t].url
               /\ curr[t] \notin crawled \cup failed
    <3>1. Owned(t) \cap (UrlsOf(queue) \cup DoneUrls) = {}
      BY <2>1 DEF OwnerInv
    <3>2. \A s \in Threads \ {t} : Owned(s) \cap Owned(t) = {}
      BY <2>1 DEF OwnerInv
    <3> QED
      BY <2>2, <2>3, <2>4, <2>5, <3>1, <3>2
  <2>6. \A i \in DOMAIN queue : queue[i] \notin crawled \cup failed
    <3>1. UrlsOf(queue) \cap DoneUrls = {}
      BY <2>1 DEF OwnerInv
    <3> QED
      BY <2>3, <2>4, <3>1
  <2> QED
    BY <2>1, <2>5, <2>6 DEF OneOwner, OwnerInv, NoDuplicate
<1> QED
  BY <1>1, CoreInvariant, OwnersDisjoint, PTL

-----------------------------------------------------------------------------
(***************************************************************************)
(* No URL is saved twice.                                                  *)
(***************************************************************************)
SavedUrls == {pagedir[i].url : i \in DOMAIN pagedir}

\* The URL a thread has still to save.
Unsaved(t) ==
  IF pc[t] \in {"activate", "activating", "fetch", "newid", "setid", "save"}
  THEN Current(t) ELSE {}

\* What is saved is neither queued nor still to be saved, and the table holds
\* normal forms and the seed.
SavedInv ==
  lost = 0 =>
    /\ \A i, j \in DOMAIN pagedir : i # j => pagedir[i].url # pagedir[j].url
    /\ SavedUrls \subseteq visited
    /\ SavedUrls \cap UrlsOf(queue) = {}
    /\ \A t \in Threads : SavedUrls \cap (Unsaved(t) \cup Pending(t)) = {}
    /\ \A u \in visited : u = Seed \/ Norm[u] = u

\* Nothing is saved at first.
LEMMA InitSaved == Init => SavedInv
BY DEF Init, SavedInv, SavedUrls

\* The URL of a page counts as saved from the step that saves it on.
LEMMA StepSaved == CoreInv /\ UrlInv /\ SavedInv /\ [Next]_vars => SavedInv'
<1> SUFFICES ASSUME CoreInv, VisitedInv, OwnerInv, SavedInv, lost = 0, lost' = 0, [Next]_vars
             PROVE  SavedInv'
  BY LostStays DEF UrlInv, SavedInv
<1>1. ASSUME NEW t \in Threads, Create(t) \/ ThreadStep(t)
      PROVE  SavedInv'
  <2>1. \A s \in Threads \ {t} : Unsaved(s)' = Unsaved(s) /\ Pending(s)' = Pending(s)
    BY <1>1, Others DEF Unsaved, Current, Pending
  <2>2. \A u \in visited' : u = Seed \/ Norm[u] = u
    <3>1. \/ visited' = visited
          \/ pc[t] = "hput" /\ visited' = visited \cup {Result(t)}
      <4>1. Unmoved(t) \/ Taken(t) \/ Finished(t) \/ PutBack(t) => visited' = visited
        BY DEF Unmoved, Taken, Finished, PutBack
      <4>2. Met(t) => pc[t] = "hput" /\ visited' = visited \cup {Result(t)}
        BY DEF Met
      <4>3. Unmoved(t) \/ Taken(t) \/ Finished(t) \/ Met(t) \/ PutBack(t)
        BY <1>1, Moves
      <4> QED
        BY <4>1, <4>2, <4>3
    <3>2. pc[t] = "hput" => Norm[Result(t)] = Result(t)
      BY ResultType
    <3> QED
      BY <3>1, <3>2 DEF SavedInv
  <2>3. CASE Save(t)
    <3>1. /\ pc[t] = "save" /\ curr[t] # NoPage /\ Current(t) = {curr[t].url}
          /\ Unsaved(t) = Current(t) /\ Pending(t) = {}
      BY <2>3 DEF Save, CoreInv, PageInv, Holding, Unsaved, Current, Pending
    <3>2. /\ queue' = queue /\ visited' = visited
          /\ Unsaved(t)' = {} /\ Pending(t)' = {}
      BY <2>3 DEF Save, shared, Unsaved, Pending, CoreInv, TypeOK
    <3>3. ASSUME NEW i \in DOMAIN pagedir'
          PROVE  \/ i \in DOMAIN pagedir /\ pagedir'[i] = pagedir[i]
                 \/ i = reg[t] /\ pagedir'[i] = curr[t]
      <4>1. CASE WriteFile(reg[t], curr[t])
        BY <4>1 DEF WriteFile
      <4>2. CASE pagedir' = pagedir
        BY <4>2
      <4> QED
        BY <2>3, <4>1, <4>2 DEF Save
    <3>4. \A i, j \in DOMAIN pagedir' : i # j => pagedir'[i].url # pagedir'[j].url
      <4>1. curr[t].url \notin SavedUrls
        BY <3>1 DEF SavedInv
      <4> QED
        BY <3>3, <4>1 DEF SavedInv, SavedUrls
    <3>5. SavedUrls' \subseteq SavedUrls \cup Current(t)
      BY <3>1, <3>3 DEF SavedUrls
    <3>6. Current(t) \subseteq visited /\ Current(t) \cap UrlsOf(queue) = {}
      BY DEF VisitedInv, OwnerInv, Owned
    <3>7. \A s \in Threads \ {t} : Current(t) \cap (Unsaved(s) \cup Pending(s)) = {}
      BY DEF OwnerInv, Owned, Unsaved
    <3> QED
      BY <2>1, <2>2, <3>2, <3>4, <3>5, <3>6, <3>7 DEF SavedInv
  <2>4. CASE ~Save(t)
    <3>1. pagedir' = pagedir
      BY <1>1, <2>4 DEF Create, ThreadStep, QGet, CheckActive, Activate, Deactivate,
         ReadActive, WriteActive, Fetch, FetchFails, ReadId, WriteId, NextURL, EndOfLinks,
         HSearch, HPut, QPut, outcome
    <3>2. SavedUrls' = SavedUrls
      BY <3>1 DEF SavedUrls
    <3>3. \/ Unsaved(t)' \subseteq Unsaved(t)
          \/ Taken(t) /\ Unsaved(t)' \subseteq {Head(queue).url}
      <4>1. CASE Taken(t)
        BY <4>1 DEF Taken, Unsaved
      <4>2. CASE ~Taken(t)
        <5>1. Current(t)' \subseteq Current(t)
          BY <1>1, <4>2, Moves DEF Unmoved, Finished, Met, PutBack
        <5>2. Unsaved(t)' # {} => Unsaved(t) = Current(t)
          <6> USE DEF Unsaved, CoreInv, TypeOK
          <6>1. CASE QGet(t)
            <7>1. curr[t] = NoPage
              BY <6>1 DEF QGet, PageInv, Holding
            <7> QED
              BY <7>1 DEF Current
          <6>2. CASE Create(t) \/ CheckActive(t) \/ Fetch(t) \/ FetchFails(t)
            BY <6>2 DEF Create, CheckActive, Fetch, FetchFails
          <6>3. CASE Activate(t) \/ Deactivate(t) \/ ReadId(t) \/ WriteId(t)
            BY <6>3 DEF Activate, Deactivate, ReadActive, WriteActive, ReadId, WriteId
          <6>4. CASE NextURL(t) \/ EndOfLinks(t) \/ HSearch(t) \/ HPut(t) \/ QPut(t)
            BY <6>4 DEF NextURL, EndOfLinks, HSearch, HPut, QPut
          <6> QED
            BY <1>1, <2>4, <6>1, <6>2, <6>3, <6>4 DEF ThreadStep
        <5>3. Unsaved(t)' \subseteq Current(t)'
          BY DEF Unsaved
        <5>4. CASE Unsaved(t)' = {}
          BY <5>4
        <5>5. CASE Unsaved(t)' # {}
          BY <5>1, <5>2, <5>3, <5>5
        <5> QED
          BY <5>4, <5>5
      <4> QED
        BY <4>1, <4>2
    <3>4. CASE Unmoved(t) \/ Finished(t)
      BY <2>1, <2>2, <3>1, <3>2, <3>3, <3>4 DEF Unmoved, Finished, Taken, SavedInv, Owned
    <3>5. CASE Taken(t)
      <4>1. /\ Head(queue).url \in UrlsOf(queue)
            /\ UrlsOf(queue') = UrlsOf(queue) \ {Head(queue).url}
        BY <3>5, QueueUrls DEF Taken, CoreInv, TypeOK, OwnerInv
      <4> QED
        BY <2>1, <2>2, <3>1, <3>2, <3>3, <3>5, <4>1 DEF Taken, SavedInv, Owned
    <3>6. CASE Met(t)
      <4>1. Result(t) \notin SavedUrls
        BY <3>6 DEF Met, VisitedInv, SavedInv
      <4> QED
        BY <2>1, <2>2, <3>1, <3>2, <3>3, <3>6, <4>1 DEF Met, Taken, SavedInv
    <3>7. CASE PutBack(t)
      <4>1. UrlsOf(queue') = UrlsOf(queue) \cup Pending(t)
        BY <3>7, QueueUrls, ResultType DEF PutBack, CoreInv, TypeOK
      <4> QED
        BY <2>1, <2>2, <3>1, <3>2, <3>3, <3>7, <4>1 DEF PutBack, Taken, SavedInv
    <3> QED
      BY <1>1, <3>4, <3>5, <3>6, <3>7, Moves
  <2> QED
    BY <2>3, <2>4
<1>2. CASE Join \/ Exited \/ UNCHANGED vars
  BY <1>2 DEF SavedInv, SavedUrls, Unsaved, Current, Pending, Result, PageLinks,
     Join, Exited, vars, shared, locals, outcome
<1> QED
  BY <1>1, <1>2 DEF Next

\* No URL is saved under two ids, and two spellings of a URL only if one of them
\* is the seed.
THEOREM SavedOnceOnly == Spec => []SavedOnce
<1>1. Init => CoreInv /\ UrlInv /\ SavedInv
  BY InitCore, InitUrls, InitSaved
<1>2. CoreInv /\ UrlInv /\ SavedInv /\ [Next]_vars => (CoreInv /\ UrlInv /\ SavedInv)'
  BY StepCore, StepUrls, StepSaved
<1>3. SavedInv => SavedOnce
  BY DEF SavedInv, SavedOnce, SavedUrls
<1> QED
  BY <1>1, <1>2, <1>3, PTL DEF Spec

-----------------------------------------------------------------------------
(***************************************************************************)
(* The threads together carry out the crawl of module Crawl: every page    *)
(* was reached through a link, nothing is left out when the process exits, *)
(* and every step is a step of Crawl or a stutter.                         *)
(***************************************************************************)
\* The places a page can be in: the queue, a thread that works on it, and a
\* thread that is about to queue it.
Held(t) == IF curr[t] = NoPage THEN {} ELSE {curr[t]}
Offered(t) == IF pc[t] = "qput" THEN {Child(t)} ELSE {}

\* The labels of the loop over the links, and the pages links are taken from.
Scanning == {"scan", "hsearch", "hput", "qput"}
Retrieved == crawled \cup {curr[t] : t \in {s \in Threads : pc[s] \in Scanning}}

\* What a link on a retrieved page above the depth limit leads to.
LinkedFrom(p, q) == Scanned(q) /\ p.depth = q.depth + 1 /\ p.url \in Children(q.url)

\* The pages whose webpage_t was made, and a link to each of them but the seed.
PagesMet == InQueue(queue) \cup (UNION {Held(t) : t \in Threads}) \cup crawled \cup failed
ReachInv == \A p \in PagesMet : p = SeedPage \/ \E q \in Retrieved : LinkedFrom(p, q)

\* How many links of its page a thread in the loop has dealt with.
Seen(t) == IF pc[t] \in {"hsearch", "hput"} THEN pos[t] - 1 ELSE pos[t]

\* With memory, the links dealt with lead to known URLs, and every known URL is
\* in the queue, with a thread, or finished.
ScanInv ==
  /\ \A p \in crawled : Scanned(p) => Children(p.url) \subseteq visited
  /\ \A t \in Threads : pc[t] \in Scanning =>
       \A i \in 1..Seen(t) : IsInternalURL(PageLinks(t)[i]) => Norm[PageLinks(t)[i]] \in visited
CoverInv ==
  visited \subseteq UrlsOf(queue) \cup DoneUrls \cup (UNION {Owned(t) : t \in Threads})
LinkInv == lost = 0 => ScanInv /\ CoverInv

\* main prints the count when all threads have returned.
ExitInv == main = "exited" => \A t \in Threads : pc[t] = "done"

-----------------------------------------------------------------------------
\* The child that a thread in the loop is about to meet or to queue is linked
\* from the page of the thread.
LEMMA ChildLinked ==
  ASSUME CoreInv, NEW t \in Threads, pc[t] \in {"hsearch", "hput", "qput"}
  PROVE  /\ curr[t] \in Page /\ curr[t] # NoPage /\ Scanned(curr[t])
         /\ Result(t) \in Children(curr[t].url)
         /\ LinkedFrom(Child(t), curr[t])
<1>1. curr[t] \in Page /\ curr[t] # NoPage /\ Scanned(curr[t])
  BY ResultType DEF CoreInv, TypeOK, PageInv, Holding
<1>2. pos[t] \in DOMAIN Links[curr[t].url] /\ IsInternalURL(Links[curr[t].url][pos[t]])
  BY <1>1, PageType DEF CoreInv, PageInv, PageLinks
<1>3. Result(t) \in Children(curr[t].url)
  BY <1>2 DEF Result, PageLinks, Children
<1> QED
  BY <1>1, <1>3 DEF LinkedFrom, Child

\* What a step of t does to a page: it leaves it where it is, moves it from the
\* queue to t, from t to the finished pages or from t to the queue, or t meets a
\* new one.  Only a failed allocation lets a page that t has met disappear.
PageStays(t) ==
  /\ InQueue(queue') = InQueue(queue) /\ Held(t)' = Held(t)
  /\ crawled' = crawled /\ failed' = failed
  /\ lost' = 0 => Offered(t)' = Offered(t) /\ visited' = visited

PageTaken(t) ==
  /\ InQueue(queue) = InQueue(queue') \cup Held(t)'
  /\ Held(t) = {} /\ Offered(t) = {} /\ Offered(t)' = {}
  /\ UNCHANGED <<visited, crawled, failed>>

PageEnds(t) ==
  /\ queue' = queue /\ visited' = visited
  /\ pc[t] \in Holding \ {"hsearch", "hput", "qput"}
  /\ Held(t) = {curr[t]} /\ Held(t)' = {} /\ Offered(t) = {} /\ Offered(t)' = {}

PageCrawled(t) ==
  /\ PageEnds(t)
  /\ Scanned(curr[t]) => pc[t] = "scan" /\ pos[t] = Len(PageLinks(t))
  /\ crawled' = crawled \cup {curr[t]} /\ failed' = failed

PageFailed(t) ==
  /\ PageEnds(t)
  /\ failed' = failed \cup {curr[t]} /\ crawled' = crawled

PageOffered(t) ==
  /\ pc[t] = "hput" /\ queue' = queue /\ visited' = visited \cup {Result(t)}
  /\ Held(t)' = Held(t) /\ Offered(t) = {} /\ Offered(t)' = {Child(t)}
  /\ crawled' = crawled /\ failed' = failed

PageQueued(t) ==
  /\ pc[t] = "qput" /\ InQueue(queue') = InQueue(queue) \cup {Child(t)}
  /\ Held(t)' = Held(t) /\ Offered(t) = {Child(t)} /\ Offered(t)' = {}
  /\ UNCHANGED <<visited, crawled, failed>>

\* Every step of a thread is one of these moves.
LEMMA PageMoves ==
  ASSUME CoreInv, NEW t \in Threads, Create(t) \/ ThreadStep(t)
  PROVE  \/ PageStays(t) \/ PageTaken(t) \/ PageCrawled(t) \/ PageFailed(t)
         \/ PageOffered(t) \/ PageQueued(t)
<1> USE DEF CoreInv, TypeOK, Held, Offered
<1>1. CASE QGet(t)
  <2>1. CASE queue = <<>>
    BY <1>1, <2>1 DEF QGet, PageStays, outcome
  <2>2. CASE queue # <<>>
    <3>1. /\ Head(queue) \in Page /\ Head(queue) # NoPage
          /\ InQueue(queue) = InQueue(Tail(queue)) \cup {Head(queue)}
      BY <2>2, QueueType, QueuePages, ThreadAssumption
    <3>2. queue' = Tail(queue) /\ curr' = [curr EXCEPT ![t] = Head(queue)]
      BY <1>1, <2>2 DEF QGet
    <3>3. pc[t] = "qget" /\ pc'[t] = "activate" /\ curr[t] = NoPage
      BY <1>1, <2>2 DEF QGet, PageInv, Holding
    <3>4. UNCHANGED <<visited, crawled, failed>>
      BY <1>1 DEF QGet, outcome
    <3> QED
      BY <3>1, <3>2, <3>3, <3>4 DEF PageTaken
  <2> QED
    BY <2>1, <2>2
<1>2. CASE FetchFails(t)
  BY <1>2 DEF FetchFails, Delete, PageFailed, PageEnds, PageInv, Holding, shared
<1>3. CASE EndOfLinks(t)
  BY <1>3 DEF EndOfLinks, Delete, PageCrawled, PageEnds, PageInv, Holding, shared
<1>4. CASE Save(t)
  <2>1. curr[t] # NoPage /\ pc[t] = "save" /\ queue' = queue /\ visited' = visited /\ failed' = failed
    BY <1>4 DEF Save, PageInv, Holding, shared
  <2>2. CASE Scanned(curr[t])
    BY <1>4, <2>1, <2>2 DEF Save, PageStays
  <2>3. CASE ~Scanned(curr[t])
    BY <1>4, <2>1, <2>3 DEF Save, Delete, PageCrawled, PageEnds, Holding
  <2> QED
    BY <2>2, <2>3
<1>5. CASE HPut(t)
  BY <1>5 DEF HPut, Lose, PageOffered, PageStays, Child, Result, PageLinks, locals
<1>6. CASE QPut(t)
  <2>1. /\ pc[t] = "qput" /\ pc'[t] = "scan" /\ curr' = curr
        /\ UNCHANGED <<visited, crawled, failed>>
    BY <1>6 DEF QPut, locals
  <2>2. CASE queue' = Append(queue, Child(t))
    <3>1. InQueue(queue') = InQueue(queue) \cup {Child(t)}
      BY <2>1, <2>2, ResultType, QueuePages
    <3> QED
      BY <2>1, <3>1 DEF PageQueued
  <2>3. CASE Lose /\ queue' = queue
    BY <2>1, <2>3 DEF Lose, PageStays
  <2> QED
    BY <1>6, <2>2, <2>3 DEF QPut
<1>7. CASE Create(t) \/ CheckActive(t) \/ Fetch(t) \/ NextURL(t) \/ HSearch(t)
  BY <1>7 DEF Create, CheckActive, Fetch, NextURL, HSearch, PageStays, shared, locals, outcome
<1>8. CASE Activate(t) \/ Deactivate(t) \/ ReadId(t) \/ WriteId(t)
  BY <1>8 DEF Activate, Deactivate, ReadActive, WriteActive, ReadId, WriteId, PageStays,
     shared, locals, outcome
<1> QED
  BY <1>1, <1>2, <1>3, <1>4, <1>5, <1>6, <1>7, <1>8 DEF ThreadStep

\* A page that a thread has begun to scan stays a page to be reached from.
LEMMA RetrievedStays == ASSUME CoreInv, [Next]_vars PROVE Retrieved \subseteq Retrieved'
<1> USE DEF CoreInv, TypeOK, Retrieved, Scanning
<1>1. ASSUME NEW t \in Threads, Create(t) \/ ThreadStep(t) PROVE Retrieved \subseteq Retrieved'
  <2>1. crawled \subseteq crawled'
    BY <1>1, PageMoves DEF PageStays, PageTaken, PageCrawled, PageFailed, PageOffered, PageQueued
  <2>2. pc[t] \in Scanning => (curr[t] \in crawled' \/ (pc'[t] \in Scanning /\ curr'[t] = curr[t]))
    <3>1. CASE EndOfLinks(t)
      BY <3>1 DEF EndOfLinks
    <3>2. CASE NextURL(t) \/ HSearch(t) \/ HPut(t) \/ QPut(t)
      BY <3>2 DEF NextURL, HSearch, HPut, QPut, locals
    <3>3. CASE \/ Create(t) \/ QGet(t) \/ CheckActive(t) \/ Activate(t) \/ Deactivate(t)
               \/ Fetch(t) \/ FetchFails(t) \/ ReadId(t) \/ WriteId(t) \/ Save(t)
      BY <3>3 DEF Create, QGet, CheckActive, Activate, Deactivate, ReadActive, WriteActive,
         Fetch, FetchFails, ReadId, WriteId, Save
    <3> QED
      BY <1>1, <3>1, <3>2, <3>3 DEF ThreadStep
  <2> QED
    BY <1>1, <2>1, <2>2, Others
<1>2. CASE Join \/ Exited \/ UNCHANGED vars
  BY <1>2 DEF Join, Exited, vars, locals, outcome
<1> QED
  BY <1>1, <1>2 DEF Next

\* A step makes at most one page, the child of a page that is being scanned.
LEMMA StepReach == CoreInv /\ ReachInv /\ [Next]_vars => ReachInv'
<1> SUFFICES ASSUME CoreInv, ReachInv, [Next]_vars, NEW p \in PagesMet', p # SeedPage
             PROVE  \E q \in Retrieved : LinkedFrom(p, q)
  BY RetrievedStays DEF ReachInv, LinkedFrom, SeedPage
<1>1. p \in PagesMet => \E q \in Retrieved : LinkedFrom(p, q)
  BY DEF ReachInv
<1>2. ASSUME NEW t \in Threads, Create(t) \/ ThreadStep(t), p \notin PagesMet
      PROVE  \E q \in Retrieved : LinkedFrom(p, q)
  <2>1. \A s \in Threads \ {t} : Held(s)' = Held(s)
    BY <1>2, Others DEF Held
  <2>2. /\ p \notin InQueue(queue) \cup Held(t) \cup crawled \cup failed
        /\ p \in InQueue(queue)' \cup Held(t)' \cup crawled' \cup failed'
    <3>1. p \notin InQueue(queue) \cup crawled \cup failed /\ \A s \in Threads : p \notin Held(s)
      BY <1>2 DEF PagesMet
    <3>2. p \in InQueue(queue)' \cup crawled' \cup failed' \/ \E s \in Threads : p \in Held(s)'
      BY DEF PagesMet
    <3> QED
      BY <2>1, <3>1, <3>2
  <2>3. \/ PageStays(t) \/ PageTaken(t) \/ PageCrawled(t) \/ PageFailed(t) \/ PageOffered(t)
        => FALSE
    BY <2>2 DEF PageStays, PageTaken, PageCrawled, PageFailed, PageEnds, PageOffered
  <2>7. CASE PageQueued(t)
    <3>1. p = Child(t)
      BY <2>2, <2>7 DEF PageQueued
    <3>2. curr[t] \in Retrieved
      BY <2>7 DEF PageQueued, Retrieved, Scanning
    <3> QED
      BY <2>7, <3>1, <3>2, ChildLinked DEF PageQueued
  <2> QED
    BY <1>2, <2>3, <2>7, PageMoves
<1>3. CASE Join \/ Exited \/ UNCHANGED vars
  <2>1. PagesMet' = PagesMet
    BY <1>3 DEF Join, Exited, vars, shared, locals, outcome, PagesMet, InQueue, Held
  <2> QED
    BY <1>1, <2>1
<1> QED
  BY <1>1, <1>2, <1>3 DEF Next

\* Only the seed is queued at first.
LEMMA InitReach == Init => ReachInv
<1> SUFFICES ASSUME Init PROVE PagesMet \subseteq {SeedPage}
  BY DEF ReachInv
<1>1. InQueue(queue) = {SeedPage}
  BY DEF Init, InQueue
<1> QED
  BY <1>1 DEF Init, PagesMet, Held

\* Every page that was saved or failed, but the seed, has one above it that was saved or is
\* in work and that links to it, whatever fails and in whatever order the threads run.
THEOREM PagesReached == Spec => []Reached
<1>1. Init => CoreInv /\ ReachInv
  BY InitCore, InitReach
<1>2. CoreInv /\ ReachInv /\ [Next]_vars => (CoreInv /\ ReachInv)'
  BY StepCore, StepReach
<1>3. CoreInv /\ ReachInv => Reached
  <2> SUFFICES ASSUME CoreInv, ReachInv, NEW p \in crawled \cup failed, p # SeedPage
               PROVE  \E q \in crawled \cup {curr[t] : t \in Threads} :
                        q # NoPage /\ LinkedFrom(p, q)
    BY DEF Reached, LinkedFrom
  <2>1. PICK q \in Retrieved : LinkedFrom(p, q)
    BY DEF ReachInv, PagesMet
  <2>2. q # NoPage
    <3>1. \A r \in crawled : r # NoPage
      BY ThreadAssumption DEF CoreInv, TypeOK
    <3>2. \A t \in Threads : pc[t] \in Scanning => curr[t] # NoPage
      BY DEF CoreInv, PageInv, Scanning, Holding
    <3> QED
      BY <3>1, <3>2 DEF Retrieved
  <2>3. q \in crawled \cup {curr[t] : t \in Threads}
    BY DEF Retrieved
  <2> QED
    BY <2>1, <2>2, <2>3
<1> QED
  BY <1>1, <1>2, <1>3, PTL DEF Spec

\* Every page that was put in the queue but the seed lies below another that was retrieved
\* and that links to it, which was put there, too: by its parents it leads to the seed.
Linked ==
  \A p \in PagesMet : p = SeedPage \/ \E q \in Retrieved \cap PagesMet : LinkedFrom(p, q)

\* Every page queued, with a thread, saved or failed was put in the queue by a link of a
\* page one level above it, whose own parent is as well known, down to the seed.
THEOREM PagesAreLinked == Spec => []Linked
<1>1. Init => CoreInv /\ ReachInv
  BY InitCore, InitReach
<1>2. CoreInv /\ ReachInv /\ [Next]_vars => (CoreInv /\ ReachInv)'
  BY StepCore, StepReach
<1>3. CoreInv /\ ReachInv => Linked
  <2> SUFFICES ASSUME CoreInv, ReachInv PROVE Retrieved \subseteq PagesMet
    BY DEF Linked, ReachInv
  <2>1. \A t \in Threads : pc[t] \in Scanning => curr[t] \in Held(t)
    BY DEF CoreInv, PageInv, Scanning, Holding, Held
  <2> QED
    BY <2>1 DEF Retrieved, PagesMet
<1> QED
  BY <1>1, <1>2, <1>3, PTL DEF Spec

-----------------------------------------------------------------------------
(***************************************************************************)
(* Nothing is left out.                                                    *)
(***************************************************************************)
\* A thread at the end of the list has dealt with every link of its page.
LEMMA AllSeen ==
  ASSUME CoreInv, ScanInv, NEW t \in Threads, pc[t] = "scan", pos[t] = Len(PageLinks(t))
  PROVE  Children(curr[t].url) \subseteq visited
<1>1. curr[t] \in Page
  BY DEF CoreInv, TypeOK, PageInv, Holding
<1>2. DOMAIN Links[curr[t].url] = 1..Seen(t)
  BY <1>1, PageType DEF Seen, PageLinks
<1>3. \A i \in 1..Seen(t) : IsInternalURL(PageLinks(t)[i]) => Norm[PageLinks(t)[i]] \in visited
  BY DEF ScanInv, Scanning
<1> QED
  BY <1>2, <1>3 DEF Children, PageLinks

\* The table of known URLs only grows.
LEMMA VisitedGrows ==
  ASSUME CoreInv, lost' = 0, NEW t \in Threads, Create(t) \/ ThreadStep(t)
  PROVE  visited \subseteq visited'
BY PageMoves DEF PageStays, PageTaken, PageCrawled, PageFailed, PageEnds, PageOffered, PageQueued

\* A step of t through the loop deals with one link at a time, and leaves a link
\* behind only when its URL is known or external.
LEMMA StepSeen ==
  ASSUME CoreInv, ScanInv, lost' = 0, NEW t \in Threads, Create(t) \/ ThreadStep(t),
         pc'[t] \in Scanning, NEW i \in 1..Seen(t)', IsInternalURL(PageLinks(t)'[i])
  PROVE  Norm[PageLinks(t)'[i]] \in visited'
<1> USE DEF CoreInv, TypeOK, Scanning
<1>1. \A j \in 1..Seen(t) : pc[t] \in Scanning /\ IsInternalURL(PageLinks(t)[j]) =>
        Norm[PageLinks(t)[j]] \in visited'
  BY VisitedGrows DEF ScanInv
<1>2. CASE Save(t)
  <2>1. Seen(t)' = 0
    BY <1>2 DEF Save, Seen
  <2> QED
    BY <2>1
<1>3. CASE NextURL(t)
  <2>1. /\ pc[t] = "scan" /\ pos[t] \in Nat /\ pos'[t] = pos[t] + 1 /\ PageLinks(t)' = PageLinks(t)
        /\ pc'[t] = IF IsInternalURL(PageLinks(t)[pos[t] + 1]) THEN "hsearch" ELSE "scan"
    BY <1>3 DEF NextURL, PageLinks
  <2>2. i \in 1..Seen(t) \/ (i = pos[t] + 1 /\ ~IsInternalURL(PageLinks(t)[pos[t] + 1]))
    BY <2>1 DEF Seen
  <2> QED
    BY <1>1, <2>1, <2>2
<1>4. CASE HSearch(t)
  <2>1. /\ pc[t] = "hsearch" /\ pos[t] \in Nat /\ pos'[t] = pos[t] /\ PageLinks(t)' = PageLinks(t)
        /\ pc'[t] = IF Result(t) \in visited THEN "scan" ELSE "hput"
        /\ visited' = visited
    BY <1>4 DEF HSearch, PageLinks, locals, shared
  <2>2. i \in 1..Seen(t) \/ (i = pos[t] /\ Result(t) \in visited)
    BY <2>1 DEF Seen
  <2> QED
    BY <1>1, <2>1, <2>2 DEF Result
<1>5. CASE HPut(t)
  <2>1. /\ pc[t] = "hput" /\ pos[t] \in Nat /\ pos'[t] = pos[t] /\ PageLinks(t)' = PageLinks(t)
        /\ pc'[t] = "qput" /\ visited' = visited \cup {Result(t)}
    BY <1>5 DEF HPut, Lose, PageLinks, locals
  <2>2. i \in 1..Seen(t) \/ i = pos[t]
    BY <2>1 DEF Seen
  <2> QED
    BY <1>1, <2>1, <2>2 DEF Result
<1>6. CASE QPut(t)
  <2>1. /\ pc[t] = "qput" /\ pos'[t] = pos[t] /\ PageLinks(t)' = PageLinks(t) /\ pc'[t] = "scan"
    BY <1>6 DEF QPut, PageLinks, locals
  <2>2. i \in 1..Seen(t)
    BY <2>1 DEF Seen
  <2> QED
    BY <1>1, <2>1, <2>2
<1>7. CASE \/ Create(t) \/ QGet(t) \/ CheckActive(t) \/ Activate(t) \/ Deactivate(t)
           \/ Fetch(t) \/ FetchFails(t) \/ ReadId(t) \/ WriteId(t) \/ EndOfLinks(t)
  BY <1>7 DEF Create, QGet, CheckActive, Activate, Deactivate, ReadActive, WriteActive,
     Fetch, FetchFails, ReadId, WriteId, EndOfLinks
<1> QED
  BY <1>2, <1>3, <1>4, <1>5, <1>6, <1>7 DEF ThreadStep

\* No step loses a link or a URL as long as no allocation fails.
LEMMA StepLink == CoreInv /\ UrlInv /\ LinkInv /\ [Next]_vars => LinkInv'
<1> SUFFICES ASSUME CoreInv, OwnerInv, ScanInv, CoverInv, lost' = 0, [Next]_vars
             PROVE  ScanInv' /\ CoverInv'
  BY LostStays DEF UrlInv, LinkInv
<1>1. ASSUME NEW t \in Threads, Create(t) \/ ThreadStep(t) PROVE ScanInv'
  <2>1. ASSUME NEW p \in crawled', Scanned(p) PROVE Children(p.url) \subseteq visited'
    <3>1. p \in crawled \/ (p = curr[t] /\ PageCrawled(t))
      BY <1>1, PageMoves DEF PageStays, PageTaken, PageCrawled, PageFailed, PageOffered, PageQueued
    <3>2. p \in crawled => Children(p.url) \subseteq visited
      BY <2>1 DEF ScanInv
    <3>3. p = curr[t] /\ PageCrawled(t) => Children(p.url) \subseteq visited
      BY <2>1, AllSeen DEF PageCrawled
    <3> QED
      BY <1>1, <3>1, <3>2, <3>3, VisitedGrows
  <2>2. ASSUME NEW s \in Threads, pc'[s] \in Scanning, NEW i \in 1..Seen(s)',
               IsInternalURL(PageLinks(s)'[i])
        PROVE  Norm[PageLinks(s)'[i]] \in visited'
    <3>1. CASE s = t
      BY <1>1, <2>2, <3>1, StepSeen
    <3>2. CASE s # t
      <4>1. pc'[s] = pc[s] /\ Seen(s)' = Seen(s) /\ PageLinks(s)' = PageLinks(s)
        BY <1>1, <3>2, Others DEF Seen, PageLinks
      <4>2. Norm[PageLinks(s)[i]] \in visited
        BY <2>2, <4>1 DEF ScanInv
      <4> QED
        BY <1>1, <4>1, <4>2, VisitedGrows
    <3> QED
      BY <3>1, <3>2
  <2> QED
    BY <2>1, <2>2 DEF ScanInv
<1>2. ASSUME NEW t \in Threads, Create(t) \/ ThreadStep(t), NEW u \in visited'
      PROVE  u \in UrlsOf(queue)' \cup DoneUrls' \cup (UNION {Owned(s) : s \in Threads})'
  <2>1. \A s \in Threads \ {t} : Owned(s)' = Owned(s)
    BY <1>2, Others DEF Owned, Current, Pending
  <2>2. \/ u \in UrlsOf(queue) \cup DoneUrls \cup Owned(t)
        \/ \E s \in Threads \ {t} : u \in Owned(s)'
        \/ u \notin visited
    BY <2>1 DEF CoverInv
  <2>3. \/ u \in UrlsOf(queue)' \cup DoneUrls' \cup Owned(t)'
        \/ \E s \in Threads \ {t} : u \in Owned(s)'
    <3>1. CASE Unmoved(t)
      BY <2>2, <3>1 DEF Unmoved, Owned
    <3>2. CASE Taken(t)
      <4>1. UrlsOf(queue') = UrlsOf(queue) \ {Head(queue).url}
        BY <3>2, QueueUrls DEF Taken, CoreInv, TypeOK, OwnerInv
      <4> QED
        BY <2>2, <3>2, <4>1 DEF Taken, Owned
    <3>3. CASE Finished(t)
      BY <2>2, <3>3 DEF Finished, Owned
    <3>4. CASE Met(t)
      BY <2>2, <3>4 DEF Met, Owned
    <3>5. CASE PutBack(t)
      <4>1. UrlsOf(queue') = UrlsOf(queue) \cup {Child(t).url}
        BY <3>5, QueueUrls, ResultType DEF PutBack, CoreInv, TypeOK
      <4> QED
        BY <2>2, <3>5, <4>1 DEF PutBack, Owned
    <3> QED
      BY <1>2, <3>1, <3>2, <3>3, <3>4, <3>5, Moves
  <2> QED
    BY <2>3
<1>3. CASE Join \/ Exited \/ UNCHANGED vars
  BY <1>3 DEF ScanInv, CoverInv, UrlsOf, Owned, Current, Pending, DoneUrls, Result, Seen,
     PageLinks, Join, Exited, vars, shared, locals, outcome
<1> QED
  BY <1>1, <1>2, <1>3 DEF Next, CoverInv

\* At first no page has been retrieved and the only known URL is queued.
LEMMA InitLink == Init => LinkInv
BY DEF Init, LinkInv, ScanInv, CoverInv, UrlsOf, SeedPage, Scanning

\* main waits for all threads, and a thread that has returned does nothing more.
LEMMA StepExit == CoreInv /\ ExitInv /\ [Next]_vars => ExitInv'
<1> SUFFICES ASSUME CoreInv, ExitInv, [Next]_vars PROVE ExitInv'
  OBVIOUS
<1>1. ASSUME NEW t \in Threads, Create(t) \/ ThreadStep(t) PROVE ExitInv'
  <2>1. pc[t] # "done"
    BY <1>1 DEF Create, ThreadStep, QGet, CheckActive, Activate, Deactivate, ReadActive,
       WriteActive, Fetch, FetchFails, ReadId, WriteId, Save, NextURL, EndOfLinks, HSearch,
       HPut, QPut
  <2>2. main' = main \/ Create(t)
    BY <1>1 DEF ThreadStep, QGet, CheckActive, Activate, Deactivate, ReadActive,
       WriteActive, Fetch, FetchFails, ReadId, WriteId, Save, NextURL, EndOfLinks, HSearch,
       HPut, QPut, process
  <2>3. Create(t) => main' # "exited"
    BY DEF Create
  <2> QED
    BY <2>1, <2>2, <2>3 DEF ExitInv
<1>2. CASE Join \/ Exited \/ UNCHANGED vars
  BY <1>2 DEF ExitInv, Join, Exited, vars, process
<1> QED
  BY <1>1, <1>2 DEF Next

\* When the process exits, every known URL was retrieved or failed, and every
\* internal link of a page above the depth limit is known.
THEOREM CrawlComplete == Spec => []Complete
<1>1. Init => ExitInv
  BY DEF Init, ExitInv
<1>2. CoreInv /\ UrlInv /\ NoPageAbandoned /\ LinkInv /\ ExitInv => Complete
  <2> SUFFICES ASSUME CoreInv, VisitedInv, NoPageAbandoned, ScanInv, CoverInv,
                      \A t \in Threads : pc[t] = "done"
               PROVE  /\ visited = {p.url : p \in crawled \cup failed}
                      /\ \A p \in crawled : Scanned(p) => Children(p.url) \subseteq visited
    BY DEF UrlInv, LinkInv, ExitInv, Complete
  <2>1. UrlsOf(queue) = {}
    BY DEF NoPageAbandoned, UrlsOf
  <2>2. \A t \in Threads : Owned(t) = {}
    BY DEF CoreInv, PageInv, Holding, Owned, Current, Pending
  <2> QED
    BY <2>1, <2>2 DEF VisitedInv, ScanInv, CoverInv, DoneUrls
<1> QED
  BY <1>1, <1>2, InitLink, StepLink, StepExit, CoreInvariant, OwnersDisjoint,
     PagesNotAbandoned, PTL DEF Spec

-----------------------------------------------------------------------------
(***************************************************************************)
(* Every step of a thread is a step of Crawl, or changes nothing there.    *)
(***************************************************************************)
\* The pages a thread has in work, as it sees them.
Works(t) == Held(t) \cup Offered(t)

\* The frontier of the crawl is the queue and what the threads have in work.
LEMMA FrontierParts == Frontier = InQueue(queue) \cup (UNION {Works(t) : t \in Threads})
<1>1. {curr[t] : t \in {s \in Threads : curr[s] # NoPage}} = UNION {Held(t) : t \in Threads}
  BY DEF Held
<1>2. {Child(t) : t \in {s \in Threads : At(s, "qput")}} = UNION {Offered(t) : t \in Threads}
  BY DEF Offered
<1>3. UNION {Works(t) : t \in Threads} =
        (UNION {Held(t) : t \in Threads}) \cup (UNION {Offered(t) : t \in Threads})
  BY DEF Works
<1> QED
  BY <1>1, <1>2, <1>3 DEF Frontier, InQueue

\* No two places hold a page with the same URL.
LEMMA FrontierDisjoint ==
  ASSUME CoreInv, OwnerInv, NEW t \in Threads
  PROVE  /\ \A p \in InQueue(queue) : p.url \notin Owned(t)
         /\ \A s \in Threads \ {t} : \A p \in Works(s) : p.url \notin Owned(t)
         /\ \A p \in Works(t) : p.url \in Owned(t)
<1>1. \A s \in Threads : \A p \in Works(s) : p.url \in Owned(s)
  BY ResultType DEF Works, Held, Offered, Owned, Current, Pending, Child
<1>2. \A p \in InQueue(queue) : p.url \in UrlsOf(queue)
  BY DEF InQueue, UrlsOf
<1> QED
  BY <1>1, <1>2 DEF OwnerInv

\* What a step of t does to the frontier.
LEMMA StepFrontier ==
  ASSUME CoreInv, OwnerInv, lost' = 0, NEW t \in Threads, Create(t) \/ ThreadStep(t)
  PROVE  /\ PageStays(t) \/ PageTaken(t) \/ PageQueued(t) => Frontier' = Frontier
         /\ PageEnds(t) => curr[t] \in Frontier /\ Frontier' = Frontier \ {curr[t]}
         /\ PageOffered(t) => Frontier' = Frontier \cup {Child(t)}
<1> DEFINE Rest == UNION {Works(s) : s \in Threads \ {t}}
<1>1. Frontier = InQueue(queue) \cup Works(t) \cup Rest
  BY FrontierParts
<1>2. Frontier' = InQueue(queue)' \cup Works(t)' \cup Rest
  <2>1. \A s \in Threads \ {t} : Works(s)' = Works(s)
    BY Others DEF Works, Held, Offered, Child
  <2>2. Frontier' = InQueue(queue)' \cup (UNION {Works(s) : s \in Threads})'
    <3>1. {curr'[s] : s \in {r \in Threads : curr'[r] # NoPage}} = (UNION {Held(s) : s \in Threads})'
      BY DEF Held
    <3>2. {Child(s)' : s \in {r \in Threads : At(r, "qput")'}} = (UNION {Offered(s) : s \in Threads})'
      BY DEF Offered
    <3>3. (UNION {Works(s) : s \in Threads})' =
            (UNION {Held(s) : s \in Threads})' \cup (UNION {Offered(s) : s \in Threads})'
      BY DEF Works
    <3> QED
      BY <3>1, <3>2, <3>3 DEF Frontier, InQueue
  <2>3. (UNION {Works(s) : s \in Threads})' = Works(t)' \cup Rest
    BY <2>1
  <2> QED
    BY <2>2, <2>3
<1> HIDE DEF Rest
<1>3. PageStays(t) \/ PageTaken(t) \/ PageQueued(t) => Frontier' = Frontier
  BY <1>1, <1>2 DEF PageStays, PageTaken, PageQueued, Works
<1>4. ASSUME PageEnds(t)
      PROVE  curr[t] \in Frontier /\ Frontier' = Frontier \ {curr[t]}
  <2>1. Works(t) = {curr[t]} /\ Works(t)' = {} /\ InQueue(queue)' = InQueue(queue)
    BY <1>4 DEF PageEnds, Works
  <2>2. curr[t] \notin InQueue(queue) \cup Rest
    BY <2>1, FrontierDisjoint DEF Rest
  <2> QED
    BY <1>1, <1>2, <2>1, <2>2
<1>5. PageOffered(t) => Frontier' = Frontier \cup {Child(t)}
  BY <1>1, <1>2 DEF PageOffered, Works
<1> QED
  BY <1>3, <1>4, <1>5

\* Every step of the process takes a step of the crawl or none.
LEMMA StepCrawl ==
  ASSUME CoreInv, UrlInv, LinkInv, [Next]_vars, lost' = 0
  PROVE  Abstract!Next \/ UNCHANGED Abstract!vars
<1>1. VisitedInv /\ OwnerInv /\ ScanInv
  BY LostStays DEF UrlInv, LinkInv
<1>2. ASSUME NEW t \in Threads, Create(t) \/ ThreadStep(t)
      PROVE  Abstract!Next \/ UNCHANGED Abstract!vars
  <2>1. CASE PageStays(t) \/ PageTaken(t) \/ PageQueued(t)
    BY <1>1, <1>2, <2>1, StepFrontier DEF Abstract!vars, PageStays, PageTaken, PageQueued
  <2>2. CASE PageCrawled(t)
    <3>1. Scanned(curr[t]) => Children(curr[t].url) \subseteq visited
      BY <1>1, <2>2, AllSeen DEF PageCrawled
    <3>2. Abstract!FinishPage(curr[t])
      BY <1>1, <1>2, <2>2, <3>1, StepFrontier
         DEF PageCrawled, PageEnds, Abstract!FinishPage, Abstract!Scanned, Scanned,
             Abstract!Children, Children, Abstract!IsInternalURL, IsInternalURL
    <3> QED
      BY <1>1, <1>2, <2>2, <3>2, StepFrontier DEF PageCrawled, Abstract!Next, Abstract!Step
  <2>3. CASE PageFailed(t)
    <3>1. Abstract!FailPage(curr[t])
      BY <1>1, <1>2, <2>3, StepFrontier DEF PageFailed, PageEnds, Abstract!FailPage
    <3> QED
      BY <1>1, <1>2, <2>3, <3>1, StepFrontier DEF PageFailed, Abstract!Next, Abstract!Step
  <2>4. CASE PageOffered(t)
    <3>1. /\ Scanned(curr[t]) /\ Result(t) \in Urls
          /\ Result(t) \in Children(curr[t].url) \ visited
      BY <1>1, <2>4, ChildLinked, ResultType DEF PageOffered, VisitedInv
    <3>2. Abstract!Discover(curr[t], Result(t))
      BY <1>1, <1>2, <2>4, <3>1, StepFrontier
         DEF PageOffered, Child, Abstract!Discover, Abstract!Scanned, Scanned,
             Abstract!Children, Children, Abstract!IsInternalURL, IsInternalURL
    <3>3. curr[t] \in Frontier
      <4>1. curr[t] \in Works(t)
        BY <2>4, ChildLinked DEF PageOffered, Works, Held
      <4> QED
        BY <4>1, FrontierParts
    <3> QED
      BY <3>1, <3>2, <3>3 DEF Abstract!Next, Abstract!Step
  <2> QED
    BY <1>2, <2>1, <2>2, <2>3, <2>4, PageMoves
<1>3. CASE Join \/ Exited \/ UNCHANGED vars
  BY <1>3 DEF Join, Exited, vars, shared, locals, outcome, Abstract!vars, Frontier, Child,
     Result, PageLinks
<1> QED
  BY <1>2, <1>3 DEF Next

\* As long as no allocation fails, the threads together take the steps of the
\* crawl of module Crawl and no other: every page is retrieved once, no URL is
\* offered twice, and no page is put aside before its links are known.
THEOREM ThreadsCrawl ==
  Spec => /\ Abstract!Init
          /\ [][lost' = 0 => Abstract!Next \/ UNCHANGED Abstract!vars]_vars
<1>1. Init => Abstract!Init
  BY DEF Init, Abstract!Init, Abstract!SeedPage, SeedPage, Frontier
<1>2. CoreInv /\ UrlInv /\ LinkInv /\ [Next]_vars =>
        [lost' = 0 => Abstract!Next \/ UNCHANGED Abstract!vars]_vars
  BY StepCrawl
<1> QED
  BY <1>1, <1>2, InitLink, StepLink, CoreInvariant, OwnersDisjoint, PTL DEF Spec

=============================================================================
