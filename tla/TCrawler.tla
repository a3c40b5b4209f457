------------------------------ MODULE TCrawler ------------------------------
(***************************************************************************)
(* The multi-threaded crawler, tse/crawler/tcrawler.c.  main queues the    *)
(* seed, starts the threads and joins them; every thread runs              *)
(* crawler_thread.  A critical section that makes one access to the shared *)
(* data is one step; in a section of several accesses the mutex is a       *)
(* variable that the thread holds from one step to the next, and the value *)
(* it read is in reg.                                                      *)
(***************************************************************************)
EXTENDS Web, FiniteSets

CONSTANTS
  Threads,      \* the numthreads worker threads
  NoThread,     \* the owner of a free mutex
  NoPage,       \* curr == NULL
  MaxLost       \* bound: how often a strdup, hput or qput fails

ASSUME ThreadAssumption ==
  /\ Threads # {} /\ IsFiniteSet(Threads)   \* tcrawler.c:155
  /\ NoThread \notin Threads
  /\ NoPage \notin Page
  /\ MaxLost \in Nat

VARIABLES
  \* shared_data_t
  queue, visited, page_id, active_threads,
  hash_mutex, id_mutex, active_mutex,
  \* one per thread: the program counter and the locals of crawler_thread
  pc, curr, pos, reg,
  \* main, and the number it prints
  main, printed,
  \* the page files, what became of the pages that were deleted, and how many
  \* allocations have failed
  pagedir, crawled, failed, lost

shared  == <<queue, visited, page_id, active_threads>>
mutexes == <<hash_mutex, id_mutex, active_mutex>>
locals  == <<curr, pos, reg>>
process == <<main, printed>>
outcome == <<pagedir, crawled, failed, lost>>
vars    == <<shared, mutexes, pc, locals, process, outcome>>

Goto(t, label) == pc' = [pc EXCEPT ![t] = label]

At(t, label) == pc[t] = label

-----------------------------------------------------------------------------
(***************************************************************************)
(* main up to the creation of the threads.                                 *)
(***************************************************************************)
\* Faulty variant: the file numbers start at 0.
InitFromZero ==
  /\ queue = <<SeedPage>>
  /\ visited = {Seed}
  /\ page_id = 0
  /\ active_threads = 0
  /\ hash_mutex = NoThread /\ id_mutex = NoThread /\ active_mutex = NoThread
  /\ pc = [t \in Threads |-> "unborn"]
  /\ curr = [t \in Threads |-> NoPage]
  /\ pos = [t \in Threads |-> 0]
  /\ reg = [t \in Threads |-> 0]
  /\ main = "create" /\ printed = 0
  /\ pagedir = [i \in {} |-> SeedPage]
  /\ crawled = {} /\ failed = {} /\ lost = 0

Init ==
  /\ queue = <<SeedPage>>
  /\ visited = {Seed}
  /\ page_id = 1
  /\ active_threads = 0
  /\ hash_mutex = NoThread /\ id_mutex = NoThread /\ active_mutex = NoThread
  /\ pc = [t \in Threads |-> "unborn"]
  /\ curr = [t \in Threads |-> NoPage]
  /\ pos = [t \in Threads |-> 0]
  /\ reg = [t \in Threads |-> 0]
  /\ main = "create" /\ printed = 0
  /\ pagedir = [i \in {} |-> SeedPage]
  /\ crawled = {} /\ failed = {} /\ lost = 0

\* One pthread_create; the new thread may run before the next is created.
Create(t) ==
  /\ main = "create"
  /\ At(t, "unborn")
  /\ Goto(t, "qget")
  /\ main' = IF \A s \in Threads \ {t} : ~At(s, "unborn") THEN "join" ELSE main
  /\ UNCHANGED <<shared, mutexes, locals, printed, outcome>>

\* The last pthread_join returns; main prints the count and frees everything.
\* What it frees is not read again and keeps its value here.
Join ==
  /\ main = "join"
  /\ \A t \in Threads : At(t, "done")
  /\ main' = "exited"
  /\ printed' = page_id - 1
  /\ UNCHANGED <<shared, mutexes, pc, locals, outcome>>

-----------------------------------------------------------------------------
(***************************************************************************)
(* crawler_thread: taking a page, or finding that there is none.           *)
(***************************************************************************)
QGet(t) ==
  /\ At(t, "qget")
  /\ \/ /\ queue = <<>>
        /\ Goto(t, "check")
        /\ UNCHANGED <<queue, curr>>
     \/ /\ queue # <<>>
        /\ curr' = [curr EXCEPT ![t] = Head(queue)]
        /\ queue' = Tail(queue)
        /\ Goto(t, "activate")
  /\ UNCHANGED <<visited, page_id, active_threads, mutexes, pos, reg, process, outcome>>

\* The queue was empty: stop if nobody is active, otherwise sleep and retry.
CheckActive(t) ==
  /\ At(t, "check")
  /\ active_mutex = NoThread
  /\ Goto(t, IF active_threads = 0 THEN "done" ELSE "qget")
  /\ UNCHANGED <<shared, mutexes, locals, process, outcome>>

\* active_threads++ and active_threads--: read the counter, then write it.
ReadActive(t, from, to) ==
  /\ At(t, from)
  /\ active_mutex = NoThread
  /\ active_mutex' = t
  /\ reg' = [reg EXCEPT ![t] = active_threads]
  /\ Goto(t, to)
  /\ UNCHANGED <<shared, hash_mutex, id_mutex, curr, pos, process, outcome>>

WriteActive(t, from, to, n) ==
  /\ At(t, from)
  /\ active_threads' = reg[t] + n
  /\ active_mutex' = NoThread
  /\ Goto(t, to)
  /\ UNCHANGED <<queue, visited, page_id, hash_mutex, id_mutex, locals, process, outcome>>

Activate(t) ==
  \/ ReadActive(t, "activate", "activating")
  \/ WriteActive(t, "activating", "fetch", 1)

Deactivate(t) ==
  \/ ReadActive(t, "deactivate", "deactivating")
  \/ WriteActive(t, "deactivating", "qget", -1)

-----------------------------------------------------------------------------
(***************************************************************************)
(* Fetching and saving the page.                                           *)
(***************************************************************************)
\* webpage_delete(curr)
Delete(t) == curr' = [curr EXCEPT ![t] = NoPage]

Fetch(t) ==
  /\ At(t, "fetch")
  /\ Goto(t, "newid")
  /\ UNCHANGED <<shared, mutexes, locals, process, outcome>>

\* Faulty variant: the early exit of a failed fetch stays active.
FetchFailsActive(t) ==
  /\ At(t, "fetch")
  /\ failed' = failed \cup {curr[t]}
  /\ Delete(t)
  /\ Goto(t, "qget")
  /\ UNCHANGED <<shared, mutexes, pos, reg, process, pagedir, crawled, lost>>

\* Faulty variant: a failed fetch leaves the loop instead of continuing it.
FetchFailsBreaks(t) ==
  /\ At(t, "fetch")
  /\ failed' = failed \cup {curr[t]}
  /\ active_mutex = NoThread
  /\ active_threads' = active_threads - 1
  /\ Delete(t)
  /\ Goto(t, "done")
  /\ UNCHANGED <<queue, visited, page_id, mutexes, pos, reg, process, pagedir, crawled, lost>>

FetchFails(t) ==
  /\ At(t, "fetch")
  /\ failed' = failed \cup {curr[t]}
  /\ Delete(t)
  /\ Goto(t, "deactivate")
  /\ UNCHANGED <<shared, mutexes, pos, reg, process, pagedir, crawled, lost>>

\* Faulty variant: page_id++ outside of id_mutex.
ReadIdUnlocked(t) ==
  /\ At(t, "newid")
  /\ reg' = [reg EXCEPT ![t] = page_id]
  /\ Goto(t, "setid")
  /\ UNCHANGED <<shared, mutexes, curr, pos, process, outcome>>

\* int id = shared->page_id++ under id_mutex; reg keeps the id.
ReadId(t) ==
  /\ At(t, "newid")
  /\ id_mutex = NoThread
  /\ id_mutex' = t
  /\ reg' = [reg EXCEPT ![t] = page_id]
  /\ Goto(t, "setid")
  /\ UNCHANGED <<shared, hash_mutex, active_mutex, curr, pos, process, outcome>>

WriteId(t) ==
  /\ At(t, "setid")
  /\ page_id' = reg[t] + 1
  /\ id_mutex' = NoThread
  /\ Goto(t, "save")
  /\ UNCHANGED <<queue, visited, active_threads, hash_mutex, active_mutex, locals, process, outcome>>

\* pagesave: fopen(.., "w") creates or truncates the file of this id.
WriteFile(id, p) ==
  pagedir' = [i \in DOMAIN pagedir \cup {id} |-> IF i = id THEN p ELSE pagedir[i]]

\* Faulty variant: the depth test is made for the children.
SaveShallow(t) ==
  /\ At(t, "save")
  /\ \/ WriteFile(reg[t], curr[t])
     \/ UNCHANGED pagedir
  /\ IF curr[t].depth + 1 < MaxDepth
     THEN /\ Goto(t, "scan")
          /\ pos' = [pos EXCEPT ![t] = 0]
          /\ UNCHANGED <<curr, crawled>>
     ELSE /\ Goto(t, "deactivate")
          /\ Delete(t)
          /\ crawled' = crawled \cup {curr[t]}
          /\ UNCHANGED pos
  /\ UNCHANGED <<shared, mutexes, reg, process, failed, lost>>

\* The result of pagesave is ignored; the depth test decides about the scan.
Save(t) ==
  /\ At(t, "save")
  /\ \/ WriteFile(reg[t], curr[t])
     \/ UNCHANGED pagedir
  /\ IF Scanned(curr[t])
     THEN /\ Goto(t, "scan")
          /\ pos' = [pos EXCEPT ![t] = 0]
          /\ UNCHANGED <<curr, crawled>>
     ELSE /\ Goto(t, "deactivate")
          /\ Delete(t)
          /\ crawled' = crawled \cup {curr[t]}
          /\ UNCHANGED pos
  /\ UNCHANGED <<shared, mutexes, reg, process, failed, lost>>

-----------------------------------------------------------------------------
(***************************************************************************)
(* The loop over the links of the page.                                    *)
(***************************************************************************)
PageLinks(t) == Links[curr[t].url]

\* result, after IsInternalURL has normalised it
Result(t) == Norm[PageLinks(t)[pos[t]]]

\* Faulty variant: the test for internal URLs is missing.
NextAnyURL(t) ==
  /\ At(t, "scan")
  /\ pos[t] < Len(PageLinks(t))
  /\ pos' = [pos EXCEPT ![t] = @ + 1]
  /\ Goto(t, "hsearch")
  /\ UNCHANGED <<shared, mutexes, curr, reg, process, outcome>>

NextURL(t) ==
  /\ At(t, "scan")
  /\ pos[t] < Len(PageLinks(t))
  /\ pos' = [pos EXCEPT ![t] = @ + 1]
  /\ Goto(t, IF IsInternalURL(PageLinks(t)[pos[t] + 1]) THEN "hsearch" ELSE "scan")
  /\ UNCHANGED <<shared, mutexes, curr, reg, process, outcome>>

EndOfLinks(t) ==
  /\ At(t, "scan")
  /\ pos[t] = Len(PageLinks(t))
  /\ crawled' = crawled \cup {curr[t]}
  /\ Delete(t)
  /\ Goto(t, "deactivate")
  /\ UNCHANGED <<shared, mutexes, pos, reg, process, pagedir, failed, lost>>

\* Faulty variant: hash_mutex is released between hsearch and hput.
HSearchUnlocks(t) ==
  /\ At(t, "hsearch")
  /\ hash_mutex = NoThread
  /\ IF Result(t) \in visited
     THEN Goto(t, "scan") ELSE Goto(t, "hput")
  /\ UNCHANGED <<shared, mutexes, locals, process, outcome>>

\* hsearch under hash_mutex, which stays locked when the URL is new.
HSearch(t) ==
  /\ At(t, "hsearch")
  /\ hash_mutex = NoThread
  /\ IF Result(t) \in visited
     THEN Goto(t, "scan") /\ UNCHANGED hash_mutex
     ELSE Goto(t, "hput") /\ hash_mutex' = t
  /\ UNCHANGED <<shared, id_mutex, active_mutex, locals, process, outcome>>

\* An allocation fails.
Lose == lost < MaxLost /\ lost' = lost + 1

\* strdup and hput; a failed strdup drops the URL, a failed hput goes unnoticed.
HPut(t) ==
  /\ At(t, "hput")
  /\ hash_mutex' = NoThread
  /\ \/ visited' = visited \cup {Result(t)} /\ Goto(t, "qput") /\ UNCHANGED lost
     \/ Lose /\ UNCHANGED visited /\ Goto(t, "qput")
     \/ Lose /\ UNCHANGED visited /\ Goto(t, "scan")
  /\ UNCHANGED <<queue, page_id, active_threads, id_mutex, active_mutex, locals, process>>
  /\ UNCHANGED <<pagedir, crawled, failed>>

\* Faulty variant: the page keeps the depth of the page that links to it.
SameDepthChild(t) == [url |-> Result(t), depth |-> curr[t].depth]

Child(t) == [url |-> Result(t), depth |-> curr[t].depth + 1]

\* webpage_new and qput; a failed qput goes unnoticed.
QPut(t) ==
  /\ At(t, "qput")
  /\ \/ queue' = Append(queue, Child(t)) /\ UNCHANGED lost
     \/ Lose /\ UNCHANGED queue
  /\ Goto(t, "scan")
  /\ UNCHANGED <<visited, page_id, active_threads, mutexes, locals, process>>
  /\ UNCHANGED <<pagedir, crawled, failed>>

-----------------------------------------------------------------------------
ThreadStep(t) ==
  \/ QGet(t) \/ CheckActive(t) \/ Activate(t) \/ Deactivate(t)
  \/ Fetch(t) \/ FetchFails(t) \/ ReadId(t) \/ WriteId(t) \/ Save(t)
  \/ NextURL(t) \/ EndOfLinks(t) \/ HSearch(t) \/ HPut(t) \/ QPut(t)

\* The process is gone.
Exited == main = "exited" /\ UNCHANGED vars

Next ==
  \/ \E t \in Threads : Create(t) \/ ThreadStep(t)
  \/ Join
  \/ Exited

\* Every thread, main included, is scheduled again and again.
Fairness ==
  /\ \A t \in Threads : WF_vars(ThreadStep(t))
  /\ WF_vars(Join \/ \E t \in Threads : Create(t))

Spec == Init /\ [][Next]_vars

FairSpec == Spec /\ Fairness

-----------------------------------------------------------------------------
(***************************************************************************)
(* Properties.                                                             *)
(***************************************************************************)
Labels ==
  {"unborn", "qget", "check", "activate", "activating", "fetch", "newid", "setid",
   "save", "scan", "hsearch", "hput", "qput", "deactivate", "deactivating", "done"}

\* Where curr is a page, and where the thread is one of active_threads.
Holding == {"activate", "activating", "fetch", "newid", "setid", "save",
            "scan", "hsearch", "hput", "qput"}
Counted == (Holding \ {"activate", "activating"}) \cup {"deactivate", "deactivating"}

\* Every variable stays within its type.
TypeOK ==
  /\ queue \in Seq(Page)
  /\ visited \subseteq Urls
  /\ page_id \in Nat \ {0}
  /\ active_threads \in Int
  /\ hash_mutex \in Threads \cup {NoThread}
  /\ id_mutex \in Threads \cup {NoThread}
  /\ active_mutex \in Threads \cup {NoThread}
  /\ pc \in [Threads -> Labels]
  /\ curr \in [Threads -> Page \cup {NoPage}]
  /\ pos \in [Threads -> Nat]
  /\ reg \in [Threads -> Int]
  /\ main \in {"create", "join", "exited"} /\ printed \in Nat
  /\ DOMAIN pagedir \subseteq Nat /\ \A i \in DOMAIN pagedir : pagedir[i] \in Page
  /\ crawled \subseteq Page /\ failed \subseteq Page /\ lost \in Nat

\* The counter the idle threads stop on counts exactly the threads that have a
\* page in work, so that every path through the loop body gives back what it took.
ActiveCount == active_threads = Cardinality({t \in Threads : pc[t] \in Counted})

\* A webpage_t that is queued or held by a thread is in one place only and is not
\* deleted: it is fetched once, saved once and freed once.
OneOwner ==
  lost = 0 =>
    /\ \A i, j \in DOMAIN queue : queue[i].url = queue[j].url => i = j
    /\ \A i \in DOMAIN queue : queue[i] \notin crawled \cup failed
    /\ \A t \in Threads : curr[t] # NoPage =>
         /\ \A i \in DOMAIN queue : queue[i].url # curr[t].url
         /\ \A s \in Threads \ {t} : curr[s] # NoPage => curr[s].url # curr[t].url
         /\ curr[t] \notin crawled \cup failed

\* No two pages ever get the same file: what one thread saved is never replaced
\* by what another saves.
FilesKept ==
  [][\A i \in DOMAIN pagedir : i \in DOMAIN pagedir' /\ pagedir'[i] = pagedir[i]]_vars

\* No URL is saved under two ids, and two spellings of one URL are saved only if
\* one of them is the seed, the one URL that is never normalised.
SavedOnce ==
  lost = 0 =>
    \A i, j \in DOMAIN pagedir : i # j =>
      /\ pagedir[i].url # pagedir[j].url
      /\ Norm[pagedir[i].url] = Norm[pagedir[j].url] => Seed \in {pagedir[i].url, pagedir[j].url}

\* While a page is queued some thread will still look at the queue: threads that
\* stop early leave no page behind.
NoPageAbandoned ==
  queue # <<>> => \E t \in Threads : pc[t] \notin {"check", "done"}

\* When the process exits, every URL of the visited table was retrieved or failed,
\* and every internal link of a page above the depth limit is in the table.
Complete ==
  main = "exited" /\ lost = 0 =>
    /\ visited = {p.url : p \in crawled \cup failed}
    /\ \A p \in crawled : Scanned(p) => Children(p.url) \subseteq visited

\* Every page but the seed was put there by a link of a retrieved page one level
\* above it that was itself above the depth limit.
Reached ==
  \A p \in crawled \cup failed : p # SeedPage =>
    \E q \in crawled \cup {curr[t] : t \in Threads} :
      q # NoPage /\ Scanned(q) /\ p.depth = q.depth + 1 /\ p.url \in Children(q.url)

\* The process ends: no thread waits for ever for another one to become idle.
Terminates == <>(main = "exited")

\* The pages met and not finished, wherever they are.
Frontier ==
  {queue[i] : i \in DOMAIN queue}
    \cup {curr[t] : t \in {s \in Threads : curr[s] # NoPage}}
    \cup {Child(t) : t \in {s \in Threads : At(s, "qput")}}

\* As long as no allocation fails, the threads together take the steps of the crawl
\* of module Crawl and no other, and they keep taking them until it is finished.
Abstract == INSTANCE Crawl WITH known <- visited, frontier <- Frontier
ImplementsCrawl ==
  /\ Abstract!Init
  /\ [][lost' = 0 => Abstract!Next \/ UNCHANGED Abstract!vars]_vars
  /\ [](lost = 0) => Abstract!Fairness

=============================================================================
