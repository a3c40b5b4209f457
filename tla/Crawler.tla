------------------------------ MODULE Crawler ------------------------------
(***************************************************************************)
(* The sequential crawler, tse/crawler/crawler.c: one loop takes a page    *)
(* from the queue, fetches and saves it, and queues the new internal URLs  *)
(* it links to.  The environment chooses which fetches, saves and          *)
(* allocations fail.                                                       *)
(***************************************************************************)
EXTENDS Web

CONSTANTS
  NoPage,   \* curr == NULL
  MaxLost   \* bound: how often a strdup, hput or qput fails

ASSUME CrawlerAssumption == NoPage \notin Page /\ MaxLost \in Nat

VARIABLES
  queue, visited, id, curr, pos,   \* the variables of main
  pc,                              \* where main is
  pagedir,                         \* the page files: a page for every id
  crawled, failed,                 \* what became of the deleted pages
  lost                             \* failures of strdup, hput and qput so far

vars == <<queue, visited, id, curr, pos, pc, pagedir, crawled, failed, lost>>

Init ==
  /\ queue = <<SeedPage>> /\ visited = {Seed}
  /\ id = 1 /\ curr = NoPage /\ pos = 0
  /\ pc = "qget"
  /\ pagedir = [i \in {} |-> SeedPage]
  /\ crawled = {} /\ failed = {} /\ lost = 0

QGet ==
  /\ pc = "qget" /\ queue # <<>>
  /\ curr' = Head(queue) /\ queue' = Tail(queue)
  /\ pc' = "fetch"
  /\ UNCHANGED <<visited, id, pos, pagedir, crawled, failed, lost>>

\* The loop ends and the process exits.
Exit ==
  /\ pc = "qget" /\ queue = <<>>
  /\ pc' = "exited"
  /\ UNCHANGED <<queue, visited, id, curr, pos, pagedir, crawled, failed, lost>>

\* webpage_delete(curr), and back to the head of the loop.
Continue == curr' = NoPage /\ pc' = "qget"

FetchFails ==
  /\ pc = "fetch"
  /\ failed' = failed \cup {curr}
  /\ Continue
  /\ UNCHANGED <<queue, visited, id, pos, pagedir, crawled, lost>>

\* A fetched page takes the next id whether pagesave writes the file or not.
FetchAndSave ==
  /\ pc = "fetch"
  /\ \/ pagedir' = [i \in DOMAIN pagedir \cup {id} |-> IF i = id THEN curr ELSE pagedir[i]]
     \/ UNCHANGED pagedir
  /\ id' = id + 1
  /\ IF Scanned(curr)
     THEN /\ pc' = "scan" /\ pos' = 0
          /\ UNCHANGED <<curr, crawled>>
     ELSE /\ crawled' = crawled \cup {curr}
          /\ Continue
          /\ UNCHANGED pos
  /\ UNCHANGED <<queue, visited, failed, lost>>

\* The next hyperlink, after IsInternalURL has normalised it.
Result == Norm[Links[curr.url][pos + 1]]

Child == [url |-> Result, depth |-> curr.depth + 1]

\* Faulty variant: new pages are put at the front of the queue.
NextURLFront ==
  /\ pc = "scan" /\ pos < Len(Links[curr.url])
  /\ pos' = pos + 1
  /\ \/ /\ ~IsInternalURL(Links[curr.url][pos + 1]) \/ Result \in visited
        /\ UNCHANGED <<queue, visited>>
     \/ /\ IsInternalURL(Links[curr.url][pos + 1]) /\ Result \notin visited
        /\ visited' = visited \cup {Result} /\ queue' = <<Child>> \o queue
  /\ UNCHANGED <<id, curr, pc, pagedir, crawled, failed, lost>>

\* Faulty variant: the position is not advanced when the URL is known.
NextURLSamePos ==
  /\ pc = "scan" /\ pos < Len(Links[curr.url])
  /\ \/ /\ ~IsInternalURL(Links[curr.url][pos + 1]) \/ Result \in visited
        /\ UNCHANGED <<queue, visited, pos>>
     \/ /\ IsInternalURL(Links[curr.url][pos + 1]) /\ Result \notin visited
        /\ pos' = pos + 1
        /\ visited' = visited \cup {Result} /\ queue' = Append(queue, Child)
  /\ UNCHANGED <<id, curr, pc, pagedir, crawled, failed, lost>>

\* One round of the loop over the links.
NextURL ==
  /\ pc = "scan" /\ pos < Len(Links[curr.url])
  /\ pos' = pos + 1
  /\ \/ /\ ~IsInternalURL(Links[curr.url][pos + 1]) \/ Result \in visited
        /\ UNCHANGED <<queue, visited, lost>>
     \/ /\ IsInternalURL(Links[curr.url][pos + 1]) /\ Result \notin visited
        /\ \/ /\ visited' = visited \cup {Result} /\ queue' = Append(queue, Child)
              /\ UNCHANGED lost
           \/ /\ lost < MaxLost /\ lost' = lost + 1
              /\ \/ UNCHANGED visited /\ queue' \in {queue, Append(queue, Child)}
                 \/ visited' = visited \cup {Result} /\ UNCHANGED queue
  /\ UNCHANGED <<id, curr, pc, pagedir, crawled, failed>>

\* Faulty variant: the last link of a page is not looked at.
EndOfLinksEarly ==
  /\ pc = "scan" /\ pos >= Len(Links[curr.url]) - 1
  /\ crawled' = crawled \cup {curr}
  /\ Continue
  /\ UNCHANGED <<queue, visited, id, pos, pagedir, failed, lost>>

EndOfLinks ==
  /\ pc = "scan" /\ pos = Len(Links[curr.url])
  /\ crawled' = crawled \cup {curr}
  /\ Continue
  /\ UNCHANGED <<queue, visited, id, pos, pagedir, failed, lost>>

Exited == pc = "exited" /\ UNCHANGED vars

Next == QGet \/ Exit \/ FetchFails \/ FetchAndSave \/ NextURL \/ EndOfLinks \/ Exited

\* The process is scheduled until it exits.
Spec == Init /\ [][Next]_vars /\ WF_vars(Next)

-----------------------------------------------------------------------------
\* The page files are numbered by distance: a page with a smaller id is never
\* deeper than one with a larger id.
IdsByDepth ==
  \A i, j \in DOMAIN pagedir : i < j => pagedir[i].depth <= pagedir[j].depth

\* A crawl meets exactly the internal URLs within MaxDepth links of the seed, and the
\* depth of a page is the length of the shortest way to it, however long the way is on
\* which the crawl could have met it first.
ShortestDepth ==
  pc = "exited" /\ lost = 0 =>
    /\ MaxDepth >= 0 => visited = Within(crawled, MaxDepth)
    /\ \A p \in crawled \cup failed :
         /\ p.url \in Within(crawled, p.depth)
         /\ p.depth > 0 => p.url \notin Within(crawled, p.depth - 1)

\* The loop ends, on cyclic sites too.
Terminates == <>(pc = "exited")

\* As long as no allocation fails, the sequential crawler takes the steps of the
\* crawl of module Crawl and no other, and finishes it.
Frontier == {queue[i] : i \in DOMAIN queue} \cup ({curr} \ {NoPage})
Abstract == INSTANCE Crawl WITH known <- visited, frontier <- Frontier
ImplementsCrawl ==
  /\ Abstract!Init
  /\ [][lost' = 0 => Abstract!Next \/ UNCHANGED Abstract!vars]_vars
  /\ [](lost = 0) => Abstract!Fairness

=============================================================================
