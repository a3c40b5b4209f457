------------------------------- MODULE Crawl -------------------------------
(***************************************************************************)
(* What a crawl promises, whatever the number of threads and the order in  *)
(* which pages are taken: starting from the seed, every page known to the  *)
(* crawl is retrieved once, and a retrieved page above the depth limit is  *)
(* put aside only when every internal URL it links to is known.            *)
(***************************************************************************)
EXTENDS Web

VARIABLES
  known,     \* URLs met so far
  frontier,  \* pages met and not yet finished
  crawled,   \* pages retrieved and scanned
  failed     \* pages whose retrieval failed

vars == <<known, frontier, crawled, failed>>

Init ==
  /\ known = {Seed}
  /\ frontier = {SeedPage}
  /\ crawled = {}
  /\ failed = {}

Discover(p, u) ==
  /\ Scanned(p)
  /\ u \in Children(p.url) \ known
  /\ known' = known \cup {u}
  /\ frontier' = frontier \cup {[url |-> u, depth |-> p.depth + 1]}
  /\ UNCHANGED <<crawled, failed>>

FinishPage(p) ==
  /\ Scanned(p) => Children(p.url) \subseteq known
  /\ frontier' = frontier \ {p}
  /\ crawled' = crawled \cup {p}
  /\ UNCHANGED <<known, failed>>

FailPage(p) ==
  /\ frontier' = frontier \ {p}
  /\ failed' = failed \cup {p}
  /\ UNCHANGED <<known, crawled>>

Step(p) ==
  \/ \E u \in Urls : Discover(p, u)
  \/ FinishPage(p)
  \/ FailPage(p)

Next == \E p \in frontier : Step(p)

Fairness == WF_vars(Next)

Spec == Init /\ [][Next]_vars /\ Fairness

=============================================================================
