-------------------------------- MODULE Web --------------------------------
(***************************************************************************)
(* What the two crawlers (tse/crawler/crawler.c and tcrawler.c) see of the *)
(* web through tse/webpage.c: URL strings, the hyperlinks of a page, the   *)
(* normal form of a URL and the test for internal URLs.                    *)
(***************************************************************************)
EXTENDS Integers, Sequences

CONSTANTS
  Urls,      \* URL strings, normalised or not
  Seed,      \* the seed argument; the program uses it as it was typed
  Links,     \* Links[u]: the URLs webpage_getNextURL yields on u, in order
  Norm,      \* Norm[u]: the string NormalizeURL leaves in its argument
  Internal,  \* the normal forms that carry INTERNAL_URL_PREFIX
  MaxDepth   \* the maxdepth argument, strtol of whatever was typed

ASSUME WebAssumption ==
  /\ Seed \in Urls
  /\ Links \in [Urls -> Seq(Urls)]
  /\ Norm \in [Urls -> Urls]
  /\ \A u \in Urls : Norm[Norm[u]] = Norm[u]
  /\ Internal \subseteq Urls
  /\ MaxDepth \in Int

\* A webpage_t without its html.
Page == [url : Urls, depth : Nat]

SeedPage == [url |-> Seed, depth |-> 0]

\* IsInternalURL normalises its argument in place before it tests the prefix.
IsInternalURL(u) == Norm[u] \in Internal

\* The URLs a scan of u's page offers to the visited table.
Children(u) ==
  {Norm[Links[u][i]] : i \in {j \in DOMAIN Links[u] : IsInternalURL(Links[u][j])}}

\* URLs at most n links away from the seed, through the pages in done.
Within(done, n) ==
  LET near[k \in Nat] ==
        IF k = 0 THEN {Seed}
        ELSE near[k - 1] \cup
             UNION {Children(p.url) : p \in {q \in done : q.url \in near[k - 1]}}
  IN  near[n]

\* Only pages above the depth limit are scanned for links.
Scanned(p) == p.depth < MaxDepth

=============================================================================
