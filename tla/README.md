# Tiny search engine: specifications, model checking and proofs

This directory holds a TLA+ model of the tiny search engine in `src/tse`: a crawler
that saves web pages as numbered files, an indexer that reads them and writes an index
file, and a querier that answers queries from it, over queues, hash tables and their
locked variants from `src/tse/utils`. TLC checks the model on small instances. The TLA+
proof system proves most of the invariants for every value of the constants: any number
of threads, any site and depth, any words, documents, pages and failures. It also proves
that the crawlers, the queue and the table take no step that their abstract
specifications do not allow, and follows a word from the html that a crawl saved, through
scanner, index, index file and querier, to the rank that is printed.

To check a run: `tlc -config <name>.cfg <module>`, with the pairs listed under "Runs".
To check the proofs: `tlapm <name>.tla` for `Lemmas` and for each of the `...Proofs` modules.

## The system

| part | source (`src/tse/...`) | state | operations |
|---|---|---|---|
| multi-threaded crawler | `crawler/tcrawler.c` | locked queue of pages, table of visited URLs, `page_id`, `active_threads`, three mutexes; per thread the page in work | the loop of `crawler_thread`; creation and join in `main` |
| sequential crawler | `crawler/crawler.c` | queue, table, `id` | the loop of `main` |
| pages | `webpage.c` | url, depth, html, html_len | fetch (3 tries), next word, next URL, normalise URL |
| page files | `utils/pageio.c` | one file per page | `pagesave`, `pageload` |
| index | `utils/indexio.c` | list of words, each with a list of (document, count) | add, save, load, free |
| indexer | `indexer/indexer.c` | page number, index, count of words | the loop of `main` |
| querier | `querier/query.c` | table of words and counts per document | load, parse, rank, the prompt |
| queue | `utils/module/module3/queue/queue.c` | linked nodes, first and last | open, close, put, get, apply, search, remove, concatenate |
| hash table | `utils/module/module3/hash/hash.c` | array of queues | open, close, put, apply, search, remove |
| locked queue and table | `utils/lqueue.c`, `utils/lhash.c` | the structure and a mutex | the same under the mutex |
| list, integration | `utils/module/module3/list/list.c`, `module2/integrate` | linked list; none | used by nothing else |

They interact in three ways. The crawlers call the queue and the table directly; the
threads of `tcrawler.c` share both, the table and two counters under mutexes of their
own. The queue and table call back into search and apply functions, in the locked
variants with the mutex held. And the three programs hand files to each other: crawler
to indexer and querier the page directory, indexer to querier the index file. Nothing is
checked across these files, each program trusts what it finds, and nothing keeps one from
running while another does.

What is hard to get right, and what correct means:

* **Crawlers.** Threads meet the same URL at the same time; ids and file names are
  handed out concurrently; threads stop when the queue is empty and nobody is active,
  which they read in two steps while others take a page and count themselves active in
  two steps. Correct: no page twice, no file overwritten, no page left behind, the
  process ends, and what was crawled is closed under links within the depth.
* **Pages.** A fetch is retried with what the last try has left; scanners are called many
  times with the position they returned; normal forms are looked up as if there were one
  for each page. Correct: html is what the server sent, the words and links are those of
  the page, and a normal form stays what it is.
* **Queue and table.** A pointer wrong after one operation is noticed many calls later.
  Correct: they are sequences, and no node is lost or used after it was freed.
* **Locked variants.** Correct: calls take effect one after another and all return.
* **Files.** Writes stop half way and results are ignored. Correct: what was written
  completely reads back as it was, and what was not is never taken for something else.
* **Indexer and querier.** Correct: counts are occurrences, and answers are those that
  the grammar and the index imply, although the querier reads the index with other code
  than `indexload` and both stop, cut or skip at limits of their own.
* **The programs together.** A page directory is never cleared, files are opened, emptied
  and written in place, and any of the programs may die. Correct: an answer is about pages
  that were crawled, and about those of the last crawl as far as it went; a page is shown
  with its own URL and never ranked higher than its words make it.

`PROJECT.json` lists these hazards line by line with the properties that cover them.

## Modules

| module | models | kind |
|---|---|---|
| `Web` | what a crawler sees of pages and URLs | constants and helpers |
| `Crawl` | what a crawl promises | abstract specification |
| `Url` | URLs in `webpage.c`: parse, normalise, resolve | pure operators, with segments as a reference |
| `Scan` | the scanner for words of `webpage.c` | pure operators |
| `Webpage` | `webpage.c`: fetch, scan for words or links | state machine over `Url`, `Scan` |
| `TCrawler` | `tcrawler.c` | state machine, implements `Crawl` |
| `TCrawlerProofs` | its invariants, and that its steps are those of `Crawl` | theorems |
| `Crawler` | `crawler.c` | state machine, implements `Crawl` |
| `CrawlerProofs` | its invariants, and that its steps are those of `Crawl` | theorems |
| `Fifo` | what queues promise | abstract specification |
| `Queue` | `queue.c` on a heap | state machine, implements `Fifo` |
| `LQueue` | `lqueue.c` | extends `Queue` with threads |
| `QueueProofs` | invariants of both, that `Queue` implements `Fifo`, and that the list is a stack | theorems |
| `List` | `list.c` | state machine |
| `KeyedStore` | what a table promises: a queue per key | abstract specification |
| `Hash` | `hash.c` on sequences | state and operations, except `hput` |
| `LHash` | `lhash.c`, and the steps of `hput` | extends `Hash` with threads, implements `KeyedStore` |
| `LHashProofs` | its invariants, and that it implements `KeyedStore` | theorems |
| `Index` | the index and its file as values | pure operators |
| `IndexIO` | `indexio.c` with failures | state machine over `Index` |
| `IndexIOProofs` | its invariants: index, sums and files | theorems |
| `PageIO` | `pageio.c` | pure operators |
| `Indexer` | `indexer.c`, over a page directory that it does not change | state machine over `PageIO`, `Scan`, `Index` |
| `Query` | queries, parsing and ranking | pure operators, with the grammar as a reference |
| `Querier` | `query.c`, over a page directory and an index file | state machine over `Query`, `Index` |
| `Tse` | the files of crawls, and the three programs side by side | extends `Querier`, composes it with `Indexer` and crawls |
| `TseProofs` | page files, what the indexer counts, what the querier answers; of `Querier` alone and of `Tse` | theorems |
| `WebpageProofs` | the fetch and the scans for words and links of `Webpage` | theorems |
| `Selection` | the elements of a sequence that are in a set, used by `Hash`, `KeyedStore`, `Index`, `List` | pure operator |
| `Lemmas` | induction, recursion, and facts about sequences, sums, the operators of `Index` and `Scan` for all proofs | lemmas |

`MC...` modules give the constants their values. A definition that is introduced as a
"faulty variant" stands before the one it varies and is not part of the model: it is what
that code could look like with a plausible mistake, and every property is violated with
at least one of them in place.

### TCrawler

A thread is a program counter, its page `curr`, the position `pos` in the links of the
page and the value `reg` it has read under a mutex. Each lock-protected access is an
action: `QGet` (line 55), `CheckActive` (58-70), `Activate` (72-75, read and write apart),
`Fetch`/`FetchFails` (77-86), `ReadId`/`WriteId` (88-91), `Save` (92-96), `NextURL`
(97-100), `HSearch` and `HPut` (101-122, the mutex held over both), `QPut` (111-116),
`EndOfLinks` and `Deactivate` (128-134). `queue` and `visited` are a sequence and a set:
`LQueue` shows that a locked queue is one, and the table of URLs is used for search and
put only. `lqput` and `lqget` take effect in one step for that reason.

`lost` counts the allocations that have failed where the code goes on without them, up to
the bound `MaxLost`; what the crawl covers is stated while it is 0.
`pthread_create` succeeds: its result is ignored, and joining an id that it has not set is
undefined. `exit(99)` of `checkp` in `webpage.c` when a page cannot be
allocated ends the process and is not an action. `usleep` and the broadcast on a condition
variable that no thread waits for have no effect. The fetch either succeeds or fails; the
links of a page do not change during a crawl. That a normal form normalises to itself,
which `WebAssumption` states, is what `UrlsAreNormal` shows of `Webpage`, for URLs with a host,
as all internal ones are (webpage.h:156). The seed is put
into the table as it is typed, all other URLs normalised, as in the code.

### Url, Scan, Webpage

A string is a sequence of tokens: the characters that the code looks for, and names that
stand for text without them, such as `http`, `href` or an extension. `ParseURL` and
`NormalizeURL` keep every branch on these, users and fragments included;
`NextSegment` is a turn of the loop of `RemoveDotSegments`, rule by rule, and `NormalPath`
its reference: the segments of the path, and a walk over them. A query directly after the host name makes the length of the path negative;
the model lets the allocation fail, the case of length -1, which is undefined, does not
occur in the inputs.

`Webpage` has one action per call: `WriteMemoryCallback` for a part of the content,
`TryFails`, `LastTryFails` and `FetchSucceeds` for the ends of a try, `GetNextWord` and
`GetNextURL` for the scanners, with the position that the caller keeps. `Junk` is what
memory holds that nobody has written. `words` and `links` record what was handed over. A
tag that is not closed makes `getNextWord` read from NULL: the scan ends as `"crashed"`.
`Scan` has the scanner for words as an operator, since `Indexer` calls it too.

The buffer for error messages is static, so it is a variable `errbuf` of its own that
`OtherFetch`, the fetch of another thread, writes at any moment. What becomes of the
message is three steps, as in the code: `AllocMessage` takes its length and allocates,
`LengthOfMessage` takes it again for `html_len`, `CopyMessage` copies it, up to the end of
what was allocated and beyond. `disturbed` says that the other thread has come between.

### Crawler

The same for the loop of `main`: one action takes a page or ends, one fetches and saves,
one handles a link. `lost` counts the allocations that failed; what the crawl covers is
stated while it is 0. A `printf` after the `exit` call on line 103 is never reached.

### Queue, LQueue

The heap is explicit: `allocated` nodes with `data` and `next`, and `start`, `end` per
queue. `malloc` returns any free node, so a freed node is reused with what it still
holds. The loops over a queue are the function `Walk`, which follows the pointers.
Search functions are sets of elements they accept. `ret` is what a call returned, which
makes the refinement of `Fifo` say that all results are right.

`LQueue` keeps the pointers and splits put, get and traversals where the code reads or
writes a field. Mutual exclusion is not assumed: the mutex is a variable, and without it
the properties fail. `lqclose` is called when the threads have been joined, as in the
test programs; closing a queue that others still use is undefined in C. Calls of the
queue from its own callbacks, which would wait for their own mutex, are not made.

### List

The list is linked through the cars of its callers, so there is no heap: `next` is a field
of a car whether it is in the list or not, with any content at the start. `call` is
history, the last call with its argument and result. A car that is put while it is in the
list would make a cycle; `LPut` leaves this to its caller, as the code does. The functions
handed to `lapply` do not change the list.

### Hash, LHash

Buckets are sequences, opened lazily. The hash function is a constant: any function on
the keys, with 0 for the keys of length 0 that `SuperFastHash` returns 0 for. `hopen`
with 0 buckets divides by zero and is not modelled. `LHash` splits `hput` where two
threads could both open a bucket or both read its end. `ret` is set where the result of
a call is known, within the critical section, so that the refinement of `KeyedStore`
says that the calls take effect one after another.

### Index, IndexIO

An index is a sequence of entries, a file a sequence of lines, each a word and numbers.
Conversions are modelled: `ToInt` is the conversion of a `long`, and the usual outcome of
an overflow, with width `IntMax`. A save may stop within a line, a word or a number
(`TornFile`): `CutNumber` divides a number by a power of the base it is written in, one of
the constant `Powers`, and `stumps` has what may be left of each word. An index is freed before another is loaded.

### PageIO, Indexer

The html of a page is a sequence of words, white space, tags and null characters of length
1 each. `PageLoad` skips white space after the header as `fscanf` with `"%d\n"` does, and
ends the string at a null character.

`Indexer` is the process: `Start`, then for each id a load and its words (`NextWord`,
`EndOfPage`), the end at a tag that is not closed (`Crash`), `OpenIndex`, which empties the
index file, and `WriteIndex`. `pagedir` is not changed here and may change between two steps.

`pageload` reads a file in several reads (pageio.c:49 to 80), the first of which fills the
buffer of the stream. If all of them see one file the load is one step, `LoadPage`. Otherwise
`ReadPart` gets the header and a part of the html, and each `ReadMore` finds that a crawl has
replaced the file: it keeps what was read and goes on at some place of the new html. A cut
within a word may leave a word of the beginning of one and the end of another at the seam
(`Mix`). `EndReadMixed` returns the page so made, if it is as long as the header of the file
that was opened says; `EndRead` is the end of reads that saw the same file. The header is
taken to be within the first buffer. `NoPageLoads` is the end of the loop at an id without a
file or with one that is too short, `PageLoadFails` the end at one whose load fails although
nothing is wrong with the file: it does not open, or there is no memory for its html or for
the page. Nobody notices, and the index is saved without it and all that come after it.

`NextWordLost` and `EndOfPageLost` are postings that are not added for want of memory,
`OpenIndexFails` and `WriteIndexFails` the results of `indexsave` that nobody looks at,
and `Kill` may happen at any point. `read`, `mixed`, `lost` and `written` are history: the
files that were read, the html of those that were replaced meanwhile, whether postings were
lost, and what the index file was made of. `NormalizeWord` is a function on the words it
accepts.

### Query, Querier

A token is an operator, a long word, a short word or one with a foreign character.
`Parse` is `parse_query` with its cap of `MAX_WORDS` tokens; `Grammatical`,
`Alternatives` and `Rank` say the same from the grammar and the index and share no
definition with it. `Pieces` cuts a line of the index file where `fgets` does; the cut is
between two tokens, while the real one may also be within a token. Words longer than 255
letters, which are cut when the index is read, are left out. An input line longer than the
buffer arrives in pieces, each of which is a query of its own to the code and to
`ReadQuery`. What is printed is abstracted to the set of documents with rank
and URL.

`Querier` opens the index file (`Open`) and reads it line by line into `gtab`; what a reader
could see of a file that is being written is one of the files that a write which stops
leaves. `chunks` is what `fgets` has still to return; a file that changes while it is read
changes it, in `Tse`. `ReadQuery` parses, `RankDoc` ranks a document and reads the URL from
its page file, one action per document, since the files may change between two of them. The
URL is `Unknown` if there is no file, and may be so if there is one, which does not open or
cannot be read (query.c:132, 138). `Score` adds ints: a rank that overflows is what is left
of it. `source` is history: what the index file was made of when it was opened.

### Tse

`Tse` extends `Querier`, whose behaviours alone are `QuerierSpec`, and puts an instance
of `Indexer` (`I`) beside it, with crawls that only appear as what they do to the directory: `StartCrawl` begins with id 1 again and
clears nothing, `TakeId` gives a fetched page the next id, and for each id `OpenPage`
empties its file before `WritePage` writes it; several are under way at once, as in the
threads of `tcrawler.c`. `OpenPageFails` and `WritePageFails` are results that are
ignored, `KillCrawl` is the end of the process anywhere. That a crawl saves no page twice
and no two pages in one file, which the guards of `TakeId` take for granted, is what
`SavedOnce` and `FilesKept` of `TCrawler` say. The field `by` of a page file, `moved`,
`replaced` and `faults` are history and change no step, but for the bound on kinds of faults:
they say of which crawl and page a file is, that the directory has changed while the indexer
ran, that the index file has changed while the querier read it, and which kinds of faults
there were.

When the index file changes under a querier that is reading it, `WhileLoaded` replaces what is
still to be read: `Spliced` keeps some of the old lines, which are in the buffer, and goes on
at any place of the new file, with a line between that begins in one and ends in the other.
Such an index can give a document a rank that no page has, so nothing is said of the answers made of it.

## Runs

| run | module | question | states |
|---|---|---|---|
| `tcrawler` | `MCTCrawler` | two threads: no page or file twice, counter exact, no page left, complete at the end, termination, implements `Crawl` with its fairness | 587k |
| `crawler` | `MCCrawler` | breadth first, exact depths, termination, the steps of `Crawl`; the order survives two failed allocations | 84k |
| `webpage` | `MCWebpage` | html is the content or the message, words and links are those of the page, links in normal form, scans advance | 176k |
| `webpage_links` | `MCWebpage` | violation: a link that the page has is not handed over | |
| `queue_heap` | `MCQueue` | queues: well formed pointers, no node lost, implements `Fifo`; list: calls act as on a stack | 90k |
| `lqueue` | `MCLQueue` | first in, first out, traversals see one moment, nothing dangles, every call returns | 763k |
| `lhash` | `MCLHash` | nothing lost, nothing removed twice, implements `KeyedStore` | 94k |
| `indexio` | `MCIndexIO` | counts are sums, files read back, torn files are parts | 802k |
| `tse` | `MCTse` | wrong pages never load, the index is exact up to the first gap, stale pages come last, answers and URLs are those of the pages | 3.8M |
| `tse_space` | `MCTse` | violation: a saved page does not load | |
| `querier` | `MCQuerier` | grammar; documents and ranks are those of the index | 276k |
| `querier_lines` | `MCQuerier` | violation: a long index line is not one line | |

### Bounds and why they are enough

* The sites have two ways to a page of different lengths, cycles, two spellings of a URL
  and an external link; deeper sites repeat these. Two threads suffice for every pair of
  accesses to meet; the theorems hold for any number.
* Pages of up to four pieces have every pair of anchors with text or a broken tag before,
  between or behind, closed or not; pages with an `href=` that is itself in quotes, or whose
  URL is a name that ends at its tag; paths of up to six tokens have every order of names,
  dots and slashes, at pages with and without a path; contents arrive in up to three
  parts, cut anywhere.
* Messages of two lengths show a copy that is cut and one that runs over its end.
* Two queues with four nodes have all shapes that the operations tell apart: empty, one
  node, first, middle and last of three, and the concatenation of all of them.
* Three cars with two plates: first, middle and last, and two cars with one plate.
* Four keys: two that collide, one in the other bucket, and the empty one; two entries of
  one key. `lhash` bounds nothing else: an entry is put until the put succeeds.
* In `lqueue` two threads make three calls each, all kinds mixed, over three nodes.
* Two words and two documents with sums up to 3 where ints end at 2: new and known words
  and documents, and an overflow. Foreign files have up to two pairs of numbers that are
  negative, in range, or convert to 0.
* Crawls and indexings, three in all: two crawls of up to two pages each and an indexing,
  the directory left whole, torn, with a gap or longer by the first crawl; or one crawl and
  two indexings, where the querier reads an old index or one that is replaced meanwhile. One
  kind of fault in a behaviour, as often as it likes; a page file or an index file that is
  replaced while it is read counts as one. Each pair of programs meets at each step, and each
  kind of fault with every order of the steps; two kinds of faults together are left to the
  theorems. The pages differ in what the readers tell apart: case, tags, an open tag, a null
  character, white space at the start, no html at all; one word is the beginning of another.
  That documents from `MAX_DOCS` on are left out is seen in `querier`.
* Queries have five tokens where the code takes four: all nestings of `and` and `or`
  between words, short words and foreign ones, and the cut.

The bounds in the modules are `MaxLost` (failed allocations in the crawlers), `MaxOps`,
`MaxTotal`, and in `Tse` `MaxRuns` (crawls and indexings together), `MaxPages` and
`MaxFaults` (kinds of faults); in the MC modules `MaxTokens`, `MaxPieces` and `MaxPath`.
In `IndexIO` a new index is started, and a
foreign file written, only while there is no file.

Deadlock is checked except in `webpage`, `webpage_links`, `tse` and `tse_space`, where the
scan or all that the bounds allow ends; the other modules that end have an action that
stays at the end. Symmetry is used where the members of a set are interchangeable and
never in a run with a liveness property.

### Fairness

`TCrawler` assumes weak fairness for each thread and for `main`, which is what preemptive
threads give. Strong fairness of the mutexes is not needed: a thread holds one over a few
steps without waiting for another, a mutex is taken once per page or link, and there are
finitely many of those. An idle thread locks `active_mutex` for one read again and again,
but sleeps in between, so it keeps it from nobody: that is why the read is one step. `Crawler` assumes that the process
runs. `LQueue` assumes weak fairness per thread with a bounded number of calls.

## What the violations show

* `tse_space`: a page whose html starts with white space is saved and does not load; the
  indexer then ignores it and all pages after it.
* `querier_lines`: postings after the first 4095 bytes of an index line are lost.
* `webpage_links`: a relative link without a slash is passed over when the next of the
  characters `:/?#` on the page is a colon, wherever it stands.

The passing runs allow for more, which the model shows and the properties are
stated around:

* A thread takes a page (tcrawler.c:55) before it counts itself active (line 74). Another
  one that sees an empty queue and no active thread between the two stops, against the
  comment on line 62. The crawl is still complete, with fewer threads: that a page is
  never abandoned is proved as `PagesNotAbandoned`.
* A `pagesave` that fails is counted in "Saved ... page(s)" (tcrawler.c:192): `printed` is
  the number of ids and not of files.
* A fetch that succeeds in its second or third try keeps what an earlier one brought before
  it failed (webpage.c:966), against webpage.h:50, so `FetchRight` asks for the content at
  the end of html only.
* `getNextWord` ends the process at a tag that is not closed (webpage.c:126), against its
  comment "ran out of html"; `WordsRight` asks that this happens nowhere else.
* `qconcat` with a NULL first queue frees only the struct of the second (queue.c:193); the
  variable `orphaned` holds the nodes, and `NoLeak` says that no others are lost.
* The message of a failed fetch may be that of another thread, or be copied beyond the end
  of html (webpage.c:979), when the fetch of that thread comes between the three uses of
  the static buffer: `FetchRight` asks for the message where none does. Both crawlers free
  the html of a failed page unread.
* Files of an earlier crawl beyond the last id of the present one are indexed as if they
  belonged to it (tcrawler.c:158): `StaleBeyond` says that these, and no others, are stale.
  A page that fails to open leaves the old file in the middle.
* A document is ranked by the index and shown with the URL that its file has at that time
  (query.c:274): `UrlOfRanked` allows for a file that a crawl has opened since.
* The first page that does not load ends the indexing, and all pages behind it are missing
  from the index (indexer.c:131). That is so also when nothing is wrong with the file and its
  load found no memory, or the file did not open: `IndexExact` says which pages can be missing.
* A page whose file a crawl rewrites while `pageload` reads it (pageio.c:80) is indexed with
  html of both: the index may have words, under its id, that no page has. `IndexExact` and
  `AnswersOfPages` count what was read, and say that no page is mixed if no crawl has
  interfered.
* The index file is written in place (indexio.c:99): a querier that reads it while it is
  replaced may join two lines, so the answers are stated for one that was not (`replaced`).
* The sum of the least counts of a query is an int (query.c:253, 269): if it overflows, a
  document has too low a rank or is missing, but none has a rank that is too high.
* The seed is looked up as it is typed (crawler.c:48, tcrawler.c:177): if it is not in normal
  form, a link to it is crawled as another page. `SavedOnce` leaves the seed out, and the seeds
  of the runs are normal forms.
* The links of a page that was met over a longer way first are dropped where the depth it got
  reaches the limit (tcrawler.c:96): `Reached` says that depths are those of real ways, not of
  shortest ones. `ShortestDepth` is stated of the sequential crawler.
* An index that is torn in a word which then is another word of the index wipes the
  counts of that word out (query.c:57): `AnswersOfPages` asks for every answer only of an
  index that is whole, and for no wrong one and no higher rank otherwise.
* `hput` accepts keys of length 0, `hsearch` and `hremove` refuse them (hash.c:143): they are
  the hidden keys of `KeyedStore`.
* A URL without a host is not always brought into normal form: the path of `http:/.//w` is
  `//w` once its dots are gone, so that the next look-up reads `w` as the host.
  `UrlsNormal` is stated for URLs with a host; all that a crawl follows have one.
* A query of short words only is answered with `[invalid query]` (query.c:219), against the
  comment in `process_query`: `Grammatical` asks for a long word in the last alternative.

## What is proved

All theorems hold for every value of the constants that the named assumption of the module
allows. The assumptions say that ids and "none" values are not confused with others, that
the data has its types, and what the code takes for granted: at least one thread
(tcrawler.c:155), at least one bucket, a normal form that normalises to itself (proved as
`UrlsAreNormal`), `tolower` making and changing none of the delimiters of a URL, html whose length is an int (webpage.c:61), ids that are ints. A token of
letters in the html of `Tse` is a whole word, so no two of them follow each other. TLC
evaluates each of them in a run, and every property below was
model-checked before it was proved.

| module | theorem | property | rests on |
|---|---|---|---|
| `TCrawlerProofs` | `TypeCorrect` | `TypeOK` | `CoreInv` |
| | `FilesAreKept` | `FilesKept` | `CoreInv`, `FileInv` |
| | `PagesNotAbandoned` | `NoPageAbandoned` | `CoreInv`, and itself |
| | `ActiveCounted` | `ActiveCount` | `CoreInv`, cardinality of the set of active threads |
| | `SingleOwner` | `OneOwner` | `CoreInv`, `UrlInv` |
| | `SavedOnceOnly` | `SavedOnce` | `CoreInv`, `UrlInv`, `SavedInv` |
| | `PagesReached` | `Reached` | `CoreInv`, `ReachInv` |
| | `PagesAreLinked` | | `CoreInv`, `ReachInv` |
| | `CrawlComplete` | `Complete` | `CoreInv`, `UrlInv`, `LinkInv`, `ExitInv`, and that no page is abandoned |
| | `ThreadsCrawl` | the steps of `ImplementsCrawl` | `CoreInv`, `UrlInv`, `LinkInv` |
| `CrawlerProofs` | `FilesByDepth` | `IdsByDepth` | `TypeInv`, `LevelInv`, `FileInv` |
| | `DepthIsDistance` | `ShortestDepth` | the same with `ReachInv`, `MemoryInv`; induction on the depth |
| | `CrawlerCrawls` | the steps of `ImplementsCrawl` | all of these |
| `QueueProofs` | `PointersWellFormed` | `WellFormed` | `QueueInv` |
| | `NothingLeaks` | `NoLeak` | `QueueInv` |
| | `QueuesAreSequences` | `ImplementsFifo` | `QueueInv` |
| | `MutualExclusion` | | `LQueueInv` |
| | `QueueIsFirstInFirstOut` | `FirstInFirstOut` | `LQueueInv` |
| | `TraversalsAreSnapshots` | `Snapshot` | `LQueueInv` |
| | `NoThreadDangles` | `NoDangling` | `LQueueInv` |
| | `ListIsAStack` | `ListActsAsStack` | `ListInv` |
| `LHashProofs` | `NoEntryIsLost` | `NothingLost` | `LHashInv` |
| | `EntriesAreFound` | | `LHashInv` |
| | `TableIsAStore` | `ImplementsStore` | `LHashInv` |
| `IndexIOProofs` | `IndexesAreWellFormed` | `TypeOK` | `IInv` |
| | `SumsAreCounted` | `CountsAreSums` | `IInv` |
| | `SavedIndexesLoad` | `RoundTrip` | `IInv`, `SavedInv` |
| | `TornFilesArePart` | `TornIsPart` | `IInv`, `SavedInv` |
| `TseProofs` | `PagesLoadAsSaved` | `LoadsWhatWasSaved` | `TseInv` |
| | `StalePagesAreBeyond` | `StaleBeyond` | `TseInv` |
| | `AllPagesAreRead` | | `TseInv` |
| | `IndexIsExact` | `IndexExact` | `TseInv`, `CountInv` |
| | `QuerierParses`, `TseParses` | `ParsesGrammar` | `QueryInv`, in `Querier` and in `Tse` |
| | `QuerierAnswers` | `AnswersRight` | `QueryInv`, `ImageInv` |
| | `AnswersAreOfPages` | `AnswersOfPages` | `TseInv`, `CountInv`, `QueryInv`, `AnswerInv` |
| | `UrlsAreOfPagesRead` | part of `UrlOfRanked` | `TseInv` |
| | `UrlsAreOfRanked` | `UrlOfRanked` | `TseInv`, `QueryInv`, `AnswerInv` |
| `WebpageProofs` | `FetchesAreRight` | `FetchRight` | `FetchInv` |
| | `WordsAreRight` | `WordsRight` | `WordsInv` |
| | `ScannersAdvance` | `ScanAdvances` | `WordsInv`, `LinksInv` |
| | `LinksAreRight` | `LinksRight` | `LinksInv`, `HandedInv` |
| | `DotSegmentsRemoved`, `Normalised` | | |
| | `UrlsAreNormal` | `UrlsNormal` | `LinksInv`, `HandedInv`, `UrlsInv` |

The inductive invariants are theorems too: `CrawlInvariant`, `QueueInvariant`,
`LQueueInvariant`, `LHashInvariant`, `IndexInvariant`, `TseInvariant`, `CountInvariant`,
`AnswerInvariant`.

Two of these theorems have a hypothesis that is not an assumption of their module, since
it is one that users of the programs can break. `QuerierAnswers` asks of the index files
that are read what `indexsave` writes: an entry for a word, counts that are positive, and
lines that fit the buffer of 4096 bytes (query.c:93). The last is needed: without it
`querier_lines` shows an answer that is wrong. `AnswersAreOfPages` and `UrlsAreOfRanked`
need the same of the files that the indexer makes, `2 * MaxPages + 1 <= LineMax`: a line
with a posting for every page fits the buffer. The values of `tse` are such.

What these properties themselves leave out: an index file that is replaced between its opening
and the last line read (`replaced`), and of ranks that overflow, all but that they are no
higher. The index may be torn anywhere, stale or old, and page files may be replaced at any
time. If the indexer was reading one of them, the html it has put together is what counts
and ranks are compared with.

### The inductive invariants

**TCrawler.** `CoreInv` is `TypeOK`, `LockInv` and `PageInv`. `LockInv` says that a mutex is
held exactly in its critical section and that what its holder has read is still the value
of the shared variable; without it the write of `page_id` could go back. `PageInv` says at
which labels a thread has a page and that `pos` points into its links. `FileInv` adds that
the ids in use differ from each other and from the names of all files. `UrlInv` divides
the visited URLs among the queue, the threads and the finished pages; it is needed because
a URL leaves the queue, the table and the thread in different steps. `SavedInv` says that
what is saved is neither queued nor about to be saved. `ReachInv` has for every page that
was made a page that links to it and was retrieved; with `CoreInv` that page was made in the same
way (`Linked`), so that the pages above lead to the seed, one level up each. `LinkInv` is the converse: the links of
a page before `pos` have been visited, all of them once it is done, and what was visited is
in the queue, with a thread or done. It says nothing once an allocation has failed, and neither do
`Complete` and the step theorem. `ExitInv` says that `main` ends after its threads.

**Crawler.** `LevelInv` is breadth-first order as an invariant: the queue is sorted by depth
over two levels at most, and no page in work or done is below it. That the depth of a page
is its distance follows by induction with `ReachInv` (no page is deeper than a way to it is
long) and `LinkInv` (every link of a finished page has been seen).

**Queue.** `QueueInv` names for each queue the sequence of its nodes, found by following
`next`: it starts at `start`, ends at `end`, has no node twice, and no node is in two
queues. Every allocated node is in one, or was orphaned by `qconcat(NULL, q2)`. Each
operation is a change of that list: an element appended, the first taken off, one taken out
of the middle, two lists joined; the refinement of `Fifo` reads the data along it.

**List.** `ListInv` says that the cars in the list can be named one by one from `head` on,
each pointing to the next and the last to NULL; of the other cars nothing but the type is
known. Every loop over the list sees these cars, and each call adds one at the start or
takes one out.

**LQueue.** Between the two writes of `qput` the field `end` lags behind the list, so
`ShapeInv` has the last node from the thread that is there. `Holding` says for each label
what its thread has in its hands: that the node it is about to free is still the first,
that what it has seen is the beginning of the queue, that it will go on from the next node.
These hold since `MutexInv` lets nobody else write in between. `OrderInv` says that what was
taken, followed by the queue, is what was put.

**LHash.** `TableInv` says that each entry is in the bucket of its key and once only, and that
the buckets have what was stored and not removed. In `hput` the queue that was read from the
array is still the one of the key, which needs the mutex.

**IndexIO.** `IndexInv` says that an index has one entry per word, one posting per document,
and numbers that are ints. `CountInv` compares counts with sums, also where a sum has
overflowed and the count may be anything. `SavedInv` relates the file with the last index
saved. That loading the lines of an index gives it back is an induction over its entries,
and over the postings of each; for a torn file the last line is a part of an entry, the last
word of which may be another one.

**Tse.** `CrawlInv` says which ids have a file of the running crawl, and that a file being
saved is empty. `ReadInv` follows the loop of the indexer and says that what it has read is
still in the directory, and not mixed, as long as no crawl has moved anything, and so is the
file of which a part has been read. `HistoryInv` says of each file that has been read, by any
of the indexings whose index may be in use, and of the one that is open, that it had its
whole header, and that the file under that id still has, if it is of that page and crawl.
`CountInv` compares the index in memory with the html that was read (`Text`): a count is the
number of occurrences, on the page that is being scanned those up to `pos`, which is outside
of tags. Html mixed of several files is html, too (`Htmls`, `PartInv`): no longer than an int
says, and with words that are apart. A count is then at most the length of one page, which is
an int, so none overflows, and the number that is printed is the sum of all counts. `QueryInv` says that the sequences are those the parser makes of the
query and that `output` has the documents with a rank below `docID`. `AnswerInv` follows an
index into the file and out of it: what was written is the index in memory, the file is a
file of it, whole or torn, and what `gtab` and the `chunks` still to be read hold is no
more than that, and all of it when the file is whole; of a querier under which the file was
replaced it says nothing until the index is read again. For `Querier` alone, where files are
whole, `ImageInv` says the same.

The parser is compared with the grammar by induction over the tokens: after each of them
it holds the words of the alternatives so far. A rank is a minimum over words and a sum
over alternatives, in the code as in the reference, over entries in the one and counts in
the other; with the invariants the two agree entry by entry. The sum of the code is that of
the reference as long as it is an int, and otherwise less (`ToInt`).

**Webpage.** `FetchInv` says that the last `sent` characters of html are the first of the
content, whatever earlier tries have left before, and where the message of a failed fetch is
as long as no other thread has used the static buffer. `WordsInv` says that the words handed
over are those of the page up to `pos`, and that the scan goes on outside of tags and never
in the middle of a word. That `FindWord` from there finds the next word is an induction over
the positions of the page, a tag being one step. `HandedInv` says the same of links on a
tidy page: those handed over are the ones whose `href=` is before `pos`, in order, and no tag
before `pos` has a link behind it. The code looks for the next `<a`, then for the next `href=`
anywhere behind it; `AnchorAt` shows that this is the first one of that tag, or is behind its
end, where `BadLink` refuses it. The loop that passes bad links by two characters at a time
never steps over a tag (`LinkPassed`), and `GoodLink` shows that what it accepts is exactly
the links of the reference, a scheme being looked for in all that follows. Nothing is said
of pages that are not tidy: what a link of those is, is open.

`UrlsInv` is about the text of the links. `RemoveDotSegments` is shown to agree with
`NormalPath` by induction over the turns of its loop: after each of them the output is the
path of the walk so far, and the rest of the input has the segments that are left. A walk
leaves no dots, so the loop changes nothing when it runs again (`DotSegmentsRemoved`).
`NormalizeURL` puts the parts together and later calls take them apart again. `Composed`
says that they come out as they went in: behind a host, a path that begins with a slash, a
query and a fragment are found where they were put, since no part has the delimiters that
end it. This needs the host. With `ExtKept`, that the last segment keeps its
extension, it follows that a normal form stays (`Normalised`). A relative link is cut at its
query, and what `FixupRelativeURL` makes of it is again composed of such parts (`Fixed`).

### Induction

The theorems of the library for induction take an operator as a parameter, which the provers
cannot be given. `Lemmas` obtains it in another form: strict inclusion between finite sets is
well-founded, the sets `1..n` are finite, so a set with 0 and every successor has all numbers
(`SetInduction`). Recursive functions over an interval exist by the same argument
(`Iterates`, `Recursion`), and with them `Selected`. The folds
of the community modules take the largest position from a set; that they go through a
sequence step by step is `FoldExists`, for sums `SumIs`.

### Only model-checked

Everything that needs fairness: `Terminates`, `EveryCallReturns`, and the last conjunct of
`ImplementsCrawl` of both crawlers. Every invariant and every other action property of a
passing run is the statement of a theorem.

## Not modelled

`integrate.c` computes in floating point. `src/module` and `.backup` are copies.
`hash/queue.c` differs from `queue/queue.c` in `qget` only, which ends the process on an
empty queue; the program links the other one. In `indexer.c` `add_or_increment` is never
called. Layout of output and usage messages are left out. What `curl_global_cleanup` of one
thread does to the fetch of another (webpage.c:986) is up to the library.

## Plan

1. `Hash` over `Queue` buckets, and `TCrawler` over `LQueue`: the refinements that
   justify the sequence and the set.
2. `Tse` with the page files of `TCrawler` itself in place of the guards of `TakeId`.
