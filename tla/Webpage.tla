------------------------------ MODULE Webpage -------------------------------
(***************************************************************************)
(* tse/webpage.c: a page is fetched, in up to three tries, or made from a  *)
(* page file, and then scanned either for links or for words, one call     *)
(* after the other from the position the last call returned.               *)
(***************************************************************************)
EXTENDS Url, Scan, Selection, FiniteSets

CONSTANTS
  Quotes,     \* ' and "
  Junk,       \* what memory holds that nobody has written
  Pages,      \* pages with html, as webpage_new makes them: records of url and html
  Contents,   \* what servers deliver
  Messages,   \* the texts of curl errors
  FetchUrl    \* the url of the pages that are fetched

ASSUME WebpageAssumption ==
  /\ Letters \cup Quotes \cup {Junk} \subseteq Tokens
  /\ Pages \subseteq [url : Seq(Tokens), html : Seq(Tokens)]
  /\ Contents \cup Messages \cup {FetchUrl} \subseteq Seq(Tokens)

MaxTry == 3

VARIABLES
  url, html, html_len,   \* webpage_t
  content, sent, tries,  \* the server's copy, what of it this try has brought, failed tries
  errbuf,                \* the buffer for messages, which all threads share
  disturbed,             \* history: another thread has used it since the last try
  phase,                 \* "fetch", "alloc", "length", "copy", "failed", "page", "words",
                         \* "links", "noword", "nolink", "crashed"
  pos,                   \* the position the caller keeps, 0 at first
  words,                 \* the words handed over, as pairs of first and last position
  links                  \* the URLs handed over, with their positions and normal forms

server == <<url, content>>
buffer == <<errbuf, disturbed>>
vars == <<server, html, html_len, sent, tries, buffer, phase, pos, words, links>>

Init ==
  /\ \/ /\ url = FetchUrl /\ content \in Contents
        /\ html = <<>> /\ html_len = 0 /\ phase = "fetch"
     \/ \E p \in Pages :
          /\ url = p.url /\ content = p.html
          /\ html = p.html /\ html_len = Len(p.html) /\ phase = "page"
  /\ errbuf = <<>> /\ disturbed = FALSE
  /\ sent = 0 /\ tries = 0 /\ pos = 0 /\ words = <<>> /\ links = <<>>

-----------------------------------------------------------------------------
(***************************************************************************)
(* webpage_fetch                                                           *)
(***************************************************************************)
\* Faulty variant: html_len is set once, to what the last call has brought.
WriteMemoryCallbackOnce(n) ==
  /\ phase = "fetch" /\ sent + n <= Len(content)
  /\ sent' = sent + n
  /\ html' = [i \in 1..html_len |-> IF i \in DOMAIN html THEN html[i] ELSE Junk]
               \o SubSeq(content, sent + 1, sent + n)
  /\ html_len' = n
  /\ UNCHANGED <<server, tries, buffer, phase, pos, words, links>>

\* curl hands over n more tokens, which go to position html_len of the buffer; what is
\* before them has not been written if an earlier realloc has failed.
WriteMemoryCallback(n) ==
  /\ phase = "fetch" /\ sent + n <= Len(content)
  /\ sent' = sent + n
  /\ html' = [i \in 1..html_len |-> IF i \in DOMAIN html THEN html[i] ELSE Junk]
               \o SubSeq(content, sent + 1, sent + n)
  /\ html_len' = html_len + n
  /\ UNCHANGED <<server, tries, buffer, phase, pos, words, links>>

\* curl_easy_perform fails, on the way or because the realloc in the callback does, which
\* leaves html NULL; the buffer is kept for the next try.
TryFails ==
  /\ phase = "fetch" /\ tries + 1 < MaxTry
  /\ tries' = tries + 1 /\ sent' = 0
  /\ html' \in {html} \cup {h \in {<<>>} : sent < Len(content)}
  /\ UNCHANGED <<server, html_len, buffer, phase, pos, words, links>>

\* The last try fails, and curl has left its message in errbuf.
LastTryFails ==
  /\ phase = "fetch" /\ tries + 1 = MaxTry
  /\ tries' = tries + 1
  /\ errbuf' \in Messages
  /\ phase' = "alloc"
  /\ UNCHANGED <<server, html, html_len, sent, disturbed, pos, words, links>>

\* The fetch of another thread begins, which empties errbuf, or fails. What it does there
\* before this fetch has failed is overwritten.
OtherFetch ==
  /\ phase \in {"alloc", "length", "copy"}
  /\ errbuf' \in Messages \cup {<<>>} /\ disturbed' = TRUE
  /\ UNCHANGED <<server, html, html_len, sent, tries, phase, pos, words, links>>

\* A new html has room for the message that is in errbuf now.
AllocMessage ==
  /\ phase = "alloc" /\ phase' = "length"
  /\ html' = [i \in DOMAIN errbuf |-> Junk]
  /\ UNCHANGED <<server, html_len, sent, tries, buffer, pos, words, links>>

LengthOfMessage ==
  /\ phase = "length" /\ phase' = "copy"
  /\ html_len' = Len(errbuf)
  /\ UNCHANGED <<server, html, sent, tries, buffer, pos, words, links>>

\* A message that is longer than html has room for may end the process.
CopyMessage ==
  /\ phase = "copy"
  /\ html' = errbuf
  /\ phase' \in {"failed"} \cup {p \in {"crashed"} : Len(errbuf) > Len(html)}
  /\ UNCHANGED <<server, html_len, sent, tries, buffer, pos, words, links>>

FetchSucceeds ==
  /\ phase = "fetch" /\ sent = Len(content)
  /\ phase' = "page"
  /\ UNCHANGED <<server, html, html_len, sent, tries, buffer, pos, words, links>>

-----------------------------------------------------------------------------
(***************************************************************************)
(* webpage_getNextWord                                                     *)
(***************************************************************************)
GetNextWord ==
  /\ phase \in {"page", "words"}
  /\ LET w == FindWord(html, pos + 1)
     IN  IF w.kind = "found"
         THEN /\ phase' = "words" /\ pos' = w.last
              /\ words' = Append(words, <<w.first, w.last>>)
         ELSE /\ phase' = IF w.kind = "end" THEN "noword" ELSE "crashed"
              /\ UNCHANGED <<pos, words>>
  /\ UNCHANGED <<server, html, html_len, sent, tries, buffer, links>>

-----------------------------------------------------------------------------
(***************************************************************************)
(* webpage_getNextURL, and IsInternalURL, which normalises what it found.  *)
(***************************************************************************)
RemoveWhitespace(doc) == Selected(doc, Tokens \ {" "})

\* Position of text from i on, as strcasestr finds it.
FindText(s, i, text) ==
  LET at == {k \in i..Len(s) : StandsAt(s, k, text)} IN IF at = {} THEN 0 ELSE Min(at)

\* The part of a page around the next "<a" from position i on that has an "href=" after
\* it: where the URL begins, the tag ends, and the URL ends, each 0 if it does not.
Anchor(doc, i) ==
  LET lnk    == FindText(doc, i, <<"<", "a">>)
      href   == FindText(doc, lnk, <<"href", "=">>)
      quoted == href + 2 <= Len(doc) /\ doc[href + 2] \in Quotes
      first  == IF quoted THEN href + 3 ELSE href + 2
      close  == FindFirst(doc, first, IF quoted THEN {doc[href + 2]} ELSE {">"})
      hash   == FindFirst(doc, first, {"#"})
  IN  IF lnk = 0 \/ href = 0 THEN [exists |-> FALSE]
      ELSE [exists |-> TRUE,
            href   |-> href,
            first  |-> first,
            tag    |-> FindFirst(doc, lnk, {">"}),
            end    |-> IF hash # 0 /\ hash < close THEN hash ELSE close]

\* The scheme is looked for in all that follows, not in the URL only.
Relative(doc, a) ==
  LET sep == FindFirst(doc, a.first, {":", "/", "?", "#"}) IN ~(sep # 0 /\ doc[sep] = ":")

\* Faulty variant: the "href=" may belong to any later tag.
BadLinkAnyTag(doc, a) ==
  \/ a.end = 0 \/ StandsAt(doc, a.first, <<"#">>)
  \/ ~Relative(doc, a) /\ ~StandsAt(doc, a.first, <<"http">>)

\* An anchor that is passed over: its "href=" belongs to another tag, its URL does not
\* end, is within the page, or is absolute and not of the web.
BadLink(doc, a) ==
  \/ a.tag # 0 /\ a.tag < a.href
  \/ a.end = 0 \/ StandsAt(doc, a.first, <<"#">>)
  \/ ~Relative(doc, a) /\ ~StandsAt(doc, a.first, <<"http">>)

\* Faulty variant: every call begins at the start of the page.
NextLinkFromStart(doc, start) ==
  LET loop[i \in 1..(Len(doc) + 1)] ==
        LET a == Anchor(doc, i) IN IF a.exists /\ BadLink(doc, a) THEN loop[i + 2] ELSE a
  IN  loop[1]

\* The first good link from position start on; a bad one is passed two characters at a
\* time.
NextLink(doc, start) ==
  LET loop[i \in 1..(Len(doc) + 1)] ==
        LET a == Anchor(doc, i) IN IF a.exists /\ BadLink(doc, a) THEN loop[i + 2] ELSE a
  IN  loop[start]

GetNextURL ==
  /\ phase \in {"page", "links"}
  /\ html' = IF pos = 0 THEN RemoveWhitespace(html) ELSE html
  /\ LET a == NextLink(html', pos + 1)
         rel == SubSeq(html', a.first, a.end - 1)
         result == IF Relative(html', a) THEN FixupRelativeURL(url, rel) ELSE rel
     IN  IF a.exists /\ (Relative(html', a) => ParseURL(url).ok)
         THEN /\ links' = Append(links, [first |-> a.first, end |-> a.end, normal |-> NormalizeURL(result)])
              /\ pos' = a.end - 1
              /\ phase' = "links"
         ELSE /\ phase' = "nolink"
              /\ UNCHANGED <<pos, links>>
  /\ UNCHANGED <<server, html_len, sent, tries, buffer, words>>

-----------------------------------------------------------------------------
Next ==
  \/ \E n \in 1..Len(content) : WriteMemoryCallback(n)
  \/ TryFails \/ LastTryFails \/ FetchSucceeds
  \/ OtherFetch \/ AllocMessage \/ LengthOfMessage \/ CopyMessage
  \/ GetNextWord \/ GetNextURL

Spec == Init /\ [][Next]_vars

-----------------------------------------------------------------------------
(***************************************************************************)
(* Properties.                                                             *)
(***************************************************************************)
\* A fetch that succeeds leaves the content at the end of html, behind what earlier tries
\* have left, whatever other threads do; one that fails leaves a message of curl and
\* nothing of the page, and nothing is written beyond its room, unless another thread has
\* used the buffer in between; the length that pagesave writes is that of the text, and
\* three failures end the fetch.
FetchRight ==
  /\ phase = "page" => IsSuffix(content, html) /\ html_len = Len(html) /\ tries < MaxTry
  /\ phase = "failed" =>
       /\ tries = MaxTry
       /\ ~disturbed => html \in Messages /\ html_len = Len(html)
  /\ phase = "crashed" /\ tries = MaxTry => disturbed

\* The letters outside of tags, and their maximal runs, as pairs of first and last position.
TextOf(doc) == {i \in DOMAIN doc : doc[i] \in Letters /\ ~InTag(doc, i)}

Words(doc) ==
  LET text   == TextOf(doc)
      starts == {i \in text : i - 1 \notin text}
      ends   == {i \in text : i + 1 \notin text}
  IN  {w \in starts \X ends : w[1] <= w[2] /\ w[1]..w[2] \subseteq text}

\* The words handed over are those outside of tags, each once and whole and in the order of
\* the page, up to the position that was returned, and all of them unless there is no end:
\* the scan crashes only if a tag is not closed, and behind the last word.
WordsRight ==
  /\ \A m, n \in DOMAIN words : m < n => words[m][2] < words[n][1]
  /\ phase = "words" => Range(words) = {w \in Words(html) : w[2] <= pos}
  /\ phase = "noword" => Range(words) = Words(html)
  /\ phase = "crashed" /\ tries < MaxTry => InTag(html, Len(html)) /\ Range(words) = Words(html)

\* Every "<" is closed before the next, and a quote behind an "href=" before the tag ends.
Tidy(doc) ==
  \A b \in DOMAIN doc : doc[b] = "<" =>
    \E e \in (b + 1)..Len(doc) :
      /\ doc[e] = ">" /\ \A k \in (b + 1)..(e - 1) : doc[k] \notin {"<", ">"}
      /\ \A h \in b..e : StandsAt(doc, h, <<"href", "=">>) /\ doc[h + 2] \in Quotes =>
           \E k \in (h + 3)..e : doc[k] = doc[h + 2]

\* The first "href=" of the tag that begins at position t, 0 if there is none.
Href(doc, t) == FindText(SubSeq(doc, 1, FindFirst(doc, t, {">"})), t, <<"href", "=">>)

\* The URL after the "href=" at position h, without fragment.
Value(doc, h) ==
  LET quote == {doc[h + 2]} \cap Quotes
      first == IF quote = {} THEN h + 2 ELSE h + 3
  IN  [first |-> first, end |-> FindFirst(doc, first, {"#"} \cup (IF quote = {} THEN {">"} ELSE quote))]

HasScheme(doc, v) ==
  \E k \in v.first..(v.end - 1) :
    doc[k] = ":" /\ \A j \in v.first..(k - 1) : doc[j] \notin {"/", "?"}

\* The first "href=" of each tag that begins with "<a", if there is a URL after it that is
\* of the web or has no scheme.
Hrefs(doc) ==
  LET first == {Href(doc, t) : t \in {t \in DOMAIN doc : StandsAt(doc, t, <<"<", "a">>)}}
      wanted(v) == doc[v.first] # "#" /\ (HasScheme(doc, v) => doc[v.first] = "http")
  IN  {h \in first \ {0} : wanted(Value(doc, h))}

\* The URLs after those "href=" that are in H, in the order of the page.
Listed(doc, H) ==
  LET hrefs == Selected([i \in DOMAIN doc |-> i], H)
  IN  [n \in DOMAIN hrefs |-> Value(doc, hrefs[n])]

\* A URL without delimiters that is followed by a ":" before any other of them.
TakenForScheme(doc, v) ==
  LET sep == FindFirst(doc, v.first, {":", "/", "?", "#"})
  IN  sep >= v.end /\ doc[sep] = ":" /\ doc[v.first] # "http"

\* The anchors that are links to the code.
LinkHrefs(doc) == {h \in Hrefs(doc) : ~TakenForScheme(doc, Value(doc, h))}

Spans == [n \in DOMAIN links |-> [first |-> links[n].first, end |-> links[n].end]]

\* On a tidy page the links handed over are the URLs of its anchors, each once and in the
\* order of the page, except those for which a later ":" is taken as the end of a scheme;
\* all of them, if the URL of the page can be parsed.
LinksRight ==
  phase \in {"links", "nolink"} /\ Tidy(html) =>
    LET expected == Listed(html, LinkHrefs(html))
    IN  /\ IsPrefix(Spans, expected)
        /\ phase = "nolink" /\ ParseURL(url).ok => Spans = expected

\* A link that normalises is in normal form: normalising it again, as every later look-up
\* of it does, changes nothing; and its path is the one that the segments of the page's
\* URL and of the link say.  This takes a URL with a host: without one, a path that begins
\* with two slashes once its dots are gone reads as a host.
UrlsNormal ==
  \A n \in DOMAIN links : links[n].normal.ok =>
    LET link == SubSeq(html, links[n].first, links[n].end - 1)
        query == FindFirst(link, 1, {"?"})
        rel == IF query = 0 THEN link ELSE SubSeq(link, 1, query - 1)
        whole == ParseURL(link)
        base == IF whole.ok THEN whole ELSE ParseURL(url)
        result == ParseURL(links[n].normal.url)
    IN  base.host # <<>> =>
          /\ NormalizeURL(links[n].normal.url) = [ok |-> TRUE, url |-> links[n].normal.url]
          /\ result.path = NormalPath(IF whole.ok THEN whole.path ELSE MergedPath(base.path, rel))
          /\ result.host = base.host

\* Each call that hands something over returns a later position than the one it was given,
\* so that the loops of crawler and indexer end.
ScanAdvances == [][words' # words \/ links' # links => pos' > pos]_vars

-----------------------------------------------------------------------------
\* The loop in the usage example of webpage.h:109 retrieves all URLs of a page.
AllURLs ==
  phase = "nolink" /\ Tidy(html) /\ ParseURL(url).ok => Spans = Listed(html, Hrefs(html))

=============================================================================
