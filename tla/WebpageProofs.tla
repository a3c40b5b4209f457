--------------------------- MODULE WebpageProofs ----------------------------
(***************************************************************************)
(* Proofs about webpage.c.  The fetch: for any contents in any number of   *)
(* parts, any messages of curl, and other threads that use the buffer for  *)
(* messages at any time.  The scanners: for any page, that both advance    *)
(* and what the scan for words hands over; for any tidy page, which links  *)
(* the scan for links does.                                                *)
(***************************************************************************)
EXTENDS Webpage, Lemmas

\* What the fetch has written so far: the last sent tokens of html are the first of the
\* content, unless realloc has failed, which leaves html NULL and starts the content anew.
Fetching ==
  /\ tries < MaxTry
  /\ \/ /\ Len(html) = html_len /\ sent <= html_len
        /\ \A i \in 1..sent : html[html_len - sent + i] = content[i]
     \/ sent = 0 /\ content # <<>>

\* Where the message of curl is, as long as no other thread has used the buffer.
Reporting ==
  /\ tries = MaxTry
  /\ ~disturbed =>
       /\ errbuf \in Messages
       /\ phase \in {"length", "copy"} => Len(html) = Len(errbuf)
       /\ phase = "copy" => html_len = Len(errbuf)

FetchInv ==
  /\ content \in Seq(Tokens) /\ errbuf \in Seq(Tokens)
  /\ sent \in 0..Len(content) /\ html_len \in Nat /\ tries \in Nat
  /\ phase \in {"fetch", "alloc", "length", "copy"} => html \in Seq(Tokens)
  /\ phase = "fetch" => Fetching
  /\ phase \in {"alloc", "length", "copy"} => Reporting
  /\ phase \in {"page", "words"} => tries < MaxTry

-----------------------------------------------------------------------------
\* One sequence behind another.
LEMMA Concatenation ==
  ASSUME NEW S, NEW s \in Seq(S), NEW t \in Seq(S)
  PROVE  /\ s \o t \in Seq(S) /\ Len(s \o t) = Len(s) + Len(t)
         /\ \A i \in 1..Len(s) : (s \o t)[i] = s[i]
         /\ \A i \in 1..Len(t) : (s \o t)[Len(s) + i] = t[i]
OBVIOUS

\* A sequence whose last elements are those of another one has it as a suffix.
LEMMA SuffixByElements ==
  ASSUME NEW S, NEW s \in Seq(S), NEW t \in Seq(S), Len(s) <= Len(t),
         \A i \in 1..Len(s) : t[Len(t) - Len(s) + i] = s[i]
  PROVE  IsSuffix(s, t)
<1>1. Len(s) \in Nat /\ Len(t) \in Nat
  OBVIOUS
<1>2. Reverse(s) = [i \in 1..Len(s) |-> s[(Len(s) - i) + 1]]
      /\ Reverse(t) = [i \in 1..Len(t) |-> t[(Len(t) - i) + 1]]
  BY DEF Reverse
<1>3. \A i \in 1..Len(s) : s[(Len(s) - i) + 1] \in S
  <2> SUFFICES ASSUME NEW i \in 1..Len(s) PROVE s[(Len(s) - i) + 1] \in S
    OBVIOUS
  <2>1. (Len(s) - i) + 1 \in 1..Len(s)
    BY <1>1
  <2> QED
    BY <2>1
<1>4. \A i \in 1..Len(t) : t[(Len(t) - i) + 1] \in S
  <2> SUFFICES ASSUME NEW i \in 1..Len(t) PROVE t[(Len(t) - i) + 1] \in S
    OBVIOUS
  <2>1. (Len(t) - i) + 1 \in 1..Len(t)
    BY <1>1
  <2> QED
    BY <2>1
<1>5. PICK u, v : u = Reverse(s) /\ v = Reverse(t)
  OBVIOUS
<1>6. /\ u \in Seq(S) /\ Len(u) = Len(s) /\ v \in Seq(S) /\ Len(v) = Len(t)
  BY <1>1, <1>2, <1>3, <1>4, <1>5
<1>7. \A i \in 1..Len(s) : u[i] = v[i]
  <2> SUFFICES ASSUME NEW i \in 1..Len(s) PROVE u[i] = v[i]
    OBVIOUS
  <2>1. (Len(s) - i) + 1 \in 1..Len(s)
    BY <1>1
  <2>2. t[Len(t) - Len(s) + ((Len(s) - i) + 1)] = s[(Len(s) - i) + 1]
    BY <2>1
  <2>3. Len(t) - Len(s) + ((Len(s) - i) + 1) = (Len(t) - i) + 1
    BY <1>1
  <2>4. i \in 1..Len(t)
    BY <1>1
  <2> QED
    BY <1>2, <1>5, <2>2, <2>3, <2>4
<1>8. SubSeq(u, 1, Len(u)) = SubSeq(v, 1, Len(u))
  BY <1>1, <1>6, <1>7
<1> QED
  BY <1>5, <1>6, <1>8 DEF IsSuffix, IsPrefix

-----------------------------------------------------------------------------
\* A part of the content arrives behind what html_len says is there.
LEMMA CallbackKeeps ==
  ASSUME FetchInv, FetchRight, NEW n \in 1..Len(content), WriteMemoryCallback(n)
  PROVE  FetchInv' /\ FetchRight'
<1>1. /\ content \in Seq(Tokens) /\ html \in Seq(Tokens) /\ Len(content) \in Nat /\ Len(html) \in Nat
      /\ sent \in 0..Len(content) /\ html_len \in Nat /\ sent + n <= Len(content) /\ n \in Nat
      /\ Fetching /\ Junk \in Tokens
  BY WebpageAssumption DEF FetchInv, WriteMemoryCallback
<1> DEFINE old == [i \in 1..html_len |-> IF i \in DOMAIN html THEN html[i] ELSE Junk]
           part == SubSeq(content, sent + 1, sent + n)
<1>2. old \in Seq(Tokens) /\ Len(old) = html_len
  <2>1. \A i \in 1..html_len : old[i] \in Tokens
    BY <1>1
  <2> QED
    BY <1>1, <2>1
<1>3. /\ part \in Seq(Tokens) /\ Len(part) = n
      /\ \A i \in 1..n : part[i] = content[sent + i]
  <2>1. \A i \in 1..n : sent + i \in 1..Len(content)
    BY <1>1
  <2> QED
    BY <1>1, <2>1
<1>4. /\ html' = old \o part /\ html_len' = html_len + n /\ sent' = sent + n
      /\ phase = "fetch" /\ phase' = "fetch" /\ tries' = tries /\ content' = content
      /\ errbuf' = errbuf /\ disturbed' = disturbed
  BY DEF WriteMemoryCallback, server, buffer
<1>5. \A i \in 1..sent : html_len - sent + i \in 1..html_len => old[html_len - sent + i] = content[i]
  <2> SUFFICES ASSUME NEW i \in 1..sent, html_len - sent + i \in 1..html_len
               PROVE  old[html_len - sent + i] = content[i]
    OBVIOUS
  <2>1. Len(html) = html_len /\ html[html_len - sent + i] = content[i]
    BY <1>1 DEF Fetching
  <2>2. html_len - sent + i \in DOMAIN html
    BY <1>1, <2>1
  <2> QED
    BY <2>1, <2>2
<1>6. sent <= html_len
  BY <1>1 DEF Fetching
<1> HIDE DEF old, part
<1>7. /\ html' \in Seq(Tokens) /\ Len(html') = html_len + n
      /\ \A i \in 1..html_len : html'[i] = old[i]
      /\ \A i \in 1..n : html'[html_len + i] = part[i]
  <2>1. PICK a, b : a = old /\ b = part
    OBVIOUS
  <2>2. a \in Seq(Tokens) /\ b \in Seq(Tokens)
    BY <1>2, <1>3, <2>1
  <2>3. /\ a \o b \in Seq(Tokens) /\ Len(a \o b) = Len(a) + Len(b)
        /\ \A i \in 1..Len(a) : (a \o b)[i] = a[i]
        /\ \A i \in 1..Len(b) : (a \o b)[Len(a) + i] = b[i]
    BY <2>2, Concatenation
  <2> QED
    BY <1>2, <1>3, <1>4, <2>1, <2>3
<1>8. \A i \in 1..sent' : html'[html_len' - sent' + i] = content'[i]
  <2>0. html_len' - sent' = html_len - sent
    BY <1>1, <1>4
  <2> SUFFICES ASSUME NEW i \in 1..(sent + n) PROVE html'[html_len - sent + i] = content[i]
    BY <1>4, <2>0
  <2>1. CASE i \in 1..sent
    <3>1. html_len - sent + i \in 1..html_len
      BY <1>1, <1>6, <2>1
    <3> QED
      BY <1>5, <1>7, <2>1, <3>1
  <2>2. CASE i \in (sent + 1)..(sent + n)
    <3>1. PICK j \in 1..n : i = sent + j
      <4>1. i - sent \in 1..n /\ i = sent + (i - sent)
        BY <1>1, <2>2
      <4> QED
        BY <4>1
    <3>2. html_len - sent + i = html_len + j
      BY <1>1, <3>1
    <3> QED
      BY <1>3, <1>7, <3>1, <3>2
  <2> QED
    BY <1>1, <2>1, <2>2
<1>9. Fetching'
  BY <1>1, <1>4, <1>6, <1>7, <1>8 DEF Fetching
<1> QED
  BY <1>1, <1>4, <1>7, <1>9 DEF FetchInv, FetchRight

\* Steps of a fetch that do not write to html, except that it may become NULL.
LEMMA TryKeeps ==
  ASSUME FetchInv, FetchRight, TryFails \/ LastTryFails
  PROVE  FetchInv' /\ FetchRight'
<1>1. CASE TryFails
  <2>1. /\ phase = "fetch" /\ phase' = "fetch" /\ tries + 1 < MaxTry /\ tries' = tries + 1 /\ sent' = 0
        /\ html' = html \/ (html' = <<>> /\ sent < Len(content))
        /\ content' = content /\ html_len' = html_len /\ errbuf' = errbuf
    BY <1>1 DEF TryFails, server, buffer
  <2>2. content \in Seq(Tokens) /\ html \in Seq(Tokens) /\ sent \in 0..Len(content) /\ html_len \in Nat
    BY <2>1 DEF FetchInv
  <2>3. html' = html \/ content # <<>>
    BY <2>1, <2>2
  <2>4. Fetching'
    BY <2>1, <2>2, <2>3 DEF Fetching, FetchInv
  <2>5. html' \in Seq(Tokens)
    <3>1. <<>> \in Seq(Tokens)
      OBVIOUS
    <3>2. html' = html \/ html' = <<>>
      BY <2>1
    <3> QED
      BY <2>2, <3>1, <3>2
  <2>6. 0 \in 0..Len(content) /\ tries' \in Nat
    <3>1. Len(content) \in Nat
      BY <2>2
    <3> QED
      BY <2>1, <3>1 DEF FetchInv
  <2> QED
    BY <2>1, <2>2, <2>4, <2>5, <2>6 DEF FetchInv, FetchRight
<1>2. CASE LastTryFails
  <2>1. /\ phase = "fetch" /\ phase' = "alloc" /\ tries' = MaxTry /\ errbuf' \in Messages
        /\ content' = content /\ html' = html /\ html_len' = html_len /\ sent' = sent
        /\ disturbed' = disturbed
    BY <1>2 DEF LastTryFails, server
  <2>2. errbuf' \in Seq(Tokens) /\ MaxTry \in Nat
    BY <2>1, WebpageAssumption DEF MaxTry
  <2> QED
    BY <2>1, <2>2 DEF FetchInv, FetchRight, Reporting
<1> QED
  BY <1>1, <1>2

\* A try that succeeds has brought all of the content.
LEMMA SuccessKeeps ==
  ASSUME FetchInv, FetchRight, FetchSucceeds
  PROVE  FetchInv' /\ FetchRight'
<1>1. /\ phase = "fetch" /\ phase' = "page" /\ sent = Len(content)
      /\ content' = content /\ html' = html /\ html_len' = html_len /\ sent' = sent
      /\ tries' = tries /\ errbuf' = errbuf /\ disturbed' = disturbed
  BY DEF FetchSucceeds, server, buffer
<1>2. content \in Seq(Tokens) /\ html \in Seq(Tokens) /\ html_len \in Nat /\ Fetching
  BY <1>1 DEF FetchInv
<1>3. /\ Len(html) = html_len /\ Len(content) <= Len(html)
      /\ \A i \in 1..Len(content) : html[Len(html) - Len(content) + i] = content[i]
  BY <1>1, <1>2 DEF Fetching
<1>4. IsSuffix(content, html)
  BY <1>2, <1>3, SuffixByElements
<1>5. IsSuffix(content', html')
  BY <1>1, <1>4
<1> QED
  BY <1>1, <1>2, <1>3, <1>5 DEF FetchInv, FetchRight, Fetching

\* The message is taken from the buffer in three steps, and another thread may use the
\* buffer between them.
LEMMA MessageKeeps ==
  ASSUME FetchInv, FetchRight, OtherFetch \/ AllocMessage \/ LengthOfMessage \/ CopyMessage
  PROVE  FetchInv' /\ FetchRight'
<1>1. CASE OtherFetch
  <2>1. /\ phase \in {"alloc", "length", "copy"} /\ phase' = phase /\ disturbed' = TRUE
        /\ errbuf' \in Messages \cup {<<>>}
        /\ content' = content /\ html' = html /\ html_len' = html_len /\ sent' = sent /\ tries' = tries
    BY <1>1 DEF OtherFetch, server
  <2>2. errbuf' \in Seq(Tokens)
    <3>1. <<>> \in Seq(Tokens) /\ Messages \subseteq Seq(Tokens)
      BY WebpageAssumption
    <3> QED
      BY <2>1, <3>1
  <2> QED
    BY <2>1, <2>2 DEF FetchInv, FetchRight, Reporting
<1>2. CASE AllocMessage
  <2>1. /\ phase = "alloc" /\ phase' = "length" /\ html' = [i \in DOMAIN errbuf |-> Junk]
        /\ content' = content /\ html_len' = html_len /\ sent' = sent /\ tries' = tries
        /\ errbuf' = errbuf /\ disturbed' = disturbed
    BY <1>2 DEF AllocMessage, server, buffer
  <2>2. html' \in Seq(Tokens) /\ Len(html') = Len(errbuf)
    <3>1. DOMAIN errbuf = 1..Len(errbuf) /\ Len(errbuf) \in Nat /\ Junk \in Tokens
      BY WebpageAssumption DEF FetchInv
    <3> QED
      BY <2>1, <3>1
  <2> QED
    BY <2>1, <2>2 DEF FetchInv, FetchRight, Reporting
<1>3. CASE LengthOfMessage
  <2>1. /\ phase = "length" /\ phase' = "copy" /\ html_len' = Len(errbuf)
        /\ content' = content /\ html' = html /\ sent' = sent /\ tries' = tries
        /\ errbuf' = errbuf /\ disturbed' = disturbed
    BY <1>3 DEF LengthOfMessage, server, buffer
  <2>2. Len(errbuf) \in Nat
    BY DEF FetchInv
  <2> QED
    BY <2>1, <2>2 DEF FetchInv, FetchRight, Reporting
<1>4. CASE CopyMessage
  <2>1. /\ phase = "copy" /\ html' = errbuf
        /\ phase' = "failed" \/ (phase' = "crashed" /\ Len(errbuf) > Len(html))
        /\ content' = content /\ html_len' = html_len /\ sent' = sent /\ tries' = tries
        /\ errbuf' = errbuf /\ disturbed' = disturbed
    BY <1>4 DEF CopyMessage, server, buffer
  <2>2. Reporting /\ Len(errbuf) \in Nat
    BY <2>1 DEF FetchInv
  <2> QED
    BY <2>1, <2>2 DEF FetchInv, FetchRight, Reporting
<1> QED
  BY <1>1, <1>2, <1>3, <1>4

\* The scanners leave the fetch alone; they begin with a page that was fetched.
LEMMA ScanKeeps ==
  ASSUME FetchInv, FetchRight, GetNextWord \/ GetNextURL
  PROVE  FetchInv' /\ FetchRight'
<1>1. /\ phase \in {"page", "words", "links"}
      /\ phase' \in {"words", "noword", "crashed", "links", "nolink"}
      /\ phase' \in {"words", "crashed"} => phase \in {"page", "words"}
      /\ content' = content /\ html_len' = html_len /\ sent' = sent /\ tries' = tries
      /\ errbuf' = errbuf /\ disturbed' = disturbed
  <2>1. CASE GetNextWord
    BY <2>1 DEF GetNextWord, server, buffer
  <2>2. CASE GetNextURL
    BY <2>2 DEF GetNextURL, server, buffer
  <2> QED
    BY <2>1, <2>2
<1>2. phase' = "crashed" => tries # MaxTry
  BY <1>1 DEF FetchInv, MaxTry
<1> QED
  BY <1>1, <1>2 DEF FetchInv, FetchRight

-----------------------------------------------------------------------------
\* What the fetch has written so far is as FetchInv says, and what it leaves is right.
THEOREM FetchInvariant == Spec => [](FetchInv /\ FetchRight)
<1>1. Init => FetchInv /\ FetchRight
  <2> SUFFICES ASSUME Init PROVE FetchInv /\ FetchRight
    OBVIOUS
  <2>1. errbuf \in Seq(Tokens) /\ sent = 0 /\ tries = 0
    BY DEF Init
  <2>2. CASE content \in Contents /\ html = <<>> /\ html_len = 0 /\ phase = "fetch"
    <3>1. content \in Seq(Tokens) /\ html \in Seq(Tokens) /\ Len(html) = 0
      BY <2>2, WebpageAssumption
    <3> QED
      BY <2>1, <2>2, <3>1 DEF FetchInv, FetchRight, Fetching, MaxTry
  <2>3. ASSUME NEW p \in Pages, content = p.html, html = p.html, html_len = Len(p.html), phase = "page"
        PROVE  FetchInv /\ FetchRight
    <3>1. p.html \in Seq(Tokens)
      BY WebpageAssumption
    <3>2. IsSuffix(content, html)
      BY <2>3, <3>1, SuffixByElements
    <3> QED
      BY <2>1, <2>3, <3>1, <3>2 DEF FetchInv, FetchRight, MaxTry
  <2> QED
    BY <2>2, <2>3 DEF Init
<1>2. FetchInv /\ FetchRight /\ [Next]_vars => FetchInv' /\ FetchRight'
  <2> SUFFICES ASSUME FetchInv, FetchRight, [Next]_vars PROVE FetchInv' /\ FetchRight'
    OBVIOUS
  <2>1. CASE Next
    BY <2>1, CallbackKeeps, TryKeeps, SuccessKeeps, MessageKeeps, ScanKeeps DEF Next
  <2>2. CASE UNCHANGED vars
    BY <2>2 DEF vars, server, buffer, FetchInv, FetchRight, Fetching, Reporting
  <2> QED
    BY <2>1, <2>2
<1> QED
  BY <1>1, <1>2, PTL DEF Spec

\* A page that was fetched has the content of the server at its end, with a length that
\* is that of the text; one that was not has the message of curl and nothing of the page,
\* and nothing is written beyond its room, unless another thread has used the buffer for
\* messages between the three uses of it here.
THEOREM FetchesAreRight == Spec => []FetchRight
BY FetchInvariant, PTL

-----------------------------------------------------------------------------
(***************************************************************************)
(* The words.                                                              *)
(***************************************************************************)
\* Where the scan for words begins: outside of tags, and behind a word if it is not at the
\* start of the page.
AtBoundary(doc, p) ==
  /\ p \in 0..Len(doc) /\ OutsideTags(doc, p + 1)
  /\ 0 < p /\ p < Len(doc) => doc[p + 1] \notin Letters

\* The words that end at position p or before it.
WordsUpTo(doc, p) == {w \in Words(doc) : w[2] <= p}

\* What WordsRight says about the pairs handed over.
Ordered(ws) == \A m, n \in DOMAIN ws : m < n => ws[m][2] < ws[n][1]

\* The words of a page are maximal runs of text.
LEMMA WordsAre ==
  ASSUME NEW doc \in Seq(Tokens), NEW w
  PROVE  w \in Words(doc) <=>
           /\ w \in TextOf(doc) \X TextOf(doc) /\ w[1] <= w[2] /\ w[1]..w[2] \subseteq TextOf(doc)
           /\ w[1] - 1 \notin TextOf(doc) /\ w[2] + 1 \notin TextOf(doc)
BY DEF Words

\* The word that the scan finds is the next one.
LEMMA NextWordIs ==
  ASSUME NEW doc \in Seq(Tokens), NEW p, AtBoundary(doc, p),
         NEW r, Scans(doc, p + 1, r), r.kind = "found"
  PROVE  /\ r.first \in (p + 1)..Len(doc) /\ r.last \in r.first..Len(doc)
         /\ AtBoundary(doc, r.last)
         /\ WordsUpTo(doc, r.last) = WordsUpTo(doc, p) \cup {<<r.first, r.last>>}
<1>1. PICK n, f, l : n = Len(doc) /\ f = r.first /\ l = r.last
  OBVIOUS
<1>2. n \in Nat /\ DOMAIN doc = 1..n /\ p \in 0..n /\ TextOf(doc) \subseteq 1..n
  BY <1>1 DEF AtBoundary, TextOf
<1>3. /\ f \in (p + 1)..n /\ l \in f..n /\ NoText(doc, p + 1, f - 1) /\ OutsideTags(doc, f)
      /\ \A j \in f..l : doc[j] \in Letters
      /\ l < n => doc[l + 1] \notin Letters
  BY <1>1 DEF Scans
<1>4. OutsideTags(doc, l + 1) /\ \A j \in f..l : IsText(doc, j)
  <2>1. f \in 1..Len(doc) /\ l \in f..Len(doc)
    BY <1>1, <1>2, <1>3
  <2> QED
    BY <1>3, <2>1, WordOutside
<1>5. AtBoundary(doc, l)
  BY <1>1, <1>2, <1>3, <1>4 DEF AtBoundary
<1>6. \A j \in 1..n : j \in TextOf(doc) <=> IsText(doc, j)
  BY <1>2 DEF TextOf, IsText
<1>7. f..l \subseteq TextOf(doc)
  BY <1>2, <1>3, <1>4, <1>6
<1>8. \A j \in (p + 1)..(f - 1) : j \notin TextOf(doc)
  BY <1>2, <1>3, <1>6 DEF NoText
<1>9. l + 1 \notin TextOf(doc)
  BY <1>2, <1>3, <1>6 DEF IsText
<1>10. f - 1 \notin TextOf(doc)
  <2>1. CASE f - 1 = p /\ p > 0
    <3>1. f \in f..l /\ f = p + 1 /\ p < n
      BY <1>2, <1>3, <2>1
    <3>2. doc[f] \in Letters /\ doc[f] \notin Letters
      BY <1>1, <1>3, <2>1, <3>1 DEF AtBoundary
    <3> QED
      BY <3>2
  <2>2. CASE f - 1 = p /\ p = 0
    BY <1>2, <2>2
  <2>3. CASE f - 1 # p
    <3>1. f - 1 \in (p + 1)..(f - 1)
      BY <1>2, <1>3, <2>3
    <3> QED
      BY <1>8, <3>1
  <2> QED
    BY <1>2, <2>1, <2>2, <2>3
<1>11. <<f, l>> \in Words(doc)
  <2>1. f \in TextOf(doc) /\ l \in TextOf(doc) /\ f <= l
    BY <1>2, <1>3, <1>7
  <2> QED
    BY <1>7, <1>9, <1>10, <2>1, WordsAre
<1>12. ASSUME NEW w \in Words(doc), w[2] > p, w[2] <= l PROVE w = <<f, l>>
  <2>1. PICK a, b : w = <<a, b>> /\ a \in TextOf(doc) /\ b \in TextOf(doc)
    BY WordsAre
  <2>2. /\ a \in 1..n /\ b \in 1..n /\ a <= b /\ a..b \subseteq TextOf(doc)
        /\ a - 1 \notin TextOf(doc) /\ b + 1 \notin TextOf(doc) /\ b > p /\ b <= l
    BY <1>2, <1>12, <2>1, WordsAre
  <2>3. b \in f..l
    <3>1. ~(b \in (p + 1)..(f - 1))
      BY <1>8, <2>1
    <3> QED
      BY <1>2, <1>3, <2>2, <3>1
  <2>4. b = l
    <3>1. ~(b + 1 \in f..l)
      BY <1>7, <2>2
    <3> QED
      BY <1>2, <1>3, <2>3, <3>1
  <2>5. ~(f - 1 \in a..b) /\ ~(a - 1 \in f..l)
    BY <1>7, <1>10, <2>2
  <2>6. a = f
    BY <1>2, <1>3, <2>2, <2>3, <2>5
  <2> QED
    BY <2>1, <2>4, <2>6
<1>13. \A w \in Words(doc) : w[2] \in 1..n
  BY <1>2, WordsAre
<1>14. WordsUpTo(doc, l) = WordsUpTo(doc, p) \cup {<<f, l>>}
  <2>1. p <= l /\ p \in Int /\ l \in Int
    BY <1>2, <1>3
  <2>2. ASSUME NEW w \in Words(doc), w[2] <= l PROVE w[2] <= p \/ w = <<f, l>>
    BY <1>12, <1>13, <2>1, <2>2
  <2>3. <<f, l>>[2] <= l /\ \A w \in Words(doc) : w[2] <= p => w[2] <= l
    BY <1>13, <2>1
  <2> QED
    BY <1>11, <2>2, <2>3 DEF WordsUpTo
<1> QED
  BY <1>1, <1>3, <1>5, <1>14

\* If the scan finds no word there are no more.
LEMMA NoMoreWords ==
  ASSUME NEW doc \in Seq(Tokens), NEW p \in 0..Len(doc), NoText(doc, p + 1, Len(doc))
  PROVE  WordsUpTo(doc, p) = Words(doc)
<1>1. PICK n : n = Len(doc) /\ n \in Nat /\ DOMAIN doc = 1..n
  OBVIOUS
<1>2. ASSUME NEW w \in Words(doc) PROVE w[2] <= p
  <2>1. PICK a, b : w = <<a, b>> /\ b \in TextOf(doc)
    BY WordsAre
  <2>2. b \in 1..n /\ IsText(doc, b)
    BY <1>1, <2>1 DEF TextOf, IsText
  <2>3. ~(b \in (p + 1)..n)
    BY <1>1, <2>2 DEF NoText
  <2> QED
    BY <1>1, <2>1, <2>2, <2>3
<1> QED
  BY <1>2 DEF WordsUpTo

\* The words handed over, which are in the order of the page; while the caller goes on,
\* they are those up to the position that was returned.
WordsInv ==
  /\ phase \in {"fetch", "alloc", "length", "copy", "page"} => words = <<>> /\ pos = 0
  /\ phase \in {"page", "words"} =>
       html \in Seq(Tokens) /\ AtBoundary(html, pos) /\ Range(words) = WordsUpTo(html, pos)
  /\ words \in Seq(Nat \X Nat) /\ Ordered(words)
  /\ phase = "noword" => Range(words) = Words(html)
  /\ phase = "crashed" /\ tries < MaxTry => InTag(html, Len(html)) /\ Range(words) = Words(html)

\* Nothing is handed over at the start of a page.
LEMMA NoWordsYet ==
  ASSUME NEW doc \in Seq(Tokens)
  PROVE  AtBoundary(doc, 0) /\ WordsUpTo(doc, 0) = {} /\ Range(<<>>) = {} /\ Ordered(<<>>)
<1>1. Len(doc) \in Nat /\ DOMAIN doc = 1..Len(doc) /\ TextOf(doc) \subseteq 1..Len(doc)
  BY DEF TextOf
<1>2. AtBoundary(doc, 0)
  BY <1>1 DEF AtBoundary, OutsideTags
<1>3. \A w \in Words(doc) : w[2] \in 1..Len(doc)
  BY <1>1, WordsAre
<1>4. WordsUpTo(doc, 0) = {}
  BY <1>1, <1>3 DEF WordsUpTo
<1> QED
  BY <1>2, <1>4 DEF Range, Ordered

\* A call that finds a word hands over the next one and returns a later position.
LEMMA GetNextWordKeeps ==
  ASSUME FetchInv, WordsInv, GetNextWord
  PROVE  WordsInv' /\ (words' # words => pos' > pos)
<1>1. /\ phase \in {"page", "words"} /\ html' = html /\ tries' = tries
      /\ html \in Seq(Tokens) /\ AtBoundary(html, pos) /\ Range(words) = WordsUpTo(html, pos)
      /\ words \in Seq(Nat \X Nat) /\ Ordered(words)
  BY DEF GetNextWord, WordsInv
<1>2. PICK r : r = FindWord(html, pos + 1)
  OBVIOUS
<1>3. pos \in 0..Len(html) /\ Len(html) \in Nat /\ OutsideTags(html, pos + 1)
  BY <1>1 DEF AtBoundary
<1>4. Scans(html, pos + 1, r)
  <2>1. pos + 1 \in 1..(Len(html) + 1)
    BY <1>3
  <2> QED
    BY <1>1, <1>2, <1>3, <2>1, FindWordScans
<1>5. CASE r.kind = "found"
  <2>1. PICK w : w = <<r.first, r.last>>
    OBVIOUS
  <2>2. phase' = "words" /\ pos' = r.last /\ words' = Append(words, w)
    BY <1>2, <1>5, <2>1 DEF GetNextWord
  <2>3. /\ r.first \in (pos + 1)..Len(html) /\ r.last \in r.first..Len(html)
        /\ AtBoundary(html, r.last)
        /\ WordsUpTo(html, r.last) = WordsUpTo(html, pos) \cup {w}
    BY <1>1, <1>4, <1>5, <2>1, NextWordIs
  <2>4. w \in Nat \X Nat /\ w[1] = r.first /\ w[2] = r.last
    BY <1>3, <2>1, <2>3
  <2>5. /\ words' \in Seq(Nat \X Nat) /\ DOMAIN words = 1..Len(words) /\ Len(words) \in Nat
        /\ DOMAIN words' = 1..(Len(words) + 1) /\ words'[Len(words) + 1] = w
        /\ \A i \in DOMAIN words : words'[i] = words[i]
    BY <1>1, <2>2, <2>4
  <2>6. Range(words') = Range(words) \cup {w}
    <3>1. DOMAIN words' = DOMAIN words \cup {Len(words) + 1}
      BY <2>5
    <3>2. \A i \in DOMAIN words' : words'[i] \in Range(words) \cup {w}
      BY <2>5, <3>1 DEF Range
    <3>3. w \in Range(words') /\ Range(words) \subseteq Range(words')
      BY <2>5, <3>1 DEF Range
    <3> QED
      BY <3>2, <3>3 DEF Range
  <2>7. \A i \in DOMAIN words : words[i][2] <= pos
    BY <1>1 DEF Range, WordsUpTo
  <2>8. Ordered(words')
    <3> SUFFICES ASSUME NEW m \in DOMAIN words', NEW n \in DOMAIN words', m < n
                 PROVE  words'[m][2] < words'[n][1]
      BY DEF Ordered
    <3>1. CASE n \in DOMAIN words
      <4>1. m \in DOMAIN words
        BY <2>5, <3>1
      <4> QED
        BY <1>1, <2>5, <3>1, <4>1 DEF Ordered
    <3>2. CASE n = Len(words) + 1
      <4>1. m \in DOMAIN words
        BY <2>5, <3>2
      <4>2. words'[m] = words[m] /\ words[m] \in Nat \X Nat /\ words[m][2] <= pos /\ words'[n] = w
        BY <1>1, <2>5, <2>7, <3>2, <4>1
      <4> QED
        BY <1>3, <2>3, <2>4, <4>2
    <3> QED
      BY <2>5, <3>1, <3>2
  <2>9. pos' > pos
    BY <1>3, <2>2, <2>3
  <2> QED
    BY <1>1, <2>2, <2>3, <2>5, <2>6, <2>8, <2>9 DEF WordsInv
<1>6. CASE r.kind # "found"
  <2>1. /\ phase' = (IF r.kind = "end" THEN "noword" ELSE "crashed") /\ pos' = pos /\ words' = words
    BY <1>2, <1>6 DEF GetNextWord
  <2>2. NoText(html, pos + 1, Len(html)) /\ (r.kind # "end" => InTag(html, Len(html)))
    BY <1>4, <1>6 DEF Scans
  <2>3. Range(words) = Words(html)
    BY <1>1, <1>3, <2>2, NoMoreWords
  <2> QED
    BY <1>1, <2>1, <2>2, <2>3 DEF WordsInv
<1> QED
  BY <1>5, <1>6

-----------------------------------------------------------------------------
(***************************************************************************)
(* The links.                                                              *)
(***************************************************************************)
\* strpbrk finds the first of the tokens, if there is one.
LEMMA FirstIs ==
  ASSUME NEW doc \in Seq(Tokens), NEW i \in Nat \ {0}, NEW cs, NEW f, f = FindFirst(doc, i, cs)
  PROVE  \/ f = 0 /\ \A k \in i..Len(doc) : doc[k] \notin cs
         \/ f \in i..Len(doc) /\ doc[f] \in cs /\ \A k \in i..(f - 1) : doc[k] \notin cs
<1>1. PICK n \in Nat : n = Len(doc)
  OBVIOUS
<1>2. PICK I : I = {k \in i..n : doc[k] \in cs}
  OBVIOUS
<1>3. f = IF I # {} THEN Min(I) ELSE 0
  BY <1>1, <1>2 DEF FindFirst, SelectInSubSeq
<1>4. CASE I = {}
  BY <1>1, <1>2, <1>3, <1>4
<1>5. CASE I # {}
  <2>1. I \in SUBSET Nat
    BY <1>2
  <2>2. f \in I /\ \A k \in I : f <= k
    BY <1>3, <1>5, <2>1, LeastOf
  <2>3. f \in i..n /\ doc[f] \in cs
    BY <1>2, <2>2
  <2>4. ASSUME NEW k \in i..(f - 1) PROVE doc[k] \notin cs
    <3>1. k \in i..n /\ ~(f <= k)
      BY <1>1, <2>3
    <3> QED
      BY <1>2, <2>2, <3>1
  <2> QED
    BY <1>1, <2>3, <2>4
<1> QED
  BY <1>4, <1>5

\* Two tokens at a position.
Here(doc, k, x, y) == k + 1 <= Len(doc) /\ doc[k] = x /\ doc[k + 1] = y

\* That is what StandsAt compares, and so for one.
LEMMA StandsHere ==
  ASSUME NEW doc \in Seq(Tokens), NEW k \in 1..Len(doc), NEW x, NEW y
  PROVE  /\ StandsAt(doc, k, <<x, y>>) <=> Here(doc, k, x, y)
         /\ StandsAt(doc, k, <<x>>) <=> doc[k] = x
<1>1. PICK n \in Nat : n = Len(doc) /\ k \in 1..n
  OBVIOUS
<1>2. PICK two, one : two = <<x, y>> /\ one = <<x>>
  OBVIOUS
<1>3. Len(two) = 2 /\ Len(one) = 1 /\ two[1] = x /\ two[2] = y /\ one[1] = x
  BY <1>2
<1>4. two = [i \in 1..2 |-> two[i]] /\ one = [i \in 1..1 |-> one[i]]
  BY <1>2
<1>5. StandsAt(doc, k, two) <=> k + 2 <= n + 1 /\ SubSeq(doc, k, k + 2 - 1) = two
  BY <1>1, <1>3 DEF StandsAt
<1>6. StandsAt(doc, k, one) <=> k + 1 <= n + 1 /\ SubSeq(doc, k, k + 1 - 1) = one
  BY <1>1, <1>3 DEF StandsAt
<1>7. k + 1 - 1 = k /\ k + 2 - 1 = k + 1 /\ (k + 2 <= n + 1 <=> k + 1 <= n) /\ k + 1 <= n + 1
  BY <1>1
<1>8. ASSUME k + 1 <= n PROVE SubSeq(doc, k, k + 1) = two <=> doc[k] = x /\ doc[k + 1] = y
  <2>1. PICK w : w = SubSeq(doc, k, k + 1)
    OBVIOUS
  <2>2. w = [i \in 1..2 |-> doc[k + i - 1]]
    BY <1>1, <1>8, <2>1
  <2>3. 1 \in 1..2 /\ 2 \in 1..2 /\ k + 1 - 1 = k /\ k + 2 - 1 = k + 1 /\ \A i \in 1..2 : i = 1 \/ i = 2
    BY <1>1
  <2>4. w[1] = doc[k] /\ w[2] = doc[k + 1]
    BY <2>2, <2>3
  <2>5. ASSUME doc[k] = x, doc[k + 1] = y PROVE w = two
    <3>1. \A i \in 1..2 : doc[k + i - 1] = two[i]
      BY <1>3, <2>3, <2>5
    <3> QED
      BY <1>4, <2>2, <3>1
  <2> QED
    BY <1>3, <2>1, <2>4, <2>5
<1>9. SubSeq(doc, k, k) = one <=> doc[k] = x
  <2>1. PICK w : w = SubSeq(doc, k, k)
    OBVIOUS
  <2>2. w = [i \in 1..1 |-> doc[k + i - 1]]
    BY <1>1, <2>1
  <2>3. 1 \in 1..1 /\ k + 1 - 1 = k /\ \A i \in 1..1 : i = 1
    BY <1>1
  <2>4. w[1] = doc[k]
    BY <2>2, <2>3
  <2>5. ASSUME doc[k] = x PROVE w = one
    <3>1. \A i \in 1..1 : doc[k + i - 1] = one[i]
      BY <1>3, <2>3, <2>5
    <3> QED
      BY <1>4, <2>2, <3>1
  <2> QED
    BY <1>3, <2>1, <2>4, <2>5
<1>10. StandsAt(doc, k, two) <=> Here(doc, k, x, y)
  BY <1>1, <1>5, <1>7, <1>8 DEF Here
<1>11. StandsAt(doc, k, one) <=> doc[k] = x
  BY <1>6, <1>7, <1>9
<1> QED
  BY <1>2, <1>10, <1>11

\* strcasestr finds the first place of a text of two tokens, if there is one.
LEMMA FirstText ==
  ASSUME NEW doc \in Seq(Tokens), NEW i \in Nat \ {0}, NEW x, NEW y, NEW f, f = FindText(doc, i, <<x, y>>)
  PROVE  \/ f = 0 /\ \A k \in i..Len(doc) : ~Here(doc, k, x, y)
         \/ f \in i..Len(doc) /\ Here(doc, f, x, y) /\ \A k \in i..(f - 1) : ~Here(doc, k, x, y)
<1>1. PICK n \in Nat : n = Len(doc)
  OBVIOUS
<1>2. PICK I : I = {k \in i..n : StandsAt(doc, k, <<x, y>>)}
  OBVIOUS
<1>3. f = IF I = {} THEN 0 ELSE Min(I)
  BY <1>1, <1>2 DEF FindText
<1>4. \A k \in i..n : k \in I <=> Here(doc, k, x, y)
  <2> SUFFICES ASSUME NEW k \in i..n PROVE k \in I <=> Here(doc, k, x, y)
    OBVIOUS
  <2>1. k \in 1..Len(doc)
    BY <1>1
  <2>2. StandsAt(doc, k, <<x, y>>) <=> Here(doc, k, x, y)
    BY <2>1, StandsHere
  <2> QED
    BY <1>2, <2>2
<1>5. CASE I = {}
  BY <1>1, <1>3, <1>4, <1>5
<1>6. CASE I # {}
  <2>0. I \subseteq i..n
    BY <1>2
  <2>1. I \in SUBSET Nat
    BY <2>0
  <2>2. f \in I /\ \A k \in I : f <= k
    <3>1. f = Min(I)
      BY <1>3, <1>6
    <3>2. Min(I) \in I /\ \A k \in I : Min(I) <= k
      BY <1>6, <2>1, LeastOf
    <3> QED
      BY <3>1, <3>2
  <2>3. f \in i..n /\ Here(doc, f, x, y)
    BY <1>4, <2>0, <2>2
  <2>4. ASSUME NEW k \in i..(f - 1) PROVE ~Here(doc, k, x, y)
    <3>1. k \in i..n /\ ~(f <= k)
      BY <1>1, <2>3
    <3> QED
      BY <1>4, <2>2, <3>1
  <2> QED
    BY <1>1, <2>3, <2>4
<1> QED
  BY <1>5, <1>6

\* So strpbrk and strcasestr return 0, or a position from the one given on.
LEMMA FindFirstIs ==
  ASSUME NEW doc \in Seq(Tokens), NEW i \in Nat \ {0}, NEW cs
  PROVE  FindFirst(doc, i, cs) \in {0} \cup i..Len(doc)
<1>1. PICK f : f = FindFirst(doc, i, cs)
  OBVIOUS
<1> QED
  BY <1>1, FirstIs

\* The same for a text of two tokens.
LEMMA FindTextIs ==
  ASSUME NEW doc \in Seq(Tokens), NEW i \in Nat \ {0}, NEW x, NEW y
  PROVE  /\ FindText(doc, i, <<x, y>>) \in {0} \cup i..Len(doc)
         /\ FindText(doc, i, <<x, y>>) + 1 <= Len(doc) \/ FindText(doc, i, <<x, y>>) = 0
<1>1. PICK f : f = FindText(doc, i, <<x, y>>)
  OBVIOUS
<1>2. f = 0 \/ (f \in i..Len(doc) /\ Here(doc, f, x, y))
  BY <1>1, FirstText
<1> QED
  BY <1>1, <1>2 DEF Here

\* The search of a position for an anchor, and for the end of the URL in it.
LEMMA AnchorIs ==
  ASSUME NEW doc \in Seq(Tokens), NEW i \in 1..(Len(doc) + 1), NEW a, a = Anchor(doc, i), a.exists
  PROVE  /\ i + 2 <= Len(doc) + 1
         /\ a.end # 0 => a.end \in (i + 1)..Len(doc)
<1>1. PICK lnk, href : /\ lnk = FindText(doc, i, <<"<", "a">>)
                       /\ href = FindText(doc, lnk, <<"href", "=">>)
  OBVIOUS
<1>2. PICK quoted, first :
        /\ quoted = (href + 2 <= Len(doc) /\ doc[href + 2] \in Quotes)
        /\ first = IF quoted THEN href + 3 ELSE href + 2
  OBVIOUS
<1>3. PICK close, hash :
        /\ close = FindFirst(doc, first, IF quoted THEN {doc[href + 2]} ELSE {">"})
        /\ hash = FindFirst(doc, first, {"#"})
  OBVIOUS
<1>4. a = IF lnk = 0 \/ href = 0 THEN [exists |-> FALSE]
          ELSE [exists |-> TRUE, href |-> href, first |-> first,
                tag |-> FindFirst(doc, lnk, {">"}),
                end |-> IF hash # 0 /\ hash < close THEN hash ELSE close]
  BY <1>1, <1>2, <1>3 DEF Anchor
<1>5. lnk # 0 /\ href # 0
  <2>1. CASE lnk = 0 \/ href = 0
    <3>1. a = [exists |-> FALSE]
      BY <1>4, <2>1
    <3> QED
      BY <3>1
  <2> QED
    BY <2>1
<1>6. a.end = IF hash # 0 /\ hash < close THEN hash ELSE close
  BY <1>4, <1>5
<1>7. lnk \in i..Len(doc) /\ lnk + 1 <= Len(doc)
  BY <1>1, <1>5, FindTextIs
<1>8. href \in lnk..Len(doc)
  BY <1>1, <1>5, <1>7, FindTextIs
<1>9. first \in Nat \ {0} /\ first >= href + 2
  <2>1. PICK n \in Nat \ {0} : n = href
    BY <1>7, <1>8
  <2>2. first = n + 3 \/ first = n + 2
    BY <1>2, <2>1
  <2> QED
    BY <2>1, <2>2
<1>10. close \in {0} \cup first..Len(doc) /\ hash \in {0} \cup first..Len(doc)
  BY <1>3, <1>9, FindFirstIs
<1> QED
  BY <1>6, <1>7, <1>8, <1>9, <1>10

\* What the loop does: a bad link is passed by two characters at a time.
LEMMA NextLinkLeads ==
  ASSUME NEW doc \in Seq(Tokens)
  PROVE  \E f : \A i \in 1..(Len(doc) + 1) :
           /\ NextLink(doc, i) = f[i]
           /\ ~(Anchor(doc, i).exists /\ BadLink(doc, Anchor(doc, i))) => f[i] = Anchor(doc, i)
           /\ Anchor(doc, i).exists /\ BadLink(doc, Anchor(doc, i)) =>
                f[i] = f[i + 2] /\ i + 2 \in (i + 1)..(Len(doc) + 1)
<1> DEFINE Bad(i) == Anchor(doc, i).exists /\ BadLink(doc, Anchor(doc, i))
           Loop(f) == f = [i \in 1..(Len(doc) + 1) |-> IF Bad(i) THEN f[i + 2] ELSE Anchor(doc, i)]
<1>1. PICK n \in Nat : n = Len(doc) + 1
  OBVIOUS
<1>2. PICK a, next : /\ a = [i \in 1..n |-> Anchor(doc, i)]
                     /\ next = [i \in 1..n |-> IF Bad(i) THEN i + 2 ELSE 0]
  OBVIOUS
<1>3. ASSUME NEW i \in 1..n, Bad(i) PROVE i + 2 \in (i + 1)..n
  BY <1>1, <1>3, AnchorIs
<1>4. \A i \in 1..n : next[i] = 0 \/ next[i] \in (i + 1)..n
  <2> HIDE DEF Bad
  <2> QED
    BY <1>2, <1>3
<1>5. \E f : Loop(f)
  <2>1. PICK f : Leads(f, n, a, next)
    BY <1>4, LeadsExist
  <2>2. f = [i \in 1..n |-> IF next[i] = 0 THEN a[i] ELSE f[next[i]]]
    BY <2>1 DEF Leads
  <2> HIDE DEF Bad
  <2>3. ASSUME NEW i \in 1..n
        PROVE  (IF next[i] = 0 THEN a[i] ELSE f[next[i]]) = IF Bad(i) THEN f[i + 2] ELSE Anchor(doc, i)
    BY <1>2
  <2>4. Loop(f)
    BY <1>1, <2>2, <2>3
  <2> QED
    BY <2>4
<1>6. PICK f : Loop(f) /\ \A i \in 1..n : NextLink(doc, i) = f[i]
  <2>1. \A i \in 1..n : NextLink(doc, i) = (CHOOSE f : Loop(f))[i]
    BY DEF NextLink
  <2> HIDE DEF Loop
  <2> QED
    BY <1>5, <2>1
<1>7. \A i \in 1..n : f[i] = IF Bad(i) THEN f[i + 2] ELSE Anchor(doc, i)
  <2> HIDE DEF Bad
  <2> QED
    BY <1>1, <1>6
<1>8. \A i \in 1..n : /\ NextLink(doc, i) = f[i] /\ (~Bad(i) => f[i] = Anchor(doc, i))
                      /\ Bad(i) => f[i] = f[i + 2] /\ i + 2 \in (i + 1)..n
  <2> HIDE DEF Bad
  <2> QED
    BY <1>3, <1>6, <1>7
<1> QED
  BY <1>1, <1>8

\* The loop over the anchors returns one from the position given on, which is not bad.
LEMMA NextLinkIs ==
  ASSUME NEW doc \in Seq(Tokens), NEW start \in 1..(Len(doc) + 1),
         NEW r, r = NextLink(doc, start), r.exists
  PROVE  r.end \in (start + 1)..Len(doc)
<1>1. PICK n \in Nat : n = Len(doc) + 1
  OBVIOUS
<1>2. PICK f : \A i \in 1..n :
           /\ NextLink(doc, i) = f[i]
           /\ ~(Anchor(doc, i).exists /\ BadLink(doc, Anchor(doc, i))) => f[i] = Anchor(doc, i)
           /\ Anchor(doc, i).exists /\ BadLink(doc, Anchor(doc, i)) =>
                f[i] = f[i + 2] /\ i + 2 \in (i + 1)..n
  BY <1>1, NextLinkLeads
<1> DEFINE G == {i \in 1..n : f[i].exists => f[i].end \in (i + 1)..Len(doc)}
<1>3. ASSUME NEW i \in 1..n, \A j \in (i + 1)..n : j \in G PROVE i \in G
  <2> SUFFICES ASSUME f[i].exists PROVE f[i].end \in (i + 1)..Len(doc)
    OBVIOUS
  <2>1. PICK l : l = Anchor(doc, i)
    OBVIOUS
  <2>2. CASE l.exists /\ BadLink(doc, l)
    <3>1. f[i] = f[i + 2] /\ i + 2 \in (i + 1)..n
      BY <1>2, <2>1, <2>2
    <3>2. f[i + 2].end \in ((i + 2) + 1)..Len(doc)
      BY <1>3, <3>1
    <3> QED
      BY <1>1, <3>1, <3>2
  <2>3. CASE ~(l.exists /\ BadLink(doc, l))
    <3>1. f[i] = l /\ l.exists /\ ~BadLink(doc, l)
      BY <1>2, <2>1, <2>3
    <3>2. l.end # 0
      BY <3>1 DEF BadLink
    <3> QED
      BY <1>1, <2>1, <3>1, <3>2, AnchorIs
  <2> QED
    BY <2>2, <2>3
<1>4. start \in G
  <2>1. start \in 1..n
    BY <1>1
  <2> HIDE DEF G
  <2> QED
    BY <1>1, <1>3, <2>1, DownInduction
<1> QED
  BY <1>1, <1>2, <1>4

\* Where the loop over the links of a page is.
LinksInv ==
  phase \in {"page", "links"} => html \in Seq(Tokens) /\ pos \in 0..Len(html)

\* A call that finds a link returns a later position.
LEMMA GetNextURLKeeps ==
  ASSUME WordsInv, LinksInv, GetNextURL
  PROVE  LinksInv' /\ (links' # links => pos' > pos)
<1>1. /\ phase \in {"page", "links"} /\ phase' \in {"links", "nolink"}
      /\ html \in Seq(Tokens) /\ pos \in 0..Len(html)
  BY DEF GetNextURL, LinksInv
<1>2. html' \in Seq(Tokens) /\ pos \in 0..Len(html')
  <2>1. CASE pos = 0
    <3>1. html' = RemoveWhitespace(html)
      BY <2>1 DEF GetNextURL
    <3>2. html' \in Seq(Tokens)
      BY <1>1, <3>1, SelectedType DEF RemoveWhitespace
    <3> QED
      BY <2>1, <3>2
  <2>2. CASE pos # 0
    BY <1>1, <2>2 DEF GetNextURL
  <2> QED
    BY <2>1, <2>2
<1>3. PICK doc, a : doc = html' /\ a = NextLink(doc, pos + 1)
  OBVIOUS
<1>4. \/ a.exists /\ pos' = a.end - 1
      \/ phase' = "nolink" /\ links' = links
  BY <1>3 DEF GetNextURL
<1>5. CASE a.exists /\ pos' = a.end - 1
  <2>1. pos + 1 \in 1..(Len(doc) + 1) /\ doc \in Seq(Tokens)
    BY <1>2, <1>3
  <2>2. a.end \in ((pos + 1) + 1)..Len(doc)
    BY <1>3, <1>5, <2>1, NextLinkIs
  <2>3. pos' \in 0..Len(doc) /\ pos' > pos
    BY <1>1, <1>5, <2>2
  <2> QED
    BY <1>2, <1>3, <2>3 DEF LinksInv
<1>6. CASE phase' = "nolink" /\ links' = links
  BY <1>6 DEF LinksInv
<1> QED
  BY <1>4, <1>5, <1>6

\* The scanners and the fetch do not disturb each other.
LEMMA ScannersKeep ==
  ASSUME FetchInv, WordsInv, LinksInv, [Next]_vars
  PROVE  /\ WordsInv' /\ LinksInv'
         /\ words' # words \/ links' # links => pos' > pos
<1>1. CASE GetNextWord
  <2>1. WordsInv' /\ (words' # words => pos' > pos)
    BY <1>1, GetNextWordKeeps
  <2>2. links' = links /\ phase' \notin {"page", "links"}
    BY <1>1 DEF GetNextWord
  <2> QED
    BY <2>1, <2>2 DEF LinksInv
<1>2. CASE GetNextURL
  <2>1. LinksInv' /\ (links' # links => pos' > pos)
    BY <1>2, GetNextURLKeeps
  <2>2. words' = words /\ phase' \in {"links", "nolink"}
    BY <1>2 DEF GetNextURL
  <2>3. WordsInv'
    BY <2>2 DEF WordsInv
  <2> QED
    BY <2>1, <2>2, <2>3
<1>3. CASE FetchSucceeds
  <2>1. /\ phase = "fetch" /\ phase' = "page" /\ html' = html /\ pos' = pos /\ words' = words /\ links' = links
    BY <1>3 DEF FetchSucceeds
  <2>2. html \in Seq(Tokens) /\ words = <<>> /\ pos = 0 /\ words \in Seq(Nat \X Nat)
    BY <2>1 DEF FetchInv, WordsInv
  <2>3. AtBoundary(html, 0) /\ WordsUpTo(html, 0) = {} /\ Range(<<>>) = {} /\ Ordered(<<>>)
    BY <2>2, NoWordsYet
  <2>4. 0 \in 0..Len(html)
    BY <2>2
  <2> QED
    BY <2>1, <2>2, <2>3, <2>4 DEF WordsInv, LinksInv
<1>4. CASE CopyMessage
  <2>1. /\ phase = "copy" /\ phase' \in {"failed", "crashed"} /\ pos' = pos /\ words' = words /\ links' = links
        /\ tries' = tries
    BY <1>4 DEF CopyMessage
  <2>2. ~(tries < MaxTry) /\ words = <<>>
    BY <2>1 DEF FetchInv, Reporting, WordsInv, MaxTry
  <2> QED
    BY <2>1, <2>2 DEF WordsInv, LinksInv
<1>5. CASE \/ \E n \in 1..Len(content) : WriteMemoryCallback(n)
           \/ TryFails \/ LastTryFails \/ OtherFetch \/ AllocMessage \/ LengthOfMessage
  <2>1. /\ phase \in {"fetch", "alloc", "length", "copy"} /\ phase' \in {"fetch", "alloc", "length", "copy"}
        /\ pos' = pos /\ words' = words /\ links' = links
    BY <1>5 DEF WriteMemoryCallback, TryFails, LastTryFails, OtherFetch, AllocMessage, LengthOfMessage
  <2> QED
    BY <2>1 DEF WordsInv, LinksInv
<1>6. CASE UNCHANGED vars
  BY <1>6 DEF vars, server, buffer, WordsInv, LinksInv
<1> QED
  BY <1>1, <1>2, <1>3, <1>4, <1>5, <1>6 DEF Next

\* Both scanners begin at the start of a page.
LEMMA ScannersInit ==
  ASSUME Init
  PROVE  WordsInv /\ LinksInv
<1>1. words = <<>> /\ pos = 0 /\ <<>> \in Seq(Nat \X Nat) /\ phase \in {"fetch", "page"}
  BY DEF Init
<1>2. phase = "page" => html \in Seq(Tokens)
  BY WebpageAssumption DEF Init
<1>3. ASSUME phase = "page"
      PROVE  AtBoundary(html, 0) /\ WordsUpTo(html, 0) = {} /\ Range(<<>>) = {} /\ 0 \in 0..Len(html)
  <2>1. Len(html) \in Nat
    BY <1>2, <1>3
  <2> QED
    BY <1>2, <1>3, <2>1, NoWordsYet
<1>4. Ordered(<<>>)
  BY DEF Ordered
<1> QED
  BY <1>1, <1>2, <1>3, <1>4 DEF WordsInv, LinksInv

-----------------------------------------------------------------------------
\* Where the scanners are in a page, whatever it holds, and what they have handed over.
THEOREM ScannerInvariant == Spec => [](WordsInv /\ LinksInv)
<1>1. Init => WordsInv /\ LinksInv
  BY ScannersInit
<1>2. FetchInv /\ WordsInv /\ LinksInv /\ [Next]_vars => WordsInv' /\ LinksInv'
  BY ScannersKeep
<1> QED
  BY <1>1, <1>2, FetchInvariant, PTL DEF Spec

\* The words that webpage_getNextWord hands over are those outside of tags, each once and
\* whole and in the order of the page, up to the position that was returned, and all of
\* them when it says that there are no more; a scan that runs off the page does so in a tag
\* that is not closed, behind the last word.
THEOREM WordsAreRight == Spec => []WordsRight
<1>1. WordsInv => WordsRight
  BY DEF WordsInv, WordsRight, Ordered, WordsUpTo
<1> QED
  BY <1>1, ScannerInvariant, PTL

\* A call of webpage_getNextWord or webpage_getNextURL that hands something over returns a
\* later position than the one it was given, whatever the page holds.
THEOREM ScannersAdvance == Spec => ScanAdvances
<1>1. FetchInv /\ WordsInv /\ LinksInv /\ [Next]_vars
        => [words' # words \/ links' # links => pos' > pos]_vars
  BY ScannersKeep
<1> QED
  BY <1>1, FetchInvariant, ScannerInvariant, PTL DEF Spec, ScanAdvances

-----------------------------------------------------------------------------
(***************************************************************************)
(* Which links are handed over.                                            *)
(***************************************************************************)
\* The end of the tag that begins at position t.
TagClose(doc, t) == FindFirst(doc, t, {">"})

\* On a tidy page a tag ends before the next begins, and in it the quote of a URL.
LEMMA TagIs ==
  ASSUME NEW doc \in Seq(Tokens), Tidy(doc), NEW t \in DOMAIN doc, doc[t] = "<", NEW e, e = TagClose(doc, t)
  PROVE  /\ e \in (t + 1)..Len(doc) /\ doc[e] = ">"
         /\ \A k \in (t + 1)..(e - 1) : doc[k] # "<" /\ doc[k] # ">"
         /\ \A h \in t..e : Here(doc, h, "href", "=") /\ doc[h + 2] \in Quotes =>
              \E k \in (h + 3)..e : doc[k] = doc[h + 2]
<1>1. PICK n \in Nat : n = Len(doc) /\ DOMAIN doc = 1..n /\ t \in 1..n
  OBVIOUS
<1>2. PICK d \in (t + 1)..n :
        /\ doc[d] = ">" /\ \A k \in (t + 1)..(d - 1) : doc[k] \notin {"<", ">"}
        /\ \A h \in t..d : StandsAt(doc, h, <<"href", "=">>) /\ doc[h + 2] \in Quotes =>
             \E k \in (h + 3)..d : doc[k] = doc[h + 2]
  BY <1>1 DEF Tidy
<1>3. e = d
  <2>1. t \in Nat \ {0}
    BY <1>1
  <2>2. \/ e = 0 /\ \A k \in t..n : doc[k] \notin {">"}
        \/ e \in t..n /\ doc[e] \in {">"} /\ \A k \in t..(e - 1) : doc[k] \notin {">"}
    BY <1>1, <2>1, FirstIs DEF TagClose
  <2>3. d \in t..n /\ d \in Nat
    BY <1>1, <1>2
  <2>4. e # 0
    BY <1>2, <2>2, <2>3
  <2>5. e \in t..n /\ doc[e] = ">" /\ \A k \in t..(e - 1) : doc[k] # ">"
    BY <2>2, <2>4
  <2>6. ~(d < e)
    BY <1>2, <2>3, <2>5
  <2>7. ~(e < d)
    BY <1>1, <1>2, <2>5
  <2> QED
    BY <2>3, <2>5, <2>6, <2>7
<1>4. ASSUME NEW h \in t..d, Here(doc, h, "href", "=") PROVE StandsAt(doc, h, <<"href", "=">>)
  <2>1. h \in 1..Len(doc)
    BY <1>1, <1>2
  <2> QED
    BY <1>4, <2>1, StandsHere
<1> QED
  BY <1>1, <1>2, <1>3, <1>4

\* The first "href=" of a tag is within it, if there is one.
LEMMA HrefIs ==
  ASSUME NEW doc \in Seq(Tokens), Tidy(doc), NEW t \in DOMAIN doc, Here(doc, t, "<", "a"),
         NEW e, e = TagClose(doc, t), NEW h, h = Href(doc, t)
  PROVE  \/ h = 0 /\ \A k \in t..e : ~Here(doc, k, "href", "=")
         \/ /\ h \in (t + 2)..(e - 2) /\ Here(doc, h, "href", "=")
            /\ \A k \in t..(h - 1) : ~Here(doc, k, "href", "=")
<1>1. PICK n \in Nat : n = Len(doc) /\ DOMAIN doc = 1..n /\ t \in 1..n
  OBVIOUS
<1>2. e \in (t + 1)..n /\ doc[e] = ">" /\ doc[t] = "<" /\ doc[t + 1] = "a"
  <2>1. doc[t] = "<" /\ doc[t + 1] = "a"
    BY DEF Here
  <2> QED
    BY <1>1, <2>1, TagIs
<1>3. PICK s : s = SubSeq(doc, 1, e)
  OBVIOUS
<1>4. s \in Seq(Tokens) /\ Len(s) = e /\ \A k \in 1..e : s[k] = doc[k]
  BY <1>1, <1>2, <1>3
<1>5. \A k \in t..e : Here(s, k, "href", "=") <=> Here(doc, k, "href", "=")
  <2> SUFFICES ASSUME NEW k \in t..e PROVE Here(s, k, "href", "=") <=> Here(doc, k, "href", "=")
    OBVIOUS
  <2>1. CASE k < e
    <3>1. k \in 1..e /\ k + 1 \in 1..e /\ k + 1 <= n
      BY <1>1, <1>2, <2>1
    <3> QED
      BY <1>1, <1>4, <3>1 DEF Here
  <2>2. CASE k = e
    <3>1. doc[k] # "href" /\ ~(k + 1 <= e)
      BY <1>1, <1>2, <2>2
    <3> QED
      BY <1>4, <3>1 DEF Here
  <2> QED
    BY <1>1, <1>2, <2>1, <2>2
<1>6. h = FindText(s, t, <<"href", "=">>)
  BY <1>3 DEF Href, TagClose
<1>7. \/ h = 0 /\ \A k \in t..e : ~Here(s, k, "href", "=")
      \/ h \in t..e /\ Here(s, h, "href", "=") /\ \A k \in t..(h - 1) : ~Here(s, k, "href", "=")
  <2>1. t \in Nat \ {0}
    BY <1>1
  <2> QED
    BY <1>4, <1>6, <2>1, FirstText
<1>8. CASE h = 0 /\ \A k \in t..e : ~Here(s, k, "href", "=")
  BY <1>5, <1>8
<1>9. CASE h \in t..e /\ Here(s, h, "href", "=") /\ \A k \in t..(h - 1) : ~Here(s, k, "href", "=")
  <2>1. h + 1 <= e /\ s[h] = "href" /\ s[h + 1] = "=" /\ h \in t..e /\ h \in Nat
    BY <1>1, <1>2, <1>4, <1>9 DEF Here
  <2>2. doc[h] = "href" /\ doc[h + 1] = "="
    BY <1>1, <1>4, <2>1
  <2>3. h # t /\ h # t + 1 /\ h + 1 # e
    BY <1>2, <2>2
  <2>4. h \in (t + 2)..(e - 2)
    BY <1>1, <1>2, <2>1, <2>3
  <2>5. \A k \in t..(h - 1) : k \in t..e
    BY <1>1, <1>2, <2>1
  <2> QED
    BY <1>5, <1>9, <2>4, <2>5
<1> QED
  BY <1>7, <1>8, <1>9


\* The first token of two sets is the first one of either.
LEMMA FirstOfTwo ==
  ASSUME NEW doc \in Seq(Tokens), NEW i \in Nat \ {0}, NEW cs, NEW ds,
         NEW c, c = FindFirst(doc, i, ds), c # 0, NEW g, g = FindFirst(doc, i, cs),
         NEW f, f = FindFirst(doc, i, cs \cup ds)
  PROVE  (g # 0 /\ g < c => f = g) /\ (~(g # 0 /\ g < c) => f = c)
<1>1. PICK n \in Nat : n = Len(doc)
  OBVIOUS
<1>2. f = FindFirst(doc, i, cs \cup ds)
  OBVIOUS
<1>3. c \in i..n /\ doc[c] \in ds /\ \A k \in i..(c - 1) : doc[k] \notin ds
  <2>1. \/ c = 0 /\ \A k \in i..n : doc[k] \notin ds
        \/ c \in i..n /\ doc[c] \in ds /\ \A k \in i..(c - 1) : doc[k] \notin ds
    BY <1>1, FirstIs
  <2> QED
    BY <2>1
<1>4. \/ g = 0 /\ \A k \in i..n : doc[k] \notin cs
      \/ g \in i..n /\ doc[g] \in cs /\ \A k \in i..(g - 1) : doc[k] \notin cs
  <2>1. \/ g = 0 /\ \A k \in i..n : doc[k] \notin cs
        \/ g \in i..n /\ doc[g] \in cs /\ \A k \in i..(g - 1) : doc[k] \notin cs
    BY <1>1, FirstIs
  <2> QED
    BY <2>1
<1>5. \/ f = 0 /\ \A k \in i..n : doc[k] \notin cs /\ doc[k] \notin ds
      \/ f \in i..n /\ (doc[f] \in cs \/ doc[f] \in ds) /\ \A k \in i..(f - 1) : doc[k] \notin cs /\ doc[k] \notin ds
  <2>1. \/ f = 0 /\ \A k \in i..n : doc[k] \notin cs \cup ds
        \/ f \in i..n /\ doc[f] \in cs \cup ds /\ \A k \in i..(f - 1) : doc[k] \notin cs \cup ds
    BY <1>1, <1>2, FirstIs
  <2> QED
    BY <2>1
<1>6. f \in i..n /\ (doc[f] \in cs \/ doc[f] \in ds) /\ \A k \in i..(f - 1) : doc[k] \notin cs /\ doc[k] \notin ds
  BY <1>3, <1>5
<1>7. f \in Nat /\ c \in Nat /\ i \in Nat
  BY <1>1, <1>3, <1>6
<1>8. ~(c < f)
  <2> SUFFICES ASSUME c < f PROVE FALSE
    OBVIOUS
  <2>1. c \in i..(f - 1)
    BY <1>3, <1>7
  <2> QED
    BY <1>3, <1>6, <2>1
<1>9. CASE g # 0 /\ g < c
  <2>1. g \in i..n /\ doc[g] \in cs /\ \A k \in i..(g - 1) : doc[k] \notin cs
    BY <1>4, <1>9
  <2>2. g \in Nat
    BY <1>1, <2>1
  <2>3. ~(g < f)
    <3> SUFFICES ASSUME g < f PROVE FALSE
      OBVIOUS
    <3>1. g \in i..(f - 1)
      BY <1>7, <2>1, <2>2
    <3> QED
      BY <1>6, <2>1, <3>1
  <2>4. ~(f < g)
    <3> SUFFICES ASSUME f < g PROVE FALSE
      OBVIOUS
    <3>1. f \in i..(g - 1) /\ f \in i..(c - 1)
      BY <1>6, <1>7, <1>9, <2>2
    <3> QED
      BY <1>3, <1>6, <2>1, <3>1
  <2>5. f = g
    BY <1>7, <2>2, <2>3, <2>4
  <2> QED
    BY <1>2, <1>9, <2>5
<1>10. CASE ~(g # 0 /\ g < c)
  <2>1. ~(f < c)
    <3> SUFFICES ASSUME f < c PROVE FALSE
      OBVIOUS
    <3>1. f \in i..(c - 1)
      BY <1>6, <1>7
    <3>2. doc[f] \in cs
      BY <1>3, <1>6, <3>1
    <3>3. g # 0 /\ g \in i..n /\ \A k \in i..(g - 1) : doc[k] \notin cs
      <4>1. f \in i..n
        BY <1>6
      <4>2. ~(\A k \in i..n : doc[k] \notin cs)
        BY <3>2, <4>1
      <4>3. g \in i..n /\ doc[g] \in cs /\ \A k \in i..(g - 1) : doc[k] \notin cs
        BY <1>4, <4>2
      <4>4. g # 0
        BY <1>7, <4>3
      <4> QED
        BY <4>3, <4>4
    <3>4. g \in Nat /\ ~(g < c)
      BY <1>1, <1>10, <3>3
    <3>5. f \in i..(g - 1)
      BY <1>6, <1>7, <3>4
    <3> QED
      BY <3>2, <3>3, <3>5
  <2>2. f = c
    BY <1>7, <1>8, <2>1
  <2> QED
    BY <1>2, <1>10, <2>2
<1> QED
  BY <1>9, <1>10

\* Where the URL after an "href=" begins, and the token that ends it.
ValueStart(doc, h) == IF doc[h + 2] \in Quotes THEN h + 3 ELSE h + 2
Closing(doc, h) == IF doc[h + 2] \in Quotes THEN doc[h + 2] ELSE ">"

\* So Value has it.
LEMMA ValueFrom ==
  ASSUME NEW doc, NEW h
  PROVE  Value(doc, h) =
           [first |-> ValueStart(doc, h), end |-> FindFirst(doc, ValueStart(doc, h), {"#"} \cup {Closing(doc, h)})]
<1>1. CASE doc[h + 2] \in Quotes
  <2>1. {doc[h + 2]} \cap Quotes = {doc[h + 2]} /\ {doc[h + 2]} # {}
    BY <1>1
  <2> QED
    BY <1>1, <2>1 DEF Value, ValueStart, Closing
<1>2. CASE doc[h + 2] \notin Quotes
  <2>1. {doc[h + 2]} \cap Quotes = {}
    BY <1>2
  <2> QED
    BY <1>2, <2>1 DEF Value, ValueStart, Closing
<1> QED
  BY <1>1, <1>2

\* On a tidy page it is in the tag, and has no fragment.
LEMMA ValueIs ==
  ASSUME NEW doc \in Seq(Tokens), Tidy(doc), NEW t \in DOMAIN doc, Here(doc, t, "<", "a"),
         NEW e, e = TagClose(doc, t), NEW h, h = Href(doc, t), h # 0,
         NEW first, first = ValueStart(doc, h), NEW c, c = FindFirst(doc, first, {Closing(doc, h)}),
         NEW end, end = FindFirst(doc, first, {"#"} \cup {Closing(doc, h)})
  PROVE  /\ e \in t..Len(doc) /\ h \in (t + 2)..(e - 2)
         /\ first \in {h + 2, h + 3} /\ c # 0 /\ c <= e
         /\ end \in first..e /\ \A k \in first..(end - 1) : doc[k] # "#"
<1>1. PICK n \in Nat : n = Len(doc) /\ DOMAIN doc = 1..n /\ t \in 1..n
  OBVIOUS
<1>2. /\ e \in (t + 1)..n /\ doc[e] = ">"
      /\ \A j \in t..e : Here(doc, j, "href", "=") /\ doc[j + 2] \in Quotes =>
           \E k \in (j + 3)..e : doc[k] = doc[j + 2]
  <2>1. doc[t] = "<"
    BY DEF Here
  <2> QED
    BY <1>1, <2>1, TagIs
<1>3. h \in (t + 2)..(e - 2) /\ Here(doc, h, "href", "=")
  BY HrefIs
<1>4. h \in t..e /\ h \in Nat /\ h + 2 <= e
  BY <1>1, <1>2, <1>3
<1>5. first \in {h + 2, h + 3} /\ first \in Nat \ {0} /\ \E k \in first..e : doc[k] = Closing(doc, h)
  <2>1. CASE doc[h + 2] \in Quotes
    <3>1. PICK k \in (h + 3)..e : doc[k] = doc[h + 2]
      BY <1>2, <1>3, <1>4, <2>1
    <3> QED
      BY <1>4, <2>1, <3>1 DEF ValueStart, Closing
  <2>2. CASE doc[h + 2] \notin Quotes
    <3>1. e \in (h + 2)..e
      BY <1>1, <1>2, <1>4
    <3> QED
      BY <1>2, <1>4, <2>2, <3>1 DEF ValueStart, Closing
  <2> QED
    BY <2>1, <2>2
<1>6. PICK k \in first..e : doc[k] = Closing(doc, h)
  BY <1>5
<1>7. k \in first..n
  BY <1>1, <1>2, <1>6
<1>8. c # 0 /\ c <= e
  <2>1. \/ c = 0 /\ \A j \in first..n : doc[j] \notin {Closing(doc, h)}
        \/ c \in first..n /\ doc[c] \in {Closing(doc, h)} /\ \A j \in first..(c - 1) : doc[j] \notin {Closing(doc, h)}
    BY <1>1, <1>5, FirstIs
  <2>2. c \in first..n /\ \A j \in first..(c - 1) : doc[j] # Closing(doc, h)
    BY <1>6, <1>7, <2>1
  <2>3. k \in Nat /\ c \in Nat /\ e \in Nat
    BY <1>1, <1>2, <1>5, <1>7, <2>2
  <2>4. ~(k < c)
    <3> SUFFICES ASSUME k < c PROVE FALSE
      OBVIOUS
    <3>1. k \in first..(c - 1)
      BY <1>5, <1>7, <2>3
    <3> QED
      BY <1>6, <2>2, <3>1
  <2> QED
    BY <1>5, <1>6, <2>2, <2>3, <2>4
<1>9. end \in first..e /\ \A j \in first..(end - 1) : doc[j] # "#"
  <2>1. \/ end = 0 /\ \A j \in first..n : doc[j] \notin {"#"} \cup {Closing(doc, h)}
        \/ /\ end \in first..n /\ doc[end] \in {"#"} \cup {Closing(doc, h)}
           /\ \A j \in first..(end - 1) : doc[j] \notin {"#"} \cup {Closing(doc, h)}
    BY <1>1, <1>5, FirstIs, SMTT(30)
  <2>2. end \in first..n /\ \A j \in first..(end - 1) : doc[j] # "#" /\ doc[j] # Closing(doc, h)
    BY <1>6, <1>7, <2>1
  <2>3. k \in Nat /\ end \in Nat /\ e \in Nat
    BY <1>1, <1>2, <1>5, <1>7, <2>2
  <2>4. ~(k < end)
    <3> SUFFICES ASSUME k < end PROVE FALSE
      OBVIOUS
    <3>1. k \in first..(end - 1)
      BY <1>5, <1>7, <2>3
    <3> QED
      BY <1>6, <2>2, <3>1
  <2>5. end <= e
    BY <1>6, <2>3, <2>4
  <2>6. end \in first..e
    BY <1>5, <2>2, <2>3, <2>5
  <2> QED
    BY <2>2, <2>6
<1>10. e \in t..Len(doc)
  BY <1>1, <1>2
<1> QED
  BY <1>3, <1>5, <1>8, <1>9, <1>10

\* The anchor that the code has found is the tag at position t, and the "href=" that of the
\* tag, unless it is that of a later one.
AnchorOf(doc, t, a) ==
  /\ a.exists /\ a.tag = TagClose(doc, t)
  /\ Href(doc, t) = 0 => a.tag < a.href
  /\ Href(doc, t) # 0 => /\ a.href = Href(doc, t)
                         /\ a.first = Value(doc, a.href).first /\ a.end = Value(doc, a.href).end

\* The search from position i on finds the next anchor, if a later tag has an "href=".
LEMMA AnchorAt ==
  ASSUME NEW doc \in Seq(Tokens), Tidy(doc), NEW i \in 1..(Len(doc) + 1), NEW a, a = Anchor(doc, i)
  PROVE  \/ ~a.exists /\ \A t \in i..Len(doc) : Here(doc, t, "<", "a") => Href(doc, t) = 0
         \/ \E t \in i..Len(doc) : /\ Here(doc, t, "<", "a") /\ \A k \in i..(t - 1) : ~Here(doc, k, "<", "a")
                                   /\ AnchorOf(doc, t, a)
<1>1. PICK n \in Nat : n = Len(doc) /\ DOMAIN doc = 1..n /\ i \in 1..(n + 1)
  OBVIOUS
<1>2. PICK lnk, href : /\ lnk = FindText(doc, i, <<"<", "a">>)
                       /\ href = FindText(doc, lnk, <<"href", "=">>)
  OBVIOUS
<1>3. \/ lnk = 0 /\ \A k \in i..n : ~Here(doc, k, "<", "a")
      \/ lnk \in i..n /\ Here(doc, lnk, "<", "a") /\ \A k \in i..(lnk - 1) : ~Here(doc, k, "<", "a")
  <2>1. i \in Nat \ {0}
    BY <1>1
  <2> QED
    BY <1>1, <1>2, <2>1, FirstText
<1>4. lnk = 0 \/ href = 0 => a = [exists |-> FALSE]
  BY <1>2 DEF Anchor
<1>5. CASE lnk = 0
  <2>1. \A k \in i..n : ~Here(doc, k, "<", "a")
    BY <1>1, <1>3, <1>5
  <2>2. a = [exists |-> FALSE]
    BY <1>4, <1>5
  <2> QED
    BY <1>1, <2>1, <2>2
<1>6. CASE lnk # 0
  <2>1. lnk \in i..n /\ Here(doc, lnk, "<", "a") /\ \A k \in i..(lnk - 1) : ~Here(doc, k, "<", "a")
    BY <1>3, <1>6
  <2>2. lnk \in 1..n /\ lnk \in DOMAIN doc /\ lnk \in Nat \ {0}
    BY <1>1, <2>1
  <2>3. \/ href = 0 /\ \A k \in lnk..n : ~Here(doc, k, "href", "=")
        \/ href \in lnk..n /\ Here(doc, href, "href", "=") /\ \A k \in lnk..(href - 1) : ~Here(doc, k, "href", "=")
    BY <1>1, <1>2, <2>2, FirstText
  <2>4. CASE href = 0
    <3>1. \A k \in lnk..n : ~Here(doc, k, "href", "=")
      BY <1>1, <2>1, <2>3, <2>4
    <3>2. ASSUME NEW t \in i..n, Here(doc, t, "<", "a") PROVE Href(doc, t) = 0
      <4>1. t \in lnk..n /\ t \in DOMAIN doc
        BY <1>1, <2>1, <3>2
      <4>2. PICK e, h : e = TagClose(doc, t) /\ h = Href(doc, t)
        OBVIOUS
      <4>3. \/ h = 0 
            \/ h \in (t + 2)..(e - 2) /\ Here(doc, h, "href", "=")
        BY <3>2, <4>1, <4>2, HrefIs
      <4>4. doc[t] = "<"
        BY <3>2 DEF Here
      <4>5. e \in (t + 1)..n
        BY <1>1, <4>1, <4>2, <4>4, TagIs
      <4> QED
        BY <1>1, <2>2, <3>1, <4>1, <4>2, <4>3, <4>5
    <3>3. a = [exists |-> FALSE]
      BY <1>4, <2>4
    <3> QED
      BY <1>1, <3>2, <3>3
  <2>5. CASE href # 0
    <3>1. href \in lnk..n /\ Here(doc, href, "href", "=") /\ \A k \in lnk..(href - 1) : ~Here(doc, k, "href", "=")
      BY <2>3, <2>5
    <3>2. PICK e, h : e = TagClose(doc, lnk) /\ h = Href(doc, lnk)
      OBVIOUS
    <3>3. \/ h = 0 /\ \A k \in lnk..e : ~Here(doc, k, "href", "=")
          \/ /\ h \in (lnk + 2)..(e - 2) /\ Here(doc, h, "href", "=")
             /\ \A k \in lnk..(h - 1) : ~Here(doc, k, "href", "=")
      BY <2>1, <2>2, <3>2, HrefIs
    <3>4. e \in (lnk + 1)..n
      <4>1. doc[lnk] = "<"
        BY <2>1 DEF Here
      <4> QED
        BY <1>1, <2>2, <3>2, <4>1, TagIs
    <3>5. PICK quoted, first :
            /\ quoted = (href + 2 <= Len(doc) /\ doc[href + 2] \in Quotes)
            /\ first = IF quoted THEN href + 3 ELSE href + 2
      OBVIOUS
    <3>6. PICK close, hash :
            /\ close = FindFirst(doc, first, IF quoted THEN {doc[href + 2]} ELSE {">"})
            /\ hash = FindFirst(doc, first, {"#"})
      OBVIOUS
    <3>7. a = [exists |-> TRUE, href |-> href, first |-> first, tag |-> e,
               end |-> IF hash # 0 /\ hash < close THEN hash ELSE close]
      BY <1>2, <1>6, <2>5, <3>2, <3>5, <3>6 DEF Anchor, TagClose
    <3>8. ASSUME h = 0 PROVE e < href
      BY <2>2, <3>1, <3>3, <3>4, <3>8
    <3>9. ASSUME h # 0
          PROVE  h = href /\ first = Value(doc, href).first
                 /\ (IF hash # 0 /\ hash < close THEN hash ELSE close) = Value(doc, href).end
      <4>1. /\ h \in (lnk + 2)..(e - 2) /\ Here(doc, h, "href", "=")
            /\ \A k \in lnk..(h - 1) : ~Here(doc, k, "href", "=")
        BY <3>3, <3>9
      <4>2. h = href
        <5>1. ~(h < href)
          BY <2>2, <3>1, <4>1
        <5>2. ~(href < h)
          BY <2>2, <3>1, <4>1
        <5> QED
          BY <2>2, <3>1, <4>1, <5>1, <5>2
      <4>3. href + 2 <= Len(doc) /\ href \in Nat
        BY <1>1, <2>2, <3>1, <3>4, <4>1, <4>2
      <4>4. /\ first = ValueStart(doc, href)
            /\ (IF quoted THEN {doc[href + 2]} ELSE {">"}) = {Closing(doc, href)}
        BY <3>5, <4>3 DEF ValueStart, Closing
      <4>5. close = FindFirst(doc, first, {Closing(doc, href)})
        BY <3>6, <4>4
      <4>6. PICK end : end = FindFirst(doc, first, {"#"} \cup {Closing(doc, href)})
        OBVIOUS
      <4>7. close # 0 /\ first \in Nat \ {0}
        <5>1. first = ValueStart(doc, h) /\ close = FindFirst(doc, first, {Closing(doc, h)})
          BY <4>2, <4>4, <4>5
        <5>2. end = FindFirst(doc, first, {"#"} \cup {Closing(doc, h)})
          BY <4>2, <4>6
        <5>3. Here(doc, lnk, "<", "a")
          BY <2>1
        <5>4. e = TagClose(doc, lnk) /\ h = Href(doc, lnk)
          BY <3>2
        <5>5. close # 0 /\ first \in {h + 2, h + 3}
          BY <2>2, <3>9, <5>1, <5>2, <5>3, <5>4, ValueIs
        <5> QED
          BY <4>2, <4>3, <5>5
      <4>8. end = IF hash # 0 /\ hash < close THEN hash ELSE close
        <5>1. PICK cs, ds : cs = {"#"} /\ ds = {Closing(doc, href)}
          OBVIOUS
        <5>2. hash = FindFirst(doc, first, cs)
          BY <3>6, <5>1
        <5>3. close = FindFirst(doc, first, ds) /\ end = FindFirst(doc, first, cs \cup ds)
          BY <4>5, <4>6, <5>1
        <5>4. close # 0 /\ first \in Nat \ {0}
          BY <4>7
        <5>5. (hash # 0 /\ hash < close => end = hash) /\ (~(hash # 0 /\ hash < close) => end = close)
          BY <5>2, <5>3, <5>4, FirstOfTwo
        <5> QED
          BY <5>5
      <4>9. Value(doc, href) = [first |-> first, end |-> end]
        BY <4>4, <4>6, ValueFrom
      <4> QED
        BY <4>2, <4>8, <4>9
    <3>10. AnchorOf(doc, lnk, a)
      BY <3>2, <3>7, <3>8, <3>9 DEF AnchorOf
    <3> QED
      BY <1>1, <2>1, <3>10
  <2> QED
    BY <2>4, <2>5
<1> QED
  BY <1>5, <1>6

\* A URL has a scheme if the first of the delimiters is a ":" within it.
LEMMA SchemeIs ==
  ASSUME NEW doc \in Seq(Tokens), NEW v, NEW first \in Nat \ {0}, NEW end \in Nat,
         v.first = first, v.end = end, end - 1 <= Len(doc), \A k \in first..(end - 1) : doc[k] # "#",
         NEW sep, sep = FindFirst(doc, first, {":", "/", "?", "#"})
  PROVE  HasScheme(doc, v) <=> sep \in first..(end - 1) /\ doc[sep] = ":"
<1>1. PICK n \in Nat : n = Len(doc)
  OBVIOUS
<1>2. \/ sep = 0 /\ \A k \in first..n : doc[k] \notin {":", "/", "?", "#"}
      \/ /\ sep \in first..n /\ doc[sep] \in {":", "/", "?", "#"}
         /\ \A k \in first..(sep - 1) : doc[k] \notin {":", "/", "?", "#"}
  BY <1>1, FirstIs
<1>3. ASSUME HasScheme(doc, v) PROVE sep \in first..(end - 1) /\ doc[sep] = ":"
  <2>1. PICK k \in first..(end - 1) : doc[k] = ":" /\ \A j \in first..(k - 1) : doc[j] \notin {"/", "?"}
    BY <1>3 DEF HasScheme
  <2>2. k \in first..n /\ k \in Nat
    BY <1>1, <2>1
  <2>3. ~(\A j \in first..n : doc[j] \notin {":", "/", "?", "#"})
    BY <2>1, <2>2
  <2>4. /\ sep \in first..n /\ doc[sep] \in {":", "/", "?", "#"}
        /\ \A j \in first..(sep - 1) : doc[j] \notin {":", "/", "?", "#"}
    BY <1>2, <2>3
  <2>5. sep \in Nat
    BY <1>1, <2>4
  <2>6. ~(k < sep)
    <3> SUFFICES ASSUME k < sep PROVE FALSE
      OBVIOUS
    <3>1. k \in first..(sep - 1)
      BY <2>2, <2>5
    <3> QED
      BY <2>1, <2>4, <3>1
  <2>7. sep \in first..(end - 1)
    BY <2>1, <2>2, <2>4, <2>5, <2>6
  <2>8. CASE sep = k
    BY <2>1, <2>7, <2>8
  <2>9. CASE sep # k
    <3>1. sep \in first..(k - 1)
      BY <2>2, <2>4, <2>5, <2>6, <2>9
    <3>2. doc[sep] \notin {"/", "?"} /\ doc[sep] # "#"
      BY <2>1, <2>7, <3>1
    <3> QED
      BY <2>4, <2>7, <3>2
  <2> QED
    BY <2>8, <2>9
<1>4. ASSUME sep \in first..(end - 1), doc[sep] = ":" PROVE HasScheme(doc, v)
  <2>1. sep # 0
    BY <1>4
  <2>2. \A k \in first..(sep - 1) : doc[k] \notin {":", "/", "?", "#"}
    BY <1>2, <2>1
  <2>3. \A j \in first..(sep - 1) : doc[j] \notin {"/", "?"}
    BY <2>2
  <2> QED
    BY <1>4, <2>3 DEF HasScheme
<1> QED
  BY <1>3, <1>4

\* What it takes to be one of the "href=".
LEMMA HrefsAre ==
  ASSUME NEW doc \in Seq(Tokens), NEW h, NEW v, v = Value(doc, h)
  PROVE  h \in Hrefs(doc) <=>
           /\ h # 0 /\ \E t \in DOMAIN doc : Here(doc, t, "<", "a") /\ h = Href(doc, t)
           /\ doc[v.first] # "#" /\ (HasScheme(doc, v) => doc[v.first] = "http")
<1>1. PICK tags : tags = {t \in DOMAIN doc : StandsAt(doc, t, <<"<", "a">>)}
  OBVIOUS
<1>2. \A t \in DOMAIN doc : t \in tags <=> Here(doc, t, "<", "a")
  <2> SUFFICES ASSUME NEW t \in DOMAIN doc PROVE t \in tags <=> Here(doc, t, "<", "a")
    OBVIOUS
  <2>1. t \in 1..Len(doc)
    OBVIOUS
  <2>2. StandsAt(doc, t, <<"<", "a">>) <=> Here(doc, t, "<", "a")
    BY <2>1, StandsHere
  <2> QED
    BY <1>1, <2>2
<1>3. tags \subseteq DOMAIN doc
  BY <1>1
<1>4. PICK all : all = {Href(doc, t) : t \in tags}
  OBVIOUS
<1>5. h \in all <=> \E t \in DOMAIN doc : Here(doc, t, "<", "a") /\ h = Href(doc, t)
  BY <1>2, <1>3, <1>4
<1>6. Hrefs(doc) = {g \in all \ {0} :
                      doc[Value(doc, g).first] # "#"
                      /\ (HasScheme(doc, Value(doc, g)) => doc[Value(doc, g).first] = "http")}
  BY <1>1, <1>4 DEF Hrefs
<1> QED
  BY <1>5, <1>6

\* The anchor that the code has found is a good link if its "href=" is one of the expected.
LEMMA GoodLink ==
  ASSUME NEW doc \in Seq(Tokens), Tidy(doc), NEW t \in DOMAIN doc, Here(doc, t, "<", "a"),
         NEW a, AnchorOf(doc, t, a)
  PROVE  BadLink(doc, a) <=> Href(doc, t) \notin LinkHrefs(doc)
<1>1. PICK n \in Nat : n = Len(doc) /\ DOMAIN doc = 1..n /\ t \in 1..n
  OBVIOUS
<1>2. PICK e, h : e = TagClose(doc, t) /\ h = Href(doc, t)
  OBVIOUS
<1>3. CASE h = 0
  <2>1. a.tag = e /\ a.tag < a.href
    BY <1>2, <1>3 DEF AnchorOf
  <2>2. e # 0
    <3>1. doc[t] = "<"
      BY DEF Here
    <3>2. e \in (t + 1)..Len(doc)
      BY <1>2, <3>1, TagIs
    <3> QED
      BY <1>1, <3>2
  <2>3. BadLink(doc, a)
    BY <2>1, <2>2 DEF BadLink
  <2>4. PICK v : v = Value(doc, h)
    OBVIOUS
  <2>5. h \notin Hrefs(doc)
    BY <1>3, <2>4, HrefsAre
  <2> QED
    BY <1>2, <2>3, <2>5 DEF LinkHrefs
<1>4. CASE h # 0
  <2>1. PICK v, first, c, end :
          /\ v = Value(doc, h) /\ first = ValueStart(doc, h) /\ c = FindFirst(doc, first, {Closing(doc, h)})
          /\ end = FindFirst(doc, first, {"#"} \cup {Closing(doc, h)})
    OBVIOUS
  <2>2. /\ e \in t..n /\ h \in (t + 2)..(e - 2) /\ first \in {h + 2, h + 3}
        /\ end \in first..e /\ \A k \in first..(end - 1) : doc[k] # "#"
    <3>1. first = ValueStart(doc, h) /\ c = FindFirst(doc, first, {Closing(doc, h)})
      BY <2>1
    <3>2. end = FindFirst(doc, first, {"#"} \cup {Closing(doc, h)})
      BY <2>1
    <3>3. e = TagClose(doc, t) /\ h = Href(doc, t) /\ h # 0
      BY <1>2, <1>4
    <3> QED
      BY <1>1, <3>1, <3>2, <3>3, ValueIs
  <2>3. v.first = first /\ v.end = end
    <3>1. v = [first |-> first, end |-> end]
      BY <2>1, ValueFrom
    <3> QED
      BY <3>1
  <2>4. a.tag = e /\ a.href = h /\ a.first = first /\ a.end = end
    BY <1>2, <1>4, <2>1, <2>3 DEF AnchorOf
  <2>5. e \in Nat /\ h \in Nat /\ first \in Nat \ {0} /\ end \in Nat \ {0} /\ h <= e /\ first \in 1..n /\ end - 1 <= n
    BY <1>1, <2>2
  <2>6. PICK sep : sep = FindFirst(doc, first, {":", "/", "?", "#"})
    OBVIOUS
  <2>7. sep = 0 \/ sep \in first..n
    <3>1. \/ sep = 0 /\ \A k \in first..Len(doc) : doc[k] \notin {":", "/", "?", "#"}
          \/ /\ sep \in first..Len(doc) /\ doc[sep] \in {":", "/", "?", "#"}
             /\ \A k \in first..(sep - 1) : doc[k] \notin {":", "/", "?", "#"}
      BY <2>5, <2>6, FirstIs
    <3> QED
      BY <1>1, <3>1
  <2>8. HasScheme(doc, v) <=> sep \in first..(end - 1) /\ doc[sep] = ":"
    <3>1. end - 1 <= Len(doc) /\ \A k \in first..(end - 1) : doc[k] # "#"
      BY <1>1, <2>2, <2>5
    <3> QED
      BY <2>3, <2>5, <2>6, <3>1, SchemeIs
  <2>9. BadLink(doc, a) <=> doc[first] = "#" \/ (sep # 0 /\ doc[sep] = ":" /\ doc[first] # "http")
    <3>1. first \in 1..Len(doc)
      BY <1>1, <2>5
    <3>2. (StandsAt(doc, first, <<"#">>) <=> doc[first] = "#") /\ (StandsAt(doc, first, <<"http">>) <=> doc[first] = "http")
      BY <3>1, StandsHere
    <3>3. Relative(doc, a) <=> ~(sep # 0 /\ doc[sep] = ":")
      BY <2>4, <2>6 DEF Relative
    <3>4. ~(a.tag # 0 /\ a.tag < a.href) /\ a.end # 0
      BY <2>4, <2>5
    <3> QED
      BY <2>4, <3>2, <3>3, <3>4 DEF BadLink
  <2>10. TakenForScheme(doc, v) <=> sep >= end /\ doc[sep] = ":" /\ doc[first] # "http"
    BY <2>3, <2>6 DEF TakenForScheme
  <2>11. h \in Hrefs(doc) <=> doc[first] # "#" /\ (HasScheme(doc, v) => doc[first] = "http")
    <3>1. \E s \in DOMAIN doc : Here(doc, s, "<", "a") /\ h = Href(doc, s)
      BY <1>2
    <3> QED
      BY <1>4, <2>1, <2>3, <3>1, HrefsAre
  <2>12. h \in LinkHrefs(doc) <=> h \in Hrefs(doc) /\ ~TakenForScheme(doc, v)
    BY <2>1 DEF LinkHrefs
  <2>13. sep # 0 <=> sep \in first..(end - 1) \/ sep >= end
    BY <1>1, <2>5, <2>7
  <2> QED
    BY <1>2, <2>8, <2>9, <2>10, <2>11, <2>12, <2>13
<1> QED
  BY <1>3, <1>4

\* A link is the first "href=" of a tag that begins before it.
LEMMA LinkHrefsAt ==
  ASSUME NEW doc \in Seq(Tokens), Tidy(doc), NEW g \in LinkHrefs(doc)
  PROVE  \E t \in DOMAIN doc : Here(doc, t, "<", "a") /\ g = Href(doc, t) /\ g \in (t + 2)..Len(doc)
<1>1. PICK v : v = Value(doc, g)
  OBVIOUS
<1>2. g \in Hrefs(doc)
  BY DEF LinkHrefs
<1>3. g # 0 /\ \E t \in DOMAIN doc : Here(doc, t, "<", "a") /\ g = Href(doc, t)
  BY <1>1, <1>2, HrefsAre
<1>4. PICK t \in DOMAIN doc : Here(doc, t, "<", "a") /\ g = Href(doc, t)
  BY <1>3
<1>5. PICK e : e = TagClose(doc, t)
  OBVIOUS
<1>6. doc[t] = "<"
  BY <1>4 DEF Here
<1>7. e \in (t + 1)..Len(doc)
  BY <1>5, <1>6, TagIs
<1>8. g \in (t + 2)..(e - 2)
  <2>1. g = 0 \/ g \in (t + 2)..(e - 2)
    BY <1>4, <1>5, HrefIs
  <2> QED
    BY <1>3, <2>1
<1>9. g \in (t + 2)..Len(doc)
  BY <1>7, <1>8
<1> QED
  BY <1>4, <1>9

\* The links of the tags before position i are before it, too.
Passed(doc, i) ==
  \A t \in DOMAIN doc : t < i /\ Here(doc, t, "<", "a") /\ Href(doc, t) \in LinkHrefs(doc) => Href(doc, t) < i

\* From position i on the first link is the one that the code has found.
FindsLink(doc, i, a) ==
  \/ ~a.exists /\ \A g \in LinkHrefs(doc) : g < i
  \/ /\ a.exists /\ a.end <= Len(doc) /\ Passed(doc, a.end)
     /\ \E h \in LinkHrefs(doc) : /\ h \in i..(a.end - 1)
                                  /\ a.first = Value(doc, h).first /\ a.end = Value(doc, h).end
                                  /\ \A g \in LinkHrefs(doc) : g < i \/ g = h \/ g >= a.end

\* No anchor is found behind the last link.
LEMMA NoLink ==
  ASSUME NEW doc \in Seq(Tokens), Tidy(doc), NEW i \in 1..(Len(doc) + 1), Passed(doc, i),
         NEW a, a = Anchor(doc, i), ~a.exists
  PROVE  FindsLink(doc, i, a)
<1>1. \/ ~a.exists /\ \A t \in i..Len(doc) : Here(doc, t, "<", "a") => Href(doc, t) = 0
      \/ \E t \in i..Len(doc) : AnchorOf(doc, t, a)
  BY AnchorAt
<1>2. ~(\E t \in i..Len(doc) : AnchorOf(doc, t, a))
  BY DEF AnchorOf
<1>3. \A t \in i..Len(doc) : Here(doc, t, "<", "a") => Href(doc, t) = 0
  BY <1>1, <1>2
<1>4. ASSUME NEW g \in LinkHrefs(doc) PROVE g < i
  <2>1. PICK t \in DOMAIN doc : Here(doc, t, "<", "a") /\ g = Href(doc, t) /\ g \in (t + 2)..Len(doc)
    BY LinkHrefsAt
  <2>2. t \in 1..Len(doc)
    OBVIOUS
  <2>3. CASE t < i
    BY <2>1, <2>3 DEF Passed
  <2>4. CASE ~(t < i)
    <3>1. t \in i..Len(doc)
      BY <2>2, <2>4
    <3>2. g = 0
      BY <1>3, <2>1, <3>1
    <3> QED
      BY <2>1, <2>2, <3>2
  <2> QED
    BY <2>3, <2>4
<1> QED
  BY <1>4 DEF FindsLink

\* A good one is the next link.
LEMMA LinkFound ==
  ASSUME NEW doc \in Seq(Tokens), Tidy(doc), NEW i \in 1..(Len(doc) + 1), Passed(doc, i),
         NEW a, a = Anchor(doc, i), a.exists, ~BadLink(doc, a)
  PROVE  FindsLink(doc, i, a)
<1>1. PICK n \in Nat : n = Len(doc) /\ DOMAIN doc = 1..n /\ i \in 1..(n + 1)
  OBVIOUS
<1>2. PICK t \in i..n : /\ Here(doc, t, "<", "a") /\ \A k \in i..(t - 1) : ~Here(doc, k, "<", "a")
                        /\ AnchorOf(doc, t, a)
  BY <1>1, AnchorAt
<1>3. t \in DOMAIN doc /\ t \in 1..n
  BY <1>1, <1>2
<1>4. PICK e, h, first, end, c :
        /\ e = TagClose(doc, t) /\ h = Href(doc, t)
        /\ first = ValueStart(doc, h) /\ c = FindFirst(doc, first, {Closing(doc, h)})
        /\ end = FindFirst(doc, first, {"#"} \cup {Closing(doc, h)})
  OBVIOUS
<1>5. h \in LinkHrefs(doc) /\ h # 0
  <2>1. h \in LinkHrefs(doc)
    BY <1>2, <1>3, <1>4, GoodLink
  <2>2. PICK s \in DOMAIN doc : h \in (s + 2)..Len(doc)
    BY <2>1, LinkHrefsAt
  <2> QED
    BY <1>1, <2>1, <2>2
<1>6. /\ e \in t..n /\ h \in (t + 2)..(e - 2) /\ first \in {h + 2, h + 3} /\ end \in first..e
  <2>1. e = TagClose(doc, t) /\ h = Href(doc, t)
    BY <1>4
  <2>2. first = ValueStart(doc, h) /\ c = FindFirst(doc, first, {Closing(doc, h)})
    BY <1>4
  <2>3. end = FindFirst(doc, first, {"#"} \cup {Closing(doc, h)})
    BY <1>4
  <2>4. Here(doc, t, "<", "a")
    BY <1>2
  <2> QED
    BY <1>1, <1>3, <1>5, <2>1, <2>2, <2>3, <2>4, ValueIs
<1>7. a.end = end /\ a.first = Value(doc, h).first /\ a.end = Value(doc, h).end
  <2>1. a.first = Value(doc, h).first /\ a.end = Value(doc, h).end
    BY <1>2, <1>4, <1>5 DEF AnchorOf
  <2>2. Value(doc, h) = [first |-> first, end |-> end]
    BY <1>4, ValueFrom
  <2> QED
    BY <2>1, <2>2
<1>8. e \in Nat /\ h \in Nat /\ end \in Nat /\ i <= t /\ h \in i..(end - 1) /\ end <= e /\ e <= n /\ i \in Nat /\ i <= end
  BY <1>1, <1>3, <1>6
<1>9. ASSUME NEW s \in DOMAIN doc, Here(doc, s, "<", "a"), ~(s < i), s # t PROVE s > e
  <2>1. s \in 1..n /\ doc[s] = "<"
    BY <1>1, <1>9 DEF Here
  <2>2. ~(s < t)
    <3> SUFFICES ASSUME s < t PROVE FALSE
      OBVIOUS
    <3>1. s \in i..(t - 1)
      BY <1>1, <1>3, <1>9, <2>1
    <3> QED
      BY <1>2, <1>9, <3>1
  <2>3. doc[t] = "<" /\ e = TagClose(doc, t)
    BY <1>2, <1>4 DEF Here
  <2>4. doc[e] = ">" /\ \A k \in (t + 1)..(e - 1) : doc[k] # "<"
    BY <1>3, <2>3, TagIs
  <2>5. s # e
    BY <2>1, <2>4
  <2>6. s \notin (t + 1)..(e - 1)
    BY <2>1, <2>4
  <2> QED
    BY <1>3, <1>8, <1>9, <2>1, <2>2, <2>5, <2>6
<1>10. ASSUME NEW g \in LinkHrefs(doc) PROVE g < i \/ g = h \/ g >= a.end
  <2>1. PICK s \in DOMAIN doc : Here(doc, s, "<", "a") /\ g = Href(doc, s) /\ g \in (s + 2)..Len(doc)
    BY LinkHrefsAt
  <2>2. CASE s < i
    BY <2>1, <2>2 DEF Passed
  <2>3. CASE s = t
    BY <1>4, <2>1, <2>3
  <2>4. CASE ~(s < i) /\ s # t
    <3>1. s > e
      BY <1>9, <2>1, <2>4
    <3>2. s \in 1..n
      BY <1>1
    <3> QED
      BY <1>7, <1>8, <2>1, <3>1, <3>2
  <2> QED
    BY <2>2, <2>3, <2>4
<1>11. Passed(doc, a.end)
  <2> SUFFICES ASSUME NEW s \in DOMAIN doc, s < end, Here(doc, s, "<", "a"), Href(doc, s) \in LinkHrefs(doc)
               PROVE  Href(doc, s) < end
    BY <1>7 DEF Passed
  <2>0. s \in 1..n
    BY <1>1
  <2>1. CASE s < i
    <3>1. Href(doc, s) < i
      BY <2>1 DEF Passed
    <3>2. PICK g : g = Href(doc, s)
      OBVIOUS
    <3>3. PICK r \in DOMAIN doc : g \in (r + 2)..Len(doc)
      BY <3>2, LinkHrefsAt
    <3>4. g \in Nat
      BY <1>1, <3>3
    <3> QED
      BY <1>8, <3>1, <3>2, <3>4
  <2>2. CASE s = t
    BY <1>4, <1>8, <2>2
  <2>3. CASE ~(s < i) /\ s # t
    <3>1. s > e
      BY <1>9, <2>3
    <3> QED
      BY <1>8, <2>0, <3>1
  <2> QED
    BY <2>1, <2>2, <2>3
<1>12. a.end <= Len(doc)
  BY <1>1, <1>7, <1>8
<1>13. h \in i..(a.end - 1)
  BY <1>7, <1>8
<1> QED
  BY <1>5, <1>7, <1>10, <1>11, <1>12, <1>13 DEF FindsLink

\* A bad one is passed without a link.
LEMMA LinkPassed ==
  ASSUME NEW doc \in Seq(Tokens), Tidy(doc), NEW i \in 1..(Len(doc) + 1), Passed(doc, i),
         NEW a, a = Anchor(doc, i), a.exists, BadLink(doc, a)
  PROVE  Passed(doc, i + 2) /\ \A r : FindsLink(doc, i + 2, r) => FindsLink(doc, i, r)
<1>1. PICK n \in Nat : n = Len(doc) /\ DOMAIN doc = 1..n /\ i \in 1..(n + 1) /\ i \in Nat
  OBVIOUS
<1>2. PICK t \in i..n : /\ Here(doc, t, "<", "a") /\ \A k \in i..(t - 1) : ~Here(doc, k, "<", "a")
                        /\ AnchorOf(doc, t, a)
  BY <1>1, AnchorAt
<1>3. t \in DOMAIN doc /\ t \in 1..n
  BY <1>1, <1>2
<1>4. Href(doc, t) \notin LinkHrefs(doc)
  BY <1>2, <1>3, GoodLink
<1>5. ASSUME NEW s \in DOMAIN doc, s < i + 2, Here(doc, s, "<", "a"), Href(doc, s) \in LinkHrefs(doc)
      PROVE  s < i
  <2> SUFFICES ASSUME ~(s < i) PROVE FALSE
    OBVIOUS
  <2>1. s \in 1..n /\ s \in {i, i + 1} /\ s # t /\ doc[s] = "<"
    BY <1>1, <1>4, <1>5 DEF Here
  <2>2. ~(s < t)
    <3> SUFFICES ASSUME s < t PROVE FALSE
      OBVIOUS
    <3>1. s \in i..(t - 1)
      BY <1>1, <1>3, <2>1
    <3> QED
      BY <1>2, <1>5, <3>1
  <2>3. s = t + 1
    BY <1>1, <1>2, <1>3, <2>1, <2>2
  <2>4. doc[t + 1] = "a"
    BY <1>2 DEF Here
  <2> QED
    BY <2>1, <2>3, <2>4
<1>6. \A g \in LinkHrefs(doc) : g \in Nat
  <2> SUFFICES ASSUME NEW g \in LinkHrefs(doc) PROVE g \in Nat
    OBVIOUS
  <2>1. PICK s \in DOMAIN doc : g \in (s + 2)..Len(doc)
    BY LinkHrefsAt
  <2> QED
    BY <1>1, <2>1
<1>7. Passed(doc, i + 2)
  <2> SUFFICES ASSUME NEW s \in DOMAIN doc, s < i + 2, Here(doc, s, "<", "a"), Href(doc, s) \in LinkHrefs(doc)
               PROVE  Href(doc, s) < i + 2
    BY DEF Passed
  <2>1. s < i
    BY <1>5
  <2>2. Href(doc, s) < i
    BY <2>1 DEF Passed
  <2>3. PICK g : g = Href(doc, s)
    OBVIOUS
  <2>4. g \in Nat
    BY <1>6, <2>3
  <2> QED
    BY <1>1, <2>2, <2>3, <2>4
<1>8. ASSUME NEW g \in LinkHrefs(doc), g < i + 2 PROVE g < i
  <2>1. PICK s \in DOMAIN doc : Here(doc, s, "<", "a") /\ g = Href(doc, s) /\ g \in (s + 2)..Len(doc)
    BY LinkHrefsAt
  <2>2. s \in 1..n /\ s < i
    BY <1>1, <1>8, <2>1
  <2> QED
    BY <2>1, <2>2 DEF Passed
<1>9. ASSUME NEW r, FindsLink(doc, i + 2, r) PROVE FindsLink(doc, i, r)
  <2>1. CASE ~r.exists /\ \A g \in LinkHrefs(doc) : g < i + 2
    BY <1>8, <2>1 DEF FindsLink
  <2>2. CASE /\ r.exists /\ r.end <= Len(doc) /\ Passed(doc, r.end)
             /\ \E h \in LinkHrefs(doc) : /\ h \in (i + 2)..(r.end - 1)
                                          /\ r.first = Value(doc, h).first /\ r.end = Value(doc, h).end
                                          /\ \A g \in LinkHrefs(doc) : g < i + 2 \/ g = h \/ g >= r.end
    <3>1. PICK h \in LinkHrefs(doc) : /\ h \in (i + 2)..(r.end - 1)
                                      /\ r.first = Value(doc, h).first /\ r.end = Value(doc, h).end
                                      /\ \A g \in LinkHrefs(doc) : g < i + 2 \/ g = h \/ g >= r.end
      BY <2>2
    <3>2. h \in i..(r.end - 1)
      BY <1>1, <1>6, <3>1
    <3>3. \A g \in LinkHrefs(doc) : g < i \/ g = h \/ g >= r.end
      BY <1>8, <3>1
    <3> QED
      BY <2>2, <3>1, <3>2, <3>3 DEF FindsLink
  <2> QED
    BY <1>9, <2>1, <2>2 DEF FindsLink
<1> QED
  BY <1>7, <1>9

\* So the next link is the first one.
LEMMA NextLinkFinds ==
  ASSUME NEW doc \in Seq(Tokens), Tidy(doc), NEW start \in 1..(Len(doc) + 1), Passed(doc, start)
  PROVE  FindsLink(doc, start, NextLink(doc, start))
<1>1. PICK n \in Nat : n = Len(doc) + 1
  OBVIOUS
<1>2. PICK f : \A i \in 1..n :
           /\ NextLink(doc, i) = f[i]
           /\ ~(Anchor(doc, i).exists /\ BadLink(doc, Anchor(doc, i))) => f[i] = Anchor(doc, i)
           /\ Anchor(doc, i).exists /\ BadLink(doc, Anchor(doc, i)) =>
                f[i] = f[i + 2] /\ i + 2 \in (i + 1)..n
  BY <1>1, NextLinkLeads
<1> DEFINE G == {i \in 1..n : Passed(doc, i) => FindsLink(doc, i, f[i])}
<1>3. ASSUME NEW i \in 1..n, \A j \in (i + 1)..n : j \in G PROVE i \in G
  <2> SUFFICES ASSUME Passed(doc, i) PROVE FindsLink(doc, i, f[i])
    OBVIOUS
  <2>1. PICK a : a = Anchor(doc, i)
    OBVIOUS
  <2>2. i \in 1..(Len(doc) + 1)
    BY <1>1
  <2>3. CASE a.exists /\ BadLink(doc, a)
    <3>1. Passed(doc, i + 2) /\ \A r : FindsLink(doc, i + 2, r) => FindsLink(doc, i, r)
      BY <2>1, <2>2, <2>3, LinkPassed
    <3>2. f[i] = f[i + 2] /\ i + 2 \in (i + 1)..n
      BY <1>2, <2>1, <2>3
    <3>3. FindsLink(doc, i + 2, f[i + 2])
      BY <1>3, <3>1, <3>2
    <3> QED
      BY <3>1, <3>2, <3>3
  <2>4. CASE a.exists /\ ~BadLink(doc, a)
    <3>1. FindsLink(doc, i, a)
      BY <2>1, <2>2, <2>4, LinkFound
    <3> QED
      BY <1>2, <2>1, <2>4, <3>1
  <2>5. CASE ~a.exists
    <3>1. FindsLink(doc, i, a)
      BY <2>1, <2>2, <2>5, NoLink
    <3> QED
      BY <1>2, <2>1, <2>5, <3>1
  <2> QED
    BY <2>3, <2>4, <2>5
<1>4. start \in G
  <2>1. start \in 1..n
    BY <1>1
  <2> HIDE DEF G
  <2> QED
    BY <1>1, <1>3, <2>1, DownInduction
<1> QED
  BY <1>1, <1>2, <1>4

\* The numbers up to m that are in H, in order.
Numbers(m, H) == Selected([i \in 1..m |-> i], H)

\* They grow by one number or by none.
LEMMA NumbersStep ==
  ASSUME NEW m \in Nat, NEW H
  PROVE  /\ Numbers(m, H) \in Seq(Nat) /\ Numbers(0, H) = <<>>
         /\ m + 1 \in H => Numbers(m + 1, H) = Append(Numbers(m, H), m + 1)
         /\ m + 1 \notin H => Numbers(m + 1, H) = Numbers(m, H)
<1>1. PICK s, z, t : s = [i \in 1..m |-> i] /\ z = [i \in 1..0 |-> i] /\ t = [i \in 1..(m + 1) |-> i]
  OBVIOUS
<1>2. s \in Seq(Nat) /\ Len(s) = m
  BY <1>1
<1>3. z = <<>>
  BY <1>1
<1>4. t = Append(s, m + 1)
  <2>1. Append(s, m + 1) \in Seq(Nat) /\ Len(Append(s, m + 1)) = m + 1
    BY <1>2
  <2>2. Append(s, m + 1) = [i \in 1..(m + 1) |-> Append(s, m + 1)[i]]
    BY <2>1
  <2>3. ASSUME NEW i \in 1..(m + 1) PROVE Append(s, m + 1)[i] = i
    BY <1>1, <1>2
  <2> QED
    BY <1>1, <2>2, <2>3
<1>5. Numbers(m, H) = Selected(s, H) /\ Numbers(m + 1, H) = Selected(t, H)
  BY <1>1 DEF Numbers
<1>6. Numbers(0, H) = Selected(z, H)
  BY <1>1 DEF Numbers
<1>7. Selected(t, H) = IF m + 1 \in H THEN Append(Selected(s, H), m + 1) ELSE Selected(s, H)
  <2>1. PICK e \in Nat : e = m + 1
    OBVIOUS
  <2>2. s \in Seq(Nat)
    BY <1>2
  <2>3. Selected(Append(s, e), H) = IF e \in H THEN Append(Selected(s, H), e) ELSE Selected(s, H)
    BY <2>2, SelectedAppend
  <2> QED
    BY <1>4, <2>1, <2>3
<1>8. Selected(s, H) \in Seq(Nat) /\ Selected(z, H) = <<>>
  BY <1>2, <1>3, SelectedType, SelectedEmpty
<1> QED
  BY <1>5, <1>6, <1>7, <1>8

\* One sequence of numbers begins with another.
Begins(s, t) == Len(s) <= Len(t) /\ \A i \in 1..Len(s) : s[i] = t[i]

\* More numbers begin with fewer, and are the same if none is in H.
LEMMA NumbersGrow ==
  ASSUME NEW m \in Nat, NEW k \in Nat, NEW H
  PROVE  /\ Begins(Numbers(m, H), Numbers(m + k, H))
         /\ (\A i \in (m + 1)..(m + k) : i \notin H) => Numbers(m + k, H) = Numbers(m, H)
<1> DEFINE G == {j \in Nat : /\ Begins(Numbers(m, H), Numbers(m + j, H))
                             /\ (\A i \in (m + 1)..(m + j) : i \notin H) => Numbers(m + j, H) = Numbers(m, H)}
<1>1. 0 \in G
  <2>1. m + 0 = m
    OBVIOUS
  <2> QED
    BY <2>1, NumbersStep DEF Begins
<1>2. ASSUME NEW j \in Nat, j \in G PROVE j + 1 \in G
  <2>1. PICK a, b, c : a = Numbers(m, H) /\ b = Numbers(m + j, H) /\ c = Numbers(m + j + 1, H)
    OBVIOUS
  <2>2. a \in Seq(Nat) /\ b \in Seq(Nat) /\ m + j \in Nat
    BY <2>1, NumbersStep
  <2>3. Begins(a, b) /\ ((\A i \in (m + 1)..(m + j) : i \notin H) => b = a)
    BY <1>2, <2>1
  <2>4. (m + j + 1 \in H => c = Append(b, m + j + 1)) /\ (m + j + 1 \notin H => c = b)
    BY <2>1, <2>2, NumbersStep
  <2>5. Begins(a, c)
    <3>1. CASE m + j + 1 \in H
      <4>1. Len(c) = Len(b) + 1 /\ \A i \in 1..Len(b) : c[i] = b[i]
        <5>1. PICK e \in Nat : e = m + j + 1
          BY <2>2
        <5>2. c = Append(b, e)
          BY <2>4, <3>1, <5>1
        <5> QED
          BY <2>2, <5>2
      <4>2. Len(a) \in Nat /\ Len(b) \in Nat
        BY <2>2
      <4> QED
        BY <2>3, <4>1, <4>2 DEF Begins
    <3>2. CASE m + j + 1 \notin H
      BY <2>3, <2>4, <3>2
    <3> QED
      BY <3>1, <3>2
  <2>6. ASSUME \A i \in (m + 1)..(m + j + 1) : i \notin H PROVE c = a
    <3>1. m + j + 1 \notin H /\ \A i \in (m + 1)..(m + j) : i \notin H
      BY <2>6
    <3> QED
      BY <2>3, <2>4, <3>1
  <2>7. m + (j + 1) = m + j + 1 /\ j + 1 \in Nat
    OBVIOUS
  <2> QED
    BY <2>1, <2>5, <2>6, <2>7
<1>3. k \in G
  <2> HIDE DEF G
  <2> QED
    BY <1>1, <1>2, SetInduction
<1> QED
  BY <1>3

\* Only one number of H is between two others.
OnlyOne(H, h, i, j) == \A g \in H : g < i \/ g = h \/ g >= j

\* It is appended.
LEMMA NumbersOne ==
  ASSUME NEW m \in Nat, NEW n \in Nat, NEW H, NEW h \in H, h \in (m + 1)..n, OnlyOne(H, h, m + 1, n + 1)
  PROVE  Numbers(n, H) = Append(Numbers(m, H), h)
<1>1. PICK k \in Nat : h = m + k + 1
  <2>1. h - m - 1 \in Nat /\ h = m + (h - m - 1) + 1
    OBVIOUS
  <2> QED
    BY <2>1
<1>2. PICK l \in Nat : n = h + l
  <2>1. n - h \in Nat /\ n = h + (n - h)
    OBVIOUS
  <2> QED
    BY <2>1
<1>3. m + k \in Nat /\ h \in Nat
  BY <1>1
<1>4. Numbers(m + k, H) = Numbers(m, H)
  <2>1. \A i \in (m + 1)..(m + k) : i \notin H
    BY <1>1, <1>2 DEF OnlyOne
  <2> QED
    BY <2>1, NumbersGrow
<1>5. Numbers(h, H) = Append(Numbers(m + k, H), h)
  <2>1. m + k + 1 \in H
    BY <1>1
  <2>2. Numbers(m + k + 1, H) = Append(Numbers(m + k, H), m + k + 1)
    BY <1>3, <2>1, NumbersStep
  <2> QED
    BY <1>1, <2>2
<1>6. Numbers(h + l, H) = Numbers(h, H)
  <2>1. \A i \in (h + 1)..(h + l) : i \notin H
    BY <1>1, <1>2, <1>3 DEF OnlyOne
  <2> QED
    BY <1>3, <2>1, NumbersGrow
<1> QED
  BY <1>2, <1>4, <1>5, <1>6

\* The links handed over are the URLs behind the "href=" in hs.
Handed(ls, doc, hs) ==
  Len(ls) = Len(hs) /\ \A i \in 1..Len(ls) : ls[i].first = Value(doc, hs[i]).first /\ ls[i].end = Value(doc, hs[i]).end

\* What is left of them if only the positions are kept.
SpansOf(ls) == [n \in DOMAIN ls |-> [first |-> ls[n].first, end |-> ls[n].end]]

\* They are the first of those expected, and all if none of these is behind.
LEMMA HandedListed ==
  ASSUME NEW doc \in Seq(Tokens), NEW p \in 0..Len(doc), NEW H, NEW S, NEW ls \in Seq(S),
         Handed(ls, doc, Numbers(p, H))
  PROVE  /\ IsPrefix(SpansOf(ls), Listed(doc, H))
         /\ (\A g \in H : g < p + 1) => SpansOf(ls) = Listed(doc, H)
<1>1. PICK n \in Nat : n = Len(doc) /\ DOMAIN doc = 1..n /\ p \in 0..n
  OBVIOUS
<1>2. PICK hs, all : hs = Numbers(p, H) /\ all = Numbers(n, H)
  OBVIOUS
<1>3. hs \in Seq(Nat) /\ all \in Seq(Nat)
  BY <1>1, <1>2, NumbersStep
<1>4. Begins(hs, all) /\ ((\A i \in (p + 1)..n : i \notin H) => all = hs)
  <2>1. PICK m \in Nat : p \in Nat /\ n = p + m
    <3>1. n - p \in Nat /\ p \in Nat /\ n = p + (n - p)
      BY <1>1
    <3> QED
      BY <3>1
  <2>2. /\ Begins(Numbers(p, H), Numbers(p + m, H))
        /\ (\A i \in (p + 1)..(p + m) : i \notin H) => Numbers(p + m, H) = Numbers(p, H)
    BY <2>1, NumbersGrow
  <2> QED
    BY <1>2, <2>1, <2>2
<1>5. PICK spans, listed : spans = SpansOf(ls) /\ listed = Listed(doc, H)
  OBVIOUS
<1>6. PICK l \in Nat : l = Len(ls) /\ l = Len(hs) /\ DOMAIN ls = 1..l
  BY <1>2 DEF Handed
<1>7. PICK k \in Nat : k = Len(all) /\ DOMAIN all = 1..k
  BY <1>3
<1>8. spans = [i \in 1..l |-> [first |-> ls[i].first, end |-> ls[i].end]]
  BY <1>5, <1>6 DEF SpansOf
<1>9. listed = [i \in 1..k |-> Value(doc, all[i])]
  <2>1. Listed(doc, H) = [i \in DOMAIN Selected([j \in 1..n |-> j], H) |-> Value(doc, Selected([j \in 1..n |-> j], H)[i])]
    BY <1>1 DEF Listed
  <2>2. Selected([j \in 1..n |-> j], H) = all
    BY <1>2 DEF Numbers
  <2> QED
    BY <1>5, <1>7, <2>1, <2>2
<1>10. l <= k /\ \A i \in 1..l : spans[i] = listed[i]
  <2>1. l <= k /\ \A i \in 1..l : i \in 1..k /\ hs[i] = all[i]
    BY <1>4, <1>6, <1>7 DEF Begins
  <2>2. ASSUME NEW i \in 1..l PROVE spans[i] = listed[i]
    <3>1. PICK v : v = Value(doc, hs[i])
      OBVIOUS
    <3>2. v = [first |-> v.first, end |-> v.end]
      BY <3>1, ValueFrom
    <3>3. ls[i].first = v.first /\ ls[i].end = v.end
      BY <1>2, <1>6, <3>1 DEF Handed
    <3>4. spans[i] = v
      BY <1>8, <3>2, <3>3
    <3>5. listed[i] = v
      BY <1>9, <2>1, <3>1
    <3> QED
      BY <3>4, <3>5
  <2> QED
    BY <2>1, <2>2
<1>11. IsPrefix(spans, listed)
  <2>1. Len(spans) = l /\ Len(listed) = k
    BY <1>8, <1>9
  <2>2. PICK s, t : s = SubSeq(spans, 1, l) /\ t = SubSeq(listed, 1, l)
    OBVIOUS
  <2>3. s = [i \in 1..l |-> spans[i]]
    BY <2>2
  <2>4. t = [i \in 1..l |-> listed[i]]
    BY <2>2
  <2>5. s = t
    BY <1>10, <2>3, <2>4
  <2> QED
    BY <1>10, <2>1, <2>2, <2>5 DEF IsPrefix
<1>12. ASSUME \A g \in H : g < p + 1 PROVE spans = listed
  <2>1. \A i \in (p + 1)..n : i \notin H
    BY <1>1, <1>12
  <2>2. k = l
    BY <1>4, <1>6, <1>7, <2>1
  <2> QED
    BY <1>8, <1>9, <1>10, <2>2
<1> QED
  BY <1>5, <1>11, <1>12

\* What the calls of webpage_getNextURL have handed over: the URLs that begin before the
\* position, on a tidy page, and those of the whole page in the end.
HandedInv ==
  /\ phase \notin {"links", "nolink"} => links = <<>>
  /\ \E S : links \in Seq(S)
  /\ phase = "links" => pos # 0
  /\ phase = "links" /\ Tidy(html) =>
       Passed(html, pos + 1) /\ Handed(links, html, Numbers(pos, LinkHrefs(html)))
  /\ phase = "nolink" => LinksRight

\* Every call finds the next one.
LEMMA GetNextURLHands ==
  ASSUME WordsInv, LinksInv, HandedInv, GetNextURL
  PROVE  HandedInv'
<1>1. /\ phase \in {"page", "links"} /\ phase' \in {"links", "nolink"} /\ url' = url
      /\ html \in Seq(Tokens) /\ pos \in 0..Len(html)
  BY DEF GetNextURL, LinksInv, server
<1>2. phase = "page" => pos = 0 /\ links = <<>>
  BY DEF WordsInv, HandedInv
<1>3. phase = "links" => html' = html
  BY DEF GetNextURL, HandedInv
<1>4. PICK doc, p, ls, lu : doc = html' /\ p = pos /\ ls = links /\ lu = url
  OBVIOUS
<1>5. doc \in Seq(Tokens) /\ p \in 0..Len(doc) /\ p \in Nat
  <2>1. CASE phase = "page"
    <3>1. html' = RemoveWhitespace(html)
      BY <1>2, <2>1 DEF GetNextURL
    <3>2. html' \in Seq(Tokens)
      BY <1>1, <3>1, SelectedType DEF RemoveWhitespace
    <3> QED
      BY <1>2, <1>4, <2>1, <3>2
  <2>2. CASE phase = "links"
    BY <1>1, <1>3, <1>4, <2>2
  <2> QED
    BY <1>1, <2>1, <2>2
<1>6. PICK S : ls \in Seq(S)
  BY <1>4 DEF HandedInv
<1>7. PICK H : H = LinkHrefs(doc)
  OBVIOUS
<1>8. ASSUME Tidy(doc) PROVE Passed(doc, p + 1) /\ Handed(ls, doc, Numbers(p, H))
  <2>1. CASE phase = "page"
    <3>1. p = 0 /\ ls = <<>>
      BY <1>2, <1>4, <2>1
    <3>2. Passed(doc, 1)
      BY <1>5 DEF Passed
    <3>3. Numbers(0, H) = <<>>
      BY NumbersStep
    <3>4. Handed(<<>>, doc, <<>>)
      BY DEF Handed
    <3> QED
      BY <3>1, <3>2, <3>3, <3>4
  <2>2. CASE phase = "links"
    BY <1>3, <1>4, <1>7, <1>8, <2>2 DEF HandedInv
  <2> QED
    BY <1>1, <2>1, <2>2
<1>9. PICK a : a = NextLink(doc, p + 1)
  OBVIOUS
<1>10. \/ /\ a.exists /\ pos' = a.end - 1 /\ phase' = "links"
          /\ \E l : links' = Append(ls, l) /\ l.first = a.first /\ l.end = a.end
       \/ /\ phase' = "nolink" /\ links' = ls
          /\ ParseURL(lu).ok => ~a.exists
  <2>1. PICK norm : norm = NormalizeURL(IF Relative(doc, a) THEN FixupRelativeURL(url, SubSeq(doc, a.first, a.end - 1))
                                        ELSE SubSeq(doc, a.first, a.end - 1))
    OBVIOUS
  <2>2. PICK l : l = [first |-> a.first, end |-> a.end, normal |-> norm]
    OBVIOUS
  <2>3. l.first = a.first /\ l.end = a.end
    BY <2>2
  <2>4. \/ /\ a.exists /\ pos' = a.end - 1 /\ phase' = "links" /\ links' = Append(ls, l)
        \/ /\ ~(a.exists /\ (Relative(doc, a) => ParseURL(url).ok))
           /\ phase' = "nolink" /\ links' = ls
    BY <1>4, <1>9, <2>1, <2>2 DEF GetNextURL
  <2> QED
    BY <1>4, <2>3, <2>4
<1>11. ASSUME Tidy(doc) PROVE FindsLink(doc, p + 1, a)
  <2>1. p + 1 \in 1..(Len(doc) + 1)
    BY <1>5
  <2> QED
    BY <1>5, <1>8, <1>9, <1>11, <2>1, NextLinkFinds
<1>12. CASE /\ a.exists /\ pos' = a.end - 1 /\ phase' = "links"
            /\ \E l : links' = Append(ls, l) /\ l.first = a.first /\ l.end = a.end
  <2>1. PICK l : links' = Append(ls, l) /\ l.first = a.first /\ l.end = a.end
    BY <1>12
  <2>2. a.end \in ((p + 1) + 1)..Len(doc)
    <3>1. p + 1 \in 1..(Len(doc) + 1)
      BY <1>5
    <3> QED
      BY <1>5, <1>9, <1>12, <3>1, NextLinkIs
  <2>3. PICK q \in Nat \ {0} : q = a.end - 1 /\ q + 1 = a.end
    BY <1>5, <2>2
  <2>4. \E T : links' \in Seq(T)
    <3>1. S \cup {l} # {} /\ ls \in Seq(S \cup {l}) /\ l \in S \cup {l}
      BY <1>6
    <3>2. Append(ls, l) \in Seq(S \cup {l})
      BY <3>1
    <3> QED
      BY <2>1, <3>2
  <2>5. ASSUME Tidy(doc) PROVE Passed(doc, q + 1) /\ Handed(links', doc, Numbers(q, H))
    <3>1. Passed(doc, a.end)
      BY <1>11, <1>12, <2>5 DEF FindsLink
    <3>2. PICK h \in H : /\ h \in (p + 1)..(a.end - 1)
                         /\ a.first = Value(doc, h).first /\ a.end = Value(doc, h).end
                         /\ \A g \in H : g < p + 1 \/ g = h \/ g >= a.end
      BY <1>7, <1>11, <1>12, <2>5 DEF FindsLink
    <3>3. h \in (p + 1)..q /\ \A g \in H : g < p + 1 \/ g = h \/ g >= q + 1
      BY <2>3, <3>2
    <3>4. PICK hs : hs = Numbers(p, H)
      OBVIOUS
    <3>5. Numbers(q, H) = Append(hs, h)
      <4>1. h \in (p + 1)..q
        BY <3>3
      <4>2. OnlyOne(H, h, p + 1, q + 1)
        BY <3>3 DEF OnlyOne
      <4>3. p \in Nat /\ q \in Nat /\ h \in H
        BY <1>5, <3>2
      <4>4. Numbers(q, H) = Append(Numbers(p, H), h)
        BY <4>1, <4>2, <4>3, NumbersOne
      <4> QED
        BY <3>4, <4>4
    <3>6. hs \in Seq(Nat) /\ h \in Nat
      BY <1>5, <3>3, <3>4, NumbersStep
    <3>7. Handed(ls, doc, hs)
      BY <1>8, <2>5, <3>4
    <3>8. Handed(Append(ls, l), doc, Append(hs, h))
      <4>1. PICK n \in Nat : n = Len(ls) /\ n = Len(hs)
        BY <1>6, <3>7 DEF Handed
      <4>2. /\ Len(Append(ls, l)) = n + 1 /\ Append(ls, l)[n + 1] = l
            /\ \A i \in 1..n : Append(ls, l)[i] = ls[i]
        <5>1. PICK T : T = S \cup {l}
          OBVIOUS
        <5>2. ls \in Seq(T) /\ l \in T
          BY <1>6, <5>1
        <5>3. PICK m : m = Append(ls, l)
          OBVIOUS
        <5>4. Len(m) = Len(ls) + 1 /\ m[Len(ls) + 1] = l
          BY <5>2, <5>3
        <5>5. \A i \in 1..Len(ls) : m[i] = ls[i]
          BY <5>2, <5>3
        <5> QED
          BY <4>1, <5>3, <5>4, <5>5
      <4>3. /\ Len(Append(hs, h)) = n + 1 /\ Append(hs, h)[n + 1] = h
            /\ \A i \in 1..n : Append(hs, h)[i] = hs[i]
        BY <3>6, <4>1
      <4>4. ASSUME NEW i \in 1..(n + 1)
            PROVE  /\ Append(ls, l)[i].first = Value(doc, Append(hs, h)[i]).first
                   /\ Append(ls, l)[i].end = Value(doc, Append(hs, h)[i]).end
        <5>1. CASE i = n + 1
          BY <2>1, <3>2, <4>2, <4>3, <5>1
        <5>2. CASE i # n + 1
          <6>1. i \in 1..n
            BY <5>2
          <6> QED
            BY <3>7, <4>1, <4>2, <4>3, <6>1 DEF Handed
        <5> QED
          BY <5>1, <5>2
      <4> QED
        BY <4>2, <4>3, <4>4 DEF Handed
    <3> QED
      BY <2>1, <2>3, <3>1, <3>5, <3>8
  <2>6. pos' = q /\ phase' = "links" /\ html' = doc /\ H = LinkHrefs(html')
    BY <1>4, <1>7, <1>12, <2>3
  <2> QED
    BY <2>3, <2>4, <2>5, <2>6 DEF HandedInv
<1>13. CASE /\ phase' = "nolink" /\ links' = ls
            /\ ParseURL(lu).ok => ~a.exists
  <2>1. ASSUME Tidy(doc)
        PROVE  /\ IsPrefix(SpansOf(ls), Listed(doc, H))
               /\ ParseURL(lu).ok => SpansOf(ls) = Listed(doc, H)
    <3>1. Handed(ls, doc, Numbers(p, H))
      BY <1>8, <2>1
    <3>2. /\ IsPrefix(SpansOf(ls), Listed(doc, H))
          /\ (\A g \in H : g < p + 1) => SpansOf(ls) = Listed(doc, H)
      BY <1>5, <1>6, <3>1, HandedListed
    <3>3. ASSUME ParseURL(lu).ok PROVE \A g \in H : g < p + 1
      <4>1. ~a.exists
        BY <1>13, <3>3
      <4> QED
        BY <1>7, <1>11, <2>1, <4>1 DEF FindsLink
    <3> QED
      BY <3>2, <3>3
  <2>2. Spans' = SpansOf(ls)
    BY <1>13 DEF Spans, SpansOf
  <2>3. LinksRight'
    BY <1>1, <1>4, <1>7, <2>1, <2>2 DEF LinksRight
  <2>4. \E T : links' \in Seq(T)
    BY <1>6, <1>13
  <2> QED
    BY <1>13, <2>3, <2>4 DEF HandedInv
<1> QED
  BY <1>10, <1>12, <1>13

\* No other action touches them.
LEMMA HandedKeeps ==
  ASSUME WordsInv, LinksInv, HandedInv, [Next]_vars
  PROVE  HandedInv'
<1>1. CASE GetNextURL
  BY <1>1, GetNextURLHands
<1>2. CASE \/ \E n \in 1..Len(content) : WriteMemoryCallback(n)
           \/ TryFails \/ LastTryFails \/ FetchSucceeds \/ OtherFetch
           \/ AllocMessage \/ LengthOfMessage \/ CopyMessage \/ GetNextWord
  <2>1. phase \notin {"links", "nolink"} /\ phase' \notin {"links", "nolink"} /\ links' = links
    BY <1>2 DEF WriteMemoryCallback, TryFails, LastTryFails, FetchSucceeds, OtherFetch, AllocMessage,
                LengthOfMessage, CopyMessage, GetNextWord
  <2> QED
    BY <2>1 DEF HandedInv
<1>3. CASE UNCHANGED vars
  <2>1. phase' = phase /\ links' = links /\ pos' = pos /\ html' = html /\ url' = url
    BY <1>3 DEF vars, server
  <2>2. Spans' = Spans
    BY <2>1 DEF Spans
  <2>3. LinksRight' <=> LinksRight
    BY <2>1, <2>2 DEF LinksRight
  <2> QED
    BY <2>1, <2>3 DEF HandedInv
<1> QED
  BY <1>1, <1>2, <1>3 DEF Next

\* The links that were handed over are those of the page up to the position returned.
THEOREM HandedInvariant == Spec => []HandedInv
<1>1. Init => HandedInv
  <2> SUFFICES ASSUME Init PROVE HandedInv
    OBVIOUS
  <2>1. links = <<>> /\ phase \in {"fetch", "page"} /\ <<>> \in Seq({})
    BY DEF Init
  <2> QED
    BY <2>1 DEF HandedInv
<1>2. WordsInv /\ LinksInv /\ HandedInv /\ [Next]_vars => HandedInv'
  BY HandedKeeps
<1> QED
  BY <1>1, <1>2, ScannerInvariant, PTL DEF Spec

\* On a tidy page, the links that webpage_getNextURL hands over are the URLs of its
\* anchors, each once and in the order of the page, without those for which a later ":" is
\* taken as the end of a scheme; and all of them when it says that there are no more.
THEOREM LinksAreRight == Spec => []LinksRight
<1>1. LinksInv /\ HandedInv => LinksRight
  <2> SUFFICES ASSUME LinksInv, HandedInv, phase = "links", Tidy(html)
               PROVE  IsPrefix(Spans, Listed(html, LinkHrefs(html)))
    BY DEF HandedInv, LinksRight
  <2>1. html \in Seq(Tokens) /\ pos \in 0..Len(html)
    BY DEF LinksInv
  <2>2. Handed(links, html, Numbers(pos, LinkHrefs(html)))
    BY DEF HandedInv
  <2>3. PICK S : links \in Seq(S)
    BY DEF HandedInv
  <2>4. IsPrefix(SpansOf(links), Listed(html, LinkHrefs(html)))
    BY <2>1, <2>2, <2>3, HandedListed
  <2> QED
    BY <2>4 DEF Spans, SpansOf
<1> QED
  BY <1>1, ScannerInvariant, HandedInvariant, PTL

-----------------------------------------------------------------------------
(***************************************************************************)
(* URLs: what RemoveDotSegments, ParseURL, NormalizeURL and                *)
(* FixupRelativeURL compute.                                               *)
(***************************************************************************)
\* A part of a sequence, element by element.
LEMMA PartIs ==
  ASSUME NEW S, NEW s \in Seq(S), NEW m \in Nat \ {0}, NEW n \in Nat, m <= n + 1, n <= Len(s),
         NEW p, p = SubSeq(s, m, n)
  PROVE  p \in Seq(S) /\ Len(p) = (n + 1) - m /\ \A i \in 1..((n + 1) - m) : p[i] = s[(m - 1) + i]
<1>1. /\ p \in Seq(S) /\ Len(p) = IF m <= n THEN n - m + 1 ELSE 0
      /\ \A i \in 1..(n - m + 1) : p[i] = s[m + i - 1]
  OBVIOUS
<1>2. Len(p) = (n + 1) - m
  BY <1>1
<1>3. ASSUME NEW i \in 1..((n + 1) - m) PROVE p[i] = s[(m - 1) + i]
  <2>1. i \in 1..(n - m + 1) /\ m + i - 1 = (m - 1) + i
    OBVIOUS
  <2> QED
    BY <1>1, <2>1
<1>4. p \in Seq(S)
  BY <1>1
<1> QED
  BY <1>2, <1>3, <1>4

\* Sequences of the same length and elements are the same.
LEMMA SameSeq ==
  ASSUME NEW S, NEW s \in Seq(S), NEW t \in Seq(S), Len(s) = Len(t), \A i \in 1..Len(s) : s[i] = t[i]
  PROVE  s = t
OBVIOUS

\* strrchr finds the last position, or there is none.
LEMMA LastIs ==
  ASSUME NEW S, NEW s \in Seq(S), NEW c, NEW f, f = FindLast(s, c)
  PROVE  \/ f = 0 /\ \A k \in 1..Len(s) : s[k] # c
         \/ f \in 1..Len(s) /\ s[f] = c /\ \A k \in (f + 1)..Len(s) : s[k] # c
<1>1. PICK n \in Nat : n = Len(s)
  OBVIOUS
<1>2. PICK I : I = {k \in 1..n : s[k] = c}
  OBVIOUS
<1>3. f = IF I # {} THEN Max(I) ELSE 0
  BY <1>1, <1>2 DEF FindLast, SelectLastInSeq
<1>4. CASE I = {}
  BY <1>1, <1>2, <1>3, <1>4
<1>5. CASE I # {}
  <2>1. I \in SUBSET (1..n)
    BY <1>2
  <2>2. f \in I /\ \A k \in I : k <= f
    BY <1>3, <1>5, <2>1, MaxPosition
  <2>3. f \in 1..n /\ s[f] = c
    BY <1>2, <2>2
  <2>4. ASSUME NEW k \in (f + 1)..n PROVE s[k] # c
    <3>1. k \in 1..n /\ ~(k <= f)
      BY <1>1, <2>3
    <3> QED
      BY <1>2, <2>2, <3>1
  <2> QED
    BY <1>1, <2>3, <2>4
<1> QED
  BY <1>4, <1>5

\* The input and the output of RemoveDotSegments.
Buffers == [in : Seq(Tokens), out : Seq(Tokens)]

\* The output becomes shorter.
LEMMA DropType ==
  ASSUME NEW out \in Seq(Tokens)
  PROVE  DropLastSegment(out) \in Seq(Tokens)
<1>1. PICK f : f = FindLast(out, "/")
  OBVIOUS
<1>2. f \in 0..Len(out)
  BY <1>1, LastIs
<1>3. DropLastSegment(out) = SubSeq(out, 1, f - 1)
  BY <1>1 DEF DropLastSegment
<1> QED
  BY <1>2, <1>3

\* A turn leaves sequences.
LEMMA NextSegmentType ==
  ASSUME NEW b \in Buffers
  PROVE  NextSegment(b) \in Buffers
<1>1. PICK in \in Seq(Tokens), out \in Seq(Tokens) : b.in = in /\ b.out = out /\ b = [in |-> in, out |-> out]
  BY DEF Buffers
<1>2. PICK next : next = FindFirst(in, 2, {"/"})
  OBVIOUS
<1>3. next \in 0..Len(in)
  BY <1>2, FindFirstIs
<1>4. PICK end \in 0..Len(in) : end = IF next = 0 THEN Len(in) ELSE next - 1
  BY <1>3
<1>5. PICK drop \in Seq(Tokens) : drop = DropLastSegment(out)
  BY DropType
<1>6. <<"/">> \in Seq(Tokens) /\ <<>> \in Seq(Tokens)
  BY UrlAssumption DEF Delimiters
<1>7. /\ SubSeq(in, 3, Len(in)) \in Seq(Tokens) /\ SubSeq(in, 4, Len(in)) \in Seq(Tokens)
      /\ SubSeq(in, end + 1, Len(in)) \in Seq(Tokens) /\ out \o SubSeq(in, 1, end) \in Seq(Tokens)
  BY <1>4
<1>8. NextSegment(b) = b \/ \E i \in Seq(Tokens), o \in Seq(Tokens) : NextSegment(b) = [in |-> i, out |-> o]
  BY <1>1, <1>2, <1>4, <1>5, <1>6, <1>7 DEF NextSegment
<1> QED
  BY <1>8 DEF Buffers

\* The loop of RemoveDotSegments, turn by turn.
LEMMA LoopTurns ==
  ASSUME NEW input \in Seq(Tokens)
  PROVE  \E f \in [Nat -> Buffers] :
           /\ f[0] = [in |-> input, out |-> <<>>] /\ \A n \in Nat : f[n + 1] = NextSegment(f[n])
           /\ RemoveDotSegments(input) = f[Len(input)].out
<1> DEFINE Loop(f) == f = [n \in Nat |-> IF n = 0 THEN [in |-> input, out |-> <<>>] ELSE NextSegment(f[n - 1])]
<1>1. PICK first \in Buffers : first = [in |-> input, out |-> <<>>]
  <2>1. <<>> \in Seq(Tokens)
    OBVIOUS
  <2> QED
    BY <2>1 DEF Buffers
<1>2. PICK g : g = [b \in Buffers |-> NextSegment(b)]
  OBVIOUS
<1>3. g \in [Buffers -> Buffers]
  BY <1>2, NextSegmentType
<1>4. PICK f \in [Nat -> Buffers] : f[0] = first /\ \A n \in Nat : f[n + 1] = g[f[n]]
  <2>1. Iterated(Buffers, first, g)
    BY <1>1, <1>3, Iterable
  <2> QED
    BY <2>1 DEF Iterated
<1>5. \A n \in Nat : f[n + 1] = NextSegment(f[n])
  BY <1>2, <1>4
<1>6. Loop(f)
  <2>1. ASSUME NEW n \in Nat PROVE f[n] = IF n = 0 THEN first ELSE NextSegment(f[n - 1])
    <3>1. CASE n = 0
      BY <1>4, <3>1
    <3>2. CASE n # 0
      <4>1. n - 1 \in Nat /\ (n - 1) + 1 = n
        BY <3>2
      <4> QED
        BY <1>5, <3>2, <4>1
    <3> QED
      BY <3>1, <3>2
  <2> QED
    BY <1>1, <1>4, <2>1
<1>7. PICK h : Loop(h) /\ RemoveDotSegments(input) = h[Len(input)].out
  <2>1. RemoveDotSegments(input) = (CHOOSE h : Loop(h))[Len(input)].out
    BY DEF RemoveDotSegments
  <2> HIDE DEF Loop
  <2> QED
    BY <1>6, <2>1
<1>8. h \in [Nat -> Buffers] /\ h[0] = first /\ \A n \in Nat : h[n + 1] = NextSegment(h[n])
  <2>1. h[0] = first
    BY <1>1, <1>7
  <2>2. ASSUME NEW n \in Nat PROVE h[n + 1] = NextSegment(h[n])
    <3>1. n + 1 \in Nat /\ n + 1 # 0 /\ (n + 1) - 1 = n
      OBVIOUS
    <3>2. \A k \in Nat : h[k] = IF k = 0 THEN [in |-> input, out |-> <<>>] ELSE NextSegment(h[k - 1])
      BY <1>7
    <3> HIDE DEF Loop
    <3> QED
      BY <3>1, <3>2
  <2>3. \A n \in Nat : h[n] \in Buffers
    <3> DEFINE G == {n \in Nat : h[n] \in Buffers}
    <3>1. 0 \in G
      BY <2>1
    <3>2. ASSUME NEW n \in Nat, n \in G PROVE n + 1 \in G
      <4>1. h[n] \in Buffers /\ n + 1 \in Nat
        BY <3>2
      <4>2. NextSegment(h[n]) \in Buffers
        BY <4>1, NextSegmentType
      <4>3. h[n + 1] \in Buffers
        BY <2>2, <4>2
      <4> QED
        BY <4>1, <4>3
    <3> HIDE DEF G
    <3>3. \A n \in Nat : n \in G
      BY <3>1, <3>2, SetInduction
    <3> QED
      BY <3>3 DEF G
  <2>4. h = [n \in Nat |-> h[n]]
    BY <1>7
  <2> HIDE DEF Loop
  <2> QED
    BY <2>1, <2>2, <2>3, <2>4
<1> QED
  BY <1>1, <1>7, <1>8

\* The sequences that are looked for, element by element.
LEMMA TupleIs ==
  ASSUME NEW S, NEW s \in Seq(S)
  PROVE  /\ s = <<".", "/">> <=> Len(s) = 2 /\ s[1] = "." /\ s[2] = "/"
         /\ s = <<".", ".", "/">> <=> Len(s) = 3 /\ s[1] = "." /\ s[2] = "." /\ s[3] = "/"
         /\ s = <<"/", ".", "/">> <=> Len(s) = 3 /\ s[1] = "/" /\ s[2] = "." /\ s[3] = "/"
         /\ s = <<"/", ".", ".", "/">> <=>
              Len(s) = 4 /\ s[1] = "/" /\ s[2] = "." /\ s[3] = "." /\ s[4] = "/"
         /\ s = <<"/", ".">> <=> Len(s) = 2 /\ s[1] = "/" /\ s[2] = "."
         /\ s = <<"/", ".", ".">> <=> Len(s) = 3 /\ s[1] = "/" /\ s[2] = "." /\ s[3] = "."
         /\ s = <<".">> <=> Len(s) = 1 /\ s[1] = "."
         /\ s = <<".", ".">> <=> Len(s) = 2 /\ s[1] = "." /\ s[2] = "."
         /\ s = <<>> <=> Len(s) = 0
<1>1. /\ s = <<".", "/">> <=> Len(s) = 2 /\ s[1] = "." /\ s[2] = "/"
      /\ s = <<"/", ".">> <=> Len(s) = 2 /\ s[1] = "/" /\ s[2] = "."
      /\ s = <<".", ".">> <=> Len(s) = 2 /\ s[1] = "." /\ s[2] = "."
      /\ s = <<".">> <=> Len(s) = 1 /\ s[1] = "."
      /\ s = <<>> <=> Len(s) = 0
  OBVIOUS
<1>2. s = <<".", ".", "/">> <=> Len(s) = 3 /\ s[1] = "." /\ s[2] = "." /\ s[3] = "/"
  OBVIOUS
<1>3. s = <<"/", ".", "/">> <=> Len(s) = 3 /\ s[1] = "/" /\ s[2] = "." /\ s[3] = "/"
  OBVIOUS
<1>4. s = <<"/", ".", ".">> <=> Len(s) = 3 /\ s[1] = "/" /\ s[2] = "." /\ s[3] = "."
  OBVIOUS
<1>5. s = <<"/", ".", ".", "/">> <=>
         Len(s) = 4 /\ s[1] = "/" /\ s[2] = "." /\ s[3] = "." /\ s[4] = "/"
  OBVIOUS
<1> QED
  BY <1>1, <1>2, <1>3, <1>4, <1>5

\* The first tokens of a sequence.
LEMMA FrontIs ==
  ASSUME NEW S, NEW s \in Seq(S), NEW k \in Nat, k <= Len(s), NEW p, p = SubSeq(s, 1, k)
  PROVE  p \in Seq(S) /\ Len(p) = k /\ \A i \in 1..k : p[i] = s[i]
OBVIOUS

\* What an input begins with, for the prefixes that are looked for.
LEMMA BeginsWith ==
  ASSUME NEW S, NEW in \in Seq(S)
  PROVE  /\ StandsAt(in, 1, <<".", "/">>) <=> Len(in) >= 2 /\ in[1] = "." /\ in[2] = "/"
         /\ StandsAt(in, 1, <<".", ".", "/">>) <=> Len(in) >= 3 /\ in[1] = "." /\ in[2] = "." /\ in[3] = "/"
         /\ StandsAt(in, 1, <<"/", ".", "/">>) <=> Len(in) >= 3 /\ in[1] = "/" /\ in[2] = "." /\ in[3] = "/"
         /\ StandsAt(in, 1, <<"/", ".", ".", "/">>) <=>
              Len(in) >= 4 /\ in[1] = "/" /\ in[2] = "." /\ in[3] = "." /\ in[4] = "/"
         /\ in = <<"/", ".">> <=> Len(in) = 2 /\ in[1] = "/" /\ in[2] = "."
         /\ in = <<"/", ".", ".">> <=> Len(in) = 3 /\ in[1] = "/" /\ in[2] = "." /\ in[3] = "."
         /\ in = <<".">> <=> Len(in) = 1 /\ in[1] = "."
         /\ in = <<".", ".">> <=> Len(in) = 2 /\ in[1] = "." /\ in[2] = "."
         /\ in = <<>> <=> Len(in) = 0
<1> DEFINE n == Len(in)
<1>1. /\ Len(<<".", "/">>) = 2 /\ Len(<<".", ".", "/">>) = 3 /\ Len(<<"/", ".", "/">>) = 3
      /\ Len(<<"/", ".", ".", "/">>) = 4
  OBVIOUS
<1>2. ASSUME n >= 2
      PROVE  SubSeq(in, 1, 2) = <<".", "/">> <=> in[1] = "." /\ in[2] = "/"
  <2>1. PICK p : p = SubSeq(in, 1, 2)
    OBVIOUS
  <2>2. p \in Seq(S) /\ Len(p) = 2 /\ \A i \in 1..2 : p[i] = in[i]
    BY <1>2, <2>1, FrontIs
  <2>3. p = <<".", "/">> <=> Len(p) = 2 /\ p[1] = "." /\ p[2] = "/"
    BY <2>2, TupleIs
  <2> QED
    BY <2>1, <2>2, <2>3
<1>3. ASSUME n >= 3
      PROVE  /\ SubSeq(in, 1, 3) = <<".", ".", "/">> <=> in[1] = "." /\ in[2] = "." /\ in[3] = "/"
             /\ SubSeq(in, 1, 3) = <<"/", ".", "/">> <=> in[1] = "/" /\ in[2] = "." /\ in[3] = "/"
  <2>1. PICK p : p = SubSeq(in, 1, 3)
    OBVIOUS
  <2>2. p \in Seq(S) /\ Len(p) = 3 /\ \A i \in 1..3 : p[i] = in[i]
    BY <1>3, <2>1, FrontIs
  <2>3. /\ p = <<".", ".", "/">> <=> Len(p) = 3 /\ p[1] = "." /\ p[2] = "." /\ p[3] = "/"
        /\ p = <<"/", ".", "/">> <=> Len(p) = 3 /\ p[1] = "/" /\ p[2] = "." /\ p[3] = "/"
    BY <2>2, TupleIs
  <2> QED
    BY <2>1, <2>2, <2>3
<1>4. ASSUME n >= 4
      PROVE  SubSeq(in, 1, 4) = <<"/", ".", ".", "/">> <=>
               in[1] = "/" /\ in[2] = "." /\ in[3] = "." /\ in[4] = "/"
  <2>1. PICK p : p = SubSeq(in, 1, 4)
    OBVIOUS
  <2>2. p \in Seq(S) /\ Len(p) = 4 /\ \A i \in 1..4 : p[i] = in[i]
    BY <1>4, <2>1, FrontIs
  <2>3. p = <<"/", ".", ".", "/">> <=>
          Len(p) = 4 /\ p[1] = "/" /\ p[2] = "." /\ p[3] = "." /\ p[4] = "/"
    BY <2>2, TupleIs
  <2> QED
    BY <2>1, <2>2, <2>3
<1>5. StandsAt(in, 1, <<".", "/">>) <=> n >= 2 /\ in[1] = "." /\ in[2] = "/"
  BY <1>1, <1>2 DEF StandsAt
<1>6. StandsAt(in, 1, <<".", ".", "/">>) <=> n >= 3 /\ in[1] = "." /\ in[2] = "." /\ in[3] = "/"
  BY <1>1, <1>3 DEF StandsAt
<1>7. StandsAt(in, 1, <<"/", ".", "/">>) <=> n >= 3 /\ in[1] = "/" /\ in[2] = "." /\ in[3] = "/"
  BY <1>1, <1>3 DEF StandsAt
<1>8. StandsAt(in, 1, <<"/", ".", ".", "/">>) <=>
         n >= 4 /\ in[1] = "/" /\ in[2] = "." /\ in[3] = "." /\ in[4] = "/"
  BY <1>1, <1>4 DEF StandsAt
<1> QED
  BY <1>5, <1>6, <1>7, <1>8, TupleIs

\* The first segment of an input ends at e.
FirstSegment(in, e) ==
  /\ e \in 1..Len(in) /\ in[1] = "/" /\ \A k \in 2..e : in[k] # "/"
  /\ e < Len(in) => in[e + 1] = "/"

\* What is left after the first segment, if it is dots and if it is not.
AfterDots(in, e) == IF e = Len(in) THEN <<"/">> ELSE SubSeq(in, e + 1, Len(in))
AfterName(in, e) == SubSeq(in, e + 1, Len(in))

\* What a turn does with the first segment.
Moves(in, out, e, segment, r) ==
  /\ segment = <<".">> => r.in = AfterDots(in, e) /\ r.out = out
  /\ segment = <<".", ".">> => r.in = AfterDots(in, e) /\ r.out = DropLastSegment(out)
  /\ segment \notin Dots => r.in = AfterName(in, e) /\ r.out = out \o SubSeq(in, 1, e)

\* A turn takes the first segment from an input that begins with a slash.
LEMMA TurnMoves ==
  ASSUME NEW in \in Seq(Tokens), NEW e, FirstSegment(in, e), NEW out,
         NEW b, b = [in |-> in, out |-> out], NEW r, r = NextSegment(b),
         NEW segment, segment = SubSeq(in, 2, e)
  PROVE  Moves(in, out, e, segment, r)
<1>1. PICK n \in Nat : n = Len(in)
  OBVIOUS
<1>2. /\ e \in 1..n /\ in[1] = "/" /\ \A k \in 2..e : in[k] # "/"
      /\ e < n => in[e + 1] = "/"
  BY <1>1 DEF FirstSegment
<1>3. FindFirst(in, 2, {"/"}) = IF e = n THEN 0 ELSE e + 1
  <2>1. PICK f : f = FindFirst(in, 2, {"/"})
    OBVIOUS
  <2>2. \/ f = 0 /\ \A k \in 2..n : in[k] \notin {"/"}
        \/ f \in 2..n /\ in[f] \in {"/"} /\ \A k \in 2..(f - 1) : in[k] \notin {"/"}
    BY <1>1, <2>1, FirstIs
  <2>3. CASE e = n
    BY <1>2, <2>1, <2>2, <2>3
  <2>4. CASE e < n
    <3>1. e + 1 \in 2..n /\ in[e + 1] = "/"
      BY <1>2, <2>4
    <3>2. f # 0
      BY <2>2, <3>1
    <3>3. f \in 2..n /\ in[f] = "/" /\ \A k \in 2..(f - 1) : in[k] # "/"
      BY <2>2, <3>2
    <3>4. ~(f < e + 1)
      BY <1>2, <3>3
    <3>5. ~(f > e + 1)
      BY <1>2, <3>1, <3>3
    <3> QED
      BY <1>2, <2>1, <2>4, <3>3, <3>4, <3>5
  <2> QED
    BY <1>2, <2>3, <2>4
<1>4. PICK end : end = (IF FindFirst(in, 2, {"/"}) = 0 THEN Len(in) ELSE FindFirst(in, 2, {"/"}) - 1) /\ end = e
  BY <1>1, <1>2, <1>3
<1>5. /\ segment \in Seq(Tokens) /\ Len(segment) = e - 1
      /\ \A i \in 1..(e - 1) : segment[i] = in[i + 1]
  BY <1>1, <1>2
<1>6. /\ segment = <<".">> <=> e = 2 /\ in[2] = "."
      /\ segment = <<".", ".">> <=> e = 3 /\ in[2] = "." /\ in[3] = "."
  <2>1. segment = <<".">> <=> Len(segment) = 1 /\ segment[1] = "."
    BY <1>5, TupleIs
  <2>2. segment = <<".", ".">> <=> Len(segment) = 2 /\ segment[1] = "." /\ segment[2] = "."
    BY <1>5, TupleIs
  <2> QED
    BY <1>2, <1>5, <2>1, <2>2
<1>7. /\ in # <<>> /\ in # <<".">> /\ in # <<".", ".">>
      /\ ~StandsAt(in, 1, <<".", "/">>) /\ ~StandsAt(in, 1, <<".", ".", "/">>)
  BY <1>1, <1>2, BeginsWith
<1>8. /\ StandsAt(in, 1, <<"/", ".", "/">>) <=> e = 2 /\ in[2] = "." /\ e < n
      /\ in = <<"/", ".">> <=> e = 2 /\ in[2] = "." /\ e = n
  <2>1. StandsAt(in, 1, <<"/", ".", "/">>) <=> n >= 3 /\ in[1] = "/" /\ in[2] = "." /\ in[3] = "/"
    BY <1>1, BeginsWith
  <2>2. in = <<"/", ".">> <=> n = 2 /\ in[1] = "/" /\ in[2] = "."
    BY <1>1, BeginsWith
  <2>3. ASSUME n >= 3, in[2] = ".", in[3] = "/" PROVE e = 2
    <3>1. ~(e >= 3)
      BY <1>2, <2>3
    <3>2. ~(e = 1)
      BY <1>2, <2>3
    <3> QED
      BY <1>2, <3>1, <3>2
  <2>4. ASSUME n = 2, in[2] = "." PROVE e = 2
    BY <1>2, <2>4
  <2> QED
    BY <1>2, <2>1, <2>2, <2>3, <2>4
<1>9. /\ StandsAt(in, 1, <<"/", ".", ".", "/">>) <=> e = 3 /\ in[2] = "." /\ in[3] = "." /\ e < n
      /\ in = <<"/", ".", ".">> <=> e = 3 /\ in[2] = "." /\ in[3] = "." /\ e = n
  <2>1. StandsAt(in, 1, <<"/", ".", ".", "/">>) <=>
          n >= 4 /\ in[1] = "/" /\ in[2] = "." /\ in[3] = "." /\ in[4] = "/"
    BY <1>1, BeginsWith
  <2>2. in = <<"/", ".", ".">> <=> n = 3 /\ in[1] = "/" /\ in[2] = "." /\ in[3] = "."
    BY <1>1, BeginsWith
  <2>3. ASSUME n >= 4, in[2] = ".", in[3] = ".", in[4] = "/" PROVE e = 3
    <3>1. ~(e >= 4)
      BY <1>2, <2>3
    <3>2. ~(e = 1) /\ ~(e = 2)
      BY <1>2, <2>3
    <3> QED
      BY <1>2, <3>1, <3>2
  <2>4. ASSUME n = 3, in[2] = ".", in[3] = "." PROVE e = 3
    BY <1>2, <2>4
  <2> QED
    BY <1>2, <2>1, <2>2, <2>3, <2>4
<1>10. b.in = in /\ b.out = out
  OBVIOUS
<1>11. CASE segment = <<".">>
  <2>5. e = 2 /\ in[2] = "."
    BY <1>6, <1>11, Zenon
  <2>1. e = 2 /\ e + 1 = 3 /\ in[2] = "."
    BY <2>5
  <2>4. segment # <<".", ".">> /\ segment \in Dots
    BY <1>6, <1>11, <2>1 DEF Dots
  <2>2. CASE e < n
    <3>1. r = [in |-> SubSeq(in, 3, Len(in)), out |-> out]
      BY <1>7, <1>8, <1>9, <1>10, <2>1, <2>2 DEF NextSegment
    <3> QED
      <4>2. e # Len(in)
        BY <1>1, <1>2, <2>2
      <4>3. AfterDots(in, e) = SubSeq(in, 3, Len(in))
        BY <2>1, <4>2, Zenon DEF AfterDots
      <4>1. AfterDots(in, e) = r.in
        BY <3>1, <4>3
      <4> QED
        BY <2>4, <3>1, <4>1 DEF Moves
  <2>3. CASE e = n
    <3>1. r = [in |-> <<"/">>, out |-> out]
      BY <1>7, <1>8, <1>9, <1>10, <2>1, <2>3 DEF NextSegment
    <3> QED
      <4>2. AfterDots(in, e) = <<"/">>
        BY <1>1, <2>3 DEF AfterDots
      <4>1. AfterDots(in, e) = r.in
        BY <3>1, <4>2
      <4> QED
        BY <2>4, <3>1, <4>1 DEF Moves
  <2> QED
    BY <1>2, <2>2, <2>3
<1>12. CASE segment = <<".", ".">>
  <2>5. e = 3 /\ in[2] = "." /\ in[3] = "."
    BY <1>6, <1>12, Zenon
  <2>1. e = 3 /\ e + 1 = 4 /\ in[2] = "." /\ in[3] = "."
    BY <2>5
  <2>4. segment # <<".">> /\ segment \in Dots
    BY <1>6, <1>12, <2>1 DEF Dots
  <2>2. CASE e < n
    <3>1. r = [in |-> SubSeq(in, 4, Len(in)), out |-> DropLastSegment(out)]
      BY <1>7, <1>8, <1>9, <1>10, <2>1, <2>2 DEF NextSegment
    <3> QED
      <4>2. e # Len(in)
        BY <1>1, <1>2, <2>2
      <4>3. AfterDots(in, e) = SubSeq(in, 4, Len(in))
        BY <2>1, <4>2, Zenon DEF AfterDots
      <4>1. AfterDots(in, e) = r.in
        BY <3>1, <4>3
      <4> QED
        BY <2>4, <3>1, <4>1 DEF Moves
  <2>3. CASE e = n
    <3>1. r = [in |-> <<"/">>, out |-> DropLastSegment(out)]
      BY <1>7, <1>8, <1>9, <1>10, <2>1, <2>3 DEF NextSegment
    <3> QED
      <4>2. AfterDots(in, e) = <<"/">>
        BY <1>1, <2>3 DEF AfterDots
      <4>1. AfterDots(in, e) = r.in
        BY <3>1, <4>2
      <4> QED
        BY <2>4, <3>1, <4>1 DEF Moves
  <2> QED
    BY <1>2, <2>2, <2>3
<1>13. CASE segment \notin Dots
  <2>1. segment # <<".">> /\ segment # <<".", ".">>
    BY <1>13 DEF Dots
  <2>2. /\ ~StandsAt(in, 1, <<"/", ".", "/">>) /\ in # <<"/", ".">>
        /\ ~StandsAt(in, 1, <<"/", ".", ".", "/">>) /\ in # <<"/", ".", ".">>
    BY <1>6, <1>8, <1>9, <2>1
  <2>3. r = [in |-> SubSeq(in, end + 1, Len(in)), out |-> out \o SubSeq(in, 1, end)]
    BY <1>4, <1>7, <1>10, <2>2 DEF NextSegment
  <2>4. r.in = AfterName(in, e) /\ r.out = out \o SubSeq(in, 1, e)
    <3>1. end + 1 = e + 1 /\ SubSeq(in, 1, end) = SubSeq(in, 1, e)
      BY <1>4
    <3>2. r.in = SubSeq(in, end + 1, Len(in)) /\ r.out = out \o SubSeq(in, 1, end)
      <4>1. PICK i, o : i = SubSeq(in, end + 1, Len(in)) /\ o = out \o SubSeq(in, 1, end)
        OBVIOUS
      <4>2. r = [in |-> i, out |-> o]
        BY <2>3, <4>1, Zenon
      <4>3. r.in = i /\ r.out = o
        BY <4>2
      <4> QED
        BY <4>1, <4>3
    <3> QED
      BY <3>1, <3>2 DEF AfterName
  <2> QED
    BY <2>1, <2>4 DEF Moves
<1> QED
  BY <1>11, <1>12, <1>13 DEF Dots

\* A segment more at the end of a concatenation.
LEMMA FlattenAppend ==
  ASSUME NEW S, NEW seqs \in Seq(Seq(S)), NEW x \in Seq(S), NEW t, t = Append(seqs, x)
  PROVE  FlattenSeq(t) = FlattenSeq(seqs) \o x
<1>1. PICK n \in Nat : n = Len(seqs)
  OBVIOUS
<1>2. /\ t \in Seq(Seq(S)) /\ Len(t) = n + 1 /\ t # <<>>
      /\ t[n + 1] = x /\ \A i \in 1..n : t[i] = seqs[i]
  BY <1>1
<1>3. PICK f : /\ \A i \in 1..Len(t) : f[i] \in Seq(S)
               /\ f[1] = t[1] /\ \A i \in 2..Len(t) : f[i] = f[i - 1] \o t[i]
               /\ FlattenSeq(t) = f[Len(t)]
  BY <1>2, FlattenSteps
<1>4. CASE n = 0
  <2>1. seqs = <<>> /\ Len(seqs) = 0
    BY <1>1, <1>4, EmptyQueue
  <2>2. FlattenSeq(seqs) = <<>>
    BY <2>1 DEF FlattenSeq
  <2>3. <<>> \o x = x
    OBVIOUS
  <2> QED
    BY <1>2, <1>3, <1>4, <2>2, <2>3
<1>5. CASE n > 0
  <2>1. seqs # <<>>
    BY <1>1, <1>5
  <2>2. PICK g : /\ \A i \in 1..Len(seqs) : g[i] \in Seq(S)
                 /\ g[1] = seqs[1] /\ \A i \in 2..Len(seqs) : g[i] = g[i - 1] \o seqs[i]
                 /\ FlattenSeq(seqs) = g[Len(seqs)]
    BY <2>1, FlattenSteps
  <2> DEFINE G == {k \in Nat : k + 1 <= n => f[k + 1] = g[k + 1]}
  <2>3. 0 \in G
    BY <1>1, <1>2, <1>3, <1>5, <2>2
  <2>4. ASSUME NEW k \in Nat, k \in G PROVE k + 1 \in G
    <3> SUFFICES ASSUME k + 2 <= n PROVE f[k + 2] = g[k + 2]
      BY <2>4
    <3>1. k + 2 \in 2..Len(t) /\ k + 2 \in 2..Len(seqs) /\ k + 2 \in 1..n /\ (k + 2) - 1 = k + 1 /\ k + 1 <= n
      BY <1>1, <1>2
    <3>2. f[k + 2] = f[k + 1] \o t[k + 2] /\ g[k + 2] = g[k + 1] \o seqs[k + 2]
      BY <1>3, <2>2, <3>1
    <3>3. f[k + 1] = g[k + 1] /\ t[k + 2] = seqs[k + 2]
      BY <1>2, <2>4, <3>1
    <3> QED
      BY <3>2, <3>3
  <2> HIDE DEF G
  <2>5. \A k \in Nat : k \in G
    BY <2>3, <2>4, SetInduction
  <2>6. n - 1 \in Nat /\ (n - 1) + 1 <= n /\ (n - 1) + 1 = n
    BY <1>5
  <2>7. f[n] = g[n]
    BY <2>5, <2>6 DEF G
  <2>8. n + 1 \in 2..Len(t) /\ (n + 1) - 1 = n
    BY <1>2, <1>5
  <2>9. f[n + 1] = f[n] \o x
    BY <1>2, <1>3, <2>8
  <2> QED
    BY <1>1, <1>2, <1>3, <2>2, <2>7, <2>9
<1> QED
  BY <1>4, <1>5

\* What segments consist of, those that are no dots, and what paths consist of.
Names == Tokens \ {"/", "?", "#"}
Proper == Seq(Names) \ Dots
PathTokens == Names \cup {"/"}

\* The path of no segments, and of one more.
LEMMA PathSteps ==
  ASSUME NEW s \in Seq(Seq(Names)), NEW e \in Seq(Names)
  PROVE  /\ Path(<<>>) = <<>>
         /\ Path(s) \in Seq(PathTokens) /\ Path(s) \in Seq(Tokens)
         /\ Path(Append(s, e)) = Path(s) \o (<<"/">> \o e)
<1>1. PICK n \in Nat : n = Len(s)
  OBVIOUS
<1>2. PICK seqs, t : /\ seqs = [i \in DOMAIN s |-> <<"/">> \o s[i]]
                     /\ t = [i \in DOMAIN Append(s, e) |-> <<"/">> \o Append(s, e)[i]]
  OBVIOUS
<1>3. PICK x : x = <<"/">> \o e
  OBVIOUS
<1>4. ASSUME NEW y \in Seq(Names) PROVE <<"/">> \o y \in Seq(PathTokens)
  <2>1. <<"/">> \in Seq(PathTokens) /\ y \in Seq(PathTokens)
    BY DEF PathTokens
  <2> QED
    BY <2>1
<1>5. seqs \in Seq(Seq(PathTokens)) /\ Len(seqs) = n /\ x \in Seq(PathTokens)
  BY <1>1, <1>2, <1>3, <1>4
<1>6. t = Append(seqs, x)
  <2>1. /\ DOMAIN Append(s, e) = 1..(n + 1) /\ Append(s, e)[n + 1] = e
        /\ \A i \in 1..n : Append(s, e)[i] = s[i]
    BY <1>1
  <2>2. /\ Len(Append(seqs, x)) = n + 1 /\ DOMAIN Append(seqs, x) = 1..(n + 1)
        /\ Append(seqs, x)[n + 1] = x /\ \A i \in 1..n : Append(seqs, x)[i] = seqs[i]
    BY <1>5
  <2>3. ASSUME NEW i \in 1..(n + 1) PROVE t[i] = Append(seqs, x)[i]
    <3>1. CASE i = n + 1
      BY <1>2, <1>3, <2>1, <2>2, <3>1
    <3>2. CASE i \in 1..n
      <4>1. i \in DOMAIN s
        BY <1>1, <3>2
      <4>2. t[i] = <<"/">> \o s[i] /\ seqs[i] = <<"/">> \o s[i]
        BY <1>2, <2>1, <3>2, <4>1
      <4> QED
        BY <2>2, <3>2, <4>2
    <3>3. i = n + 1 \/ i \in 1..n
      OBVIOUS
    <3> QED
      BY <3>1, <3>2, <3>3
  <2>4. t = [i \in 1..(n + 1) |-> t[i]]
    BY <1>2, <2>1
  <2>5. \A i \in 1..(n + 1) : Append(seqs, x)[i] \in Seq(PathTokens)
    BY <1>5, <2>2
  <2>6. \A i \in 1..(n + 1) : t[i] \in Seq(PathTokens)
    BY <2>3, <2>5
  <2>7. t \in Seq(Seq(PathTokens)) /\ Len(t) = n + 1
    <3>1. n + 1 \in Nat /\ t \in [1..(n + 1) -> Seq(PathTokens)]
      BY <2>4, <2>6
    <3> QED
      BY <3>1
  <2>8. Append(seqs, x) \in Seq(Seq(PathTokens))
    BY <1>5
  <2> QED
    BY <2>2, <2>3, <2>7, <2>8, SameSeq
<1>7. FlattenSeq(t) = FlattenSeq(seqs) \o x
  BY <1>5, <1>6, FlattenAppend
<1>8. Path(s) = FlattenSeq(seqs) /\ Path(Append(s, e)) = FlattenSeq(t)
  BY <1>2 DEF Path
<1>9. FlattenSeq(seqs) \in Seq(PathTokens)
  BY <1>5, FlattenType
<1>10. Path(<<>>) = <<>>
  <2>1. PICK z : z = [i \in DOMAIN <<>> |-> <<"/">> \o <<>>[i]]
    OBVIOUS
  <2>2. z = <<>>
    BY <2>1
  <2> QED
    BY <2>1, <2>2 DEF Path, FlattenSeq
<1>11. PathTokens \subseteq Tokens
  BY UrlAssumption DEF PathTokens, Names, Delimiters
<1> QED
  BY <1>3, <1>7, <1>8, <1>9, <1>10, <1>11

\* The last segment of the output is the one that was moved last.
LEMMA DropPath ==
  ASSUME NEW s \in Seq(Seq(Names)), NEW e \in Seq(Names)
  PROVE  DropLastSegment(Path(Append(s, e))) = Path(s) /\ DropLastSegment(<<>>) = <<>>
<1>1. PICK p \in Seq(Tokens) : p = Path(s)
  BY PathSteps
<1>2. PICK q : q = Path(Append(s, e))
  OBVIOUS
<1>3. PICK x : x = <<"/">> \o e
  OBVIOUS
<1>4. PICK m \in Nat, k \in Nat : m = Len(p) /\ k = Len(e)
  BY <1>1
<1>5. x \in Seq(Tokens) /\ Len(x) = k + 1 /\ x[1] = "/" /\ \A i \in 2..(k + 1) : x[i] # "/"
  <2>1. e \in Seq(Tokens) /\ \A i \in 1..k : e[i] # "/"
    BY <1>4 DEF Names
  <2>2. <<"/">> \in Seq(Tokens) /\ Len(<<"/">>) = 1
    BY UrlAssumption DEF Delimiters
  <2>3. /\ x \in Seq(Tokens) /\ Len(x) = k + 1 /\ x[1] = "/" /\ \A i \in 1..k : x[1 + i] = e[i]
    BY <1>3, <1>4, <2>1, <2>2, Concatenation
  <2>4. ASSUME NEW i \in 2..(k + 1) PROVE x[i] # "/"
    <3>1. i - 1 \in 1..k /\ 1 + (i - 1) = i
      OBVIOUS
    <3> QED
      BY <2>1, <2>3, <3>1
  <2> QED
    BY <2>3, <2>4
<1>6. q = p \o x
  BY <1>1, <1>2, <1>3, PathSteps
<1>7. q \in Seq(Tokens) /\ Len(q) = m + (k + 1)
  <2>1. q \in Seq(Tokens) /\ Len(q) = Len(p) + Len(x)
    BY <1>1, <1>5, <1>6, Concatenation
  <2> QED
    BY <1>4, <1>5, <2>1
<1>8. /\ \A i \in 1..m : q[i] = p[i]
      /\ \A i \in 1..(k + 1) : q[m + i] = x[i]
  BY <1>1, <1>4, <1>5, <1>6, Concatenation
<1>9. FindLast(q, "/") = m + 1
  <2>1. PICK f : f = FindLast(q, "/")
    OBVIOUS
  <2>2. \/ f = 0 /\ \A j \in 1..Len(q) : q[j] # "/"
        \/ f \in 1..Len(q) /\ q[f] = "/" /\ \A j \in (f + 1)..Len(q) : q[j] # "/"
    BY <1>7, <2>1, LastIs
  <2>3. q[m + 1] = "/" /\ m + 1 \in 1..Len(q)
    BY <1>5, <1>7, <1>8
  <2>4. f \in 1..Len(q) /\ q[f] = "/" /\ ~(f < m + 1)
    BY <2>2, <2>3
  <2>5. ~(f > m + 1)
    <3> SUFFICES ASSUME f > m + 1 PROVE FALSE
      OBVIOUS
    <3>1. f - m \in 2..(k + 1) /\ m + (f - m) = f /\ f - m \in 1..(k + 1)
      BY <1>7, <2>4
    <3> QED
      BY <1>5, <1>8, <2>4, <3>1, ZenonT(30)
  <2> QED
    BY <1>7, <2>1, <2>4, <2>5
<1>10. SubSeq(q, 1, m) = p
  <2>1. PICK r : r = SubSeq(q, 1, m)
    OBVIOUS
  <2>2. r \in Seq(Tokens) /\ Len(r) = m /\ \A i \in 1..m : r[i] = q[i]
    BY <1>7, <2>1, FrontIs
  <2>3. \A i \in 1..m : r[i] = p[i]
    BY <1>8, <2>2
  <2> QED
    BY <1>1, <1>4, <2>1, <2>2, <2>3, SameSeq
<1>11. DropLastSegment(q) = p
  <2>1. (m + 1) - 1 = m
    OBVIOUS
  <2> QED
    BY <1>9, <1>10, <2>1 DEF DropLastSegment
<1>12. DropLastSegment(<<>>) = <<>>
  <2>0. <<>> \in Seq(Tokens) /\ Len(<<>>) = 0
    OBVIOUS
  <2>1. PICK z \in Seq(Tokens) : z = <<>> /\ Len(z) = 0
    BY <2>0
  <2>3. PICK f : f = FindLast(z, "/")
    OBVIOUS
  <2>4. \/ f = 0 /\ \A j \in 1..Len(z) : z[j] # "/"
        \/ f \in 1..Len(z) /\ z[f] = "/" /\ \A j \in (f + 1)..Len(z) : z[j] # "/"
    BY <2>3, LastIs
  <2>2. FindLast(z, "/") = 0
    BY <2>1, <2>3, <2>4
  <2> QED
    BY <2>1, <2>2 DEF DropLastSegment
<1> QED
  BY <1>1, <1>2, <1>11, <1>12

\* The stack after one segment more.
Stacked(stack, e) ==
  IF e \notin Dots THEN Append(stack, e)
  ELSE IF e = <<".">> \/ stack = <<>> THEN stack ELSE Front(stack)

\* A walk over segments, segment by segment; what is on the stack is no dots.
LEMMA WalkSteps ==
  ASSUME NEW s \in Seq(Seq(Names))
  PROVE  \E w \in [0..Len(s) -> Seq(Proper)] :
           /\ w[0] = <<>> /\ \A i \in 1..Len(s) : w[i] = Stacked(w[i - 1], s[i])
           /\ Walk(s) = w[Len(s)]
<1>1. PICK n \in Nat : n = Len(s)
  OBVIOUS
<1>2. PICK T, g : /\ T = Seq(Proper)
                  /\ g = [x \in (1..n) \X T |-> Stacked(x[2], s[x[1]])]
  OBVIOUS
<1> DEFINE Steps(w) == w = [i \in 0..n |-> IF i = 0 THEN <<>>
                              ELSE IF s[i] \notin Dots THEN Append(w[i - 1], s[i])
                              ELSE IF s[i] = <<".">> \/ w[i - 1] = <<>> THEN w[i - 1]
                              ELSE Front(w[i - 1])]
<1>3. ASSUME NEW t \in T, NEW e \in Seq(Names) PROVE Stacked(t, e) \in T
  <2>1. CASE e \notin Dots
    <3>1. e \in Proper /\ Stacked(t, e) = Append(t, e)
      BY <2>1 DEF Stacked, Proper
    <3> QED
      BY <1>2, <3>1
  <2>2. CASE e \in Dots /\ (e = <<".">> \/ t = <<>>)
    BY <2>2 DEF Stacked
  <2>3. CASE e \in Dots /\ ~(e = <<".">> \/ t = <<>>)
    <3>1. Stacked(t, e) = SubSeq(t, 1, Len(t) - 1)
      BY <2>3 DEF Stacked, Front
    <3>2. t \in Seq(Proper) /\ Len(t) - 1 \in Nat
      BY <1>2, <2>3, EmptyQueue
    <3> QED
      BY <1>2, <3>1, <3>2
  <2> QED
    BY <2>1, <2>2, <2>3
<1>4. g \in [(1..n) \X T -> T]
  <2>1. \A i \in 1..n : s[i] \in Seq(Names)
    BY <1>1
  <2>2. ASSUME NEW x \in (1..n) \X T PROVE Stacked(x[2], s[x[1]]) \in T
    <3>1. x[1] \in 1..n /\ x[2] \in T
      OBVIOUS
    <3> QED
      BY <1>3, <2>1, <3>1
  <2> QED
    BY <1>2, <2>2
<1>5. <<>> \in T
  BY <1>2
<1>6. Recursed(n, T, <<>>, g)
  BY <1>4, <1>5, Recursion
<1>7. PICK f \in [0..n -> T] : f[0] = <<>> /\ \A i \in 1..n : f[i] = g[<<i, f[i - 1]>>]
  BY <1>6 DEF Recursed
<1>8. \A i \in 1..n : f[i] = Stacked(f[i - 1], s[i])
  <2>1. ASSUME NEW i \in 1..n PROVE f[i] = Stacked(f[i - 1], s[i])
    <3>1. f[i - 1] \in T
      BY <1>7
    <3>2. PICK x : x = <<i, f[i - 1]>>
      OBVIOUS
    <3>3. x \in (1..n) \X T /\ x[1] = i /\ x[2] = f[i - 1]
      BY <3>1, <3>2
    <3>4. g[x] = Stacked(x[2], s[x[1]])
      BY <1>2, <3>3
    <3> QED
      BY <1>7, <3>2, <3>3, <3>4
  <2> QED
    BY <2>1
<1>9. Steps(f)
  <2>1. ASSUME NEW i \in 0..n
        PROVE  f[i] = IF i = 0 THEN <<>> ELSE Stacked(f[i - 1], s[i])
    BY <1>7, <1>8
  <2>2. f = [i \in 0..n |-> IF i = 0 THEN <<>> ELSE Stacked(f[i - 1], s[i])]
    BY <1>7, <2>1
  <2> QED
    BY <2>2 DEF Stacked
<1>10. PICK w : Steps(w) /\ Walk(s) = w[n]
  <2>1. Walk(s) = (CHOOSE w : Steps(w))[n]
    BY <1>1 DEF Walk
  <2> HIDE DEF Steps
  <2> QED
    BY <1>9, <2>1
<1>11. w[0] = <<>> /\ \A i \in 1..n : w[i] = Stacked(w[i - 1], s[i])
  <2>1. w = [i \in 0..n |-> IF i = 0 THEN <<>> ELSE Stacked(w[i - 1], s[i])]
    BY <1>10 DEF Stacked
  <2> HIDE DEF Steps
  <2>2. \A i \in 0..n : w[i] = IF i = 0 THEN <<>> ELSE Stacked(w[i - 1], s[i])
    BY <2>1
  <2> QED
    BY <2>2
<1>12. w \in [0..n -> T]
  <2> DEFINE G == {k \in Nat : k <= n => w[k] \in T}
  <2>1. 0 \in G
    BY <1>5, <1>11
  <2>2. ASSUME NEW k \in Nat, k \in G PROVE k + 1 \in G
    <3> SUFFICES ASSUME k + 1 <= n PROVE w[k + 1] \in T
      OBVIOUS
    <3>1. k + 1 \in 1..n /\ (k + 1) - 1 = k /\ w[k] \in T
      BY <2>2
    <3>2. s[k + 1] \in Seq(Names) /\ w[k + 1] = Stacked(w[k], s[k + 1])
      BY <1>1, <1>11, <3>1
    <3> QED
      BY <1>3, <3>1, <3>2
  <2> HIDE DEF G
  <2>3. \A k \in Nat : k \in G
    BY <2>1, <2>2, SetInduction
  <2>4. \A k \in 0..n : w[k] \in T
    BY <2>3 DEF G
  <2>5. w = [i \in 0..n |-> w[i]]
    BY <1>10
  <2> HIDE DEF Steps
  <2> QED
    BY <2>4, <2>5
<1> QED
  BY <1>1, <1>2, <1>10, <1>11, <1>12

\* What is walked over once has no dots left, so that a second walk changes nothing.
LEMMA WalkProper ==
  ASSUME NEW s \in Seq(Proper)
  PROVE  Walk(s) = s /\ Resolved(s) = s
<1>1. PICK n \in Nat : n = Len(s)
  OBVIOUS
<1>2. s \in Seq(Seq(Names)) /\ \A i \in 1..n : s[i] \in Proper /\ s[i] \notin Dots
  BY <1>1 DEF Proper
<1>3. PICK w \in [0..Len(s) -> Seq(Proper)] :
        /\ w[0] = <<>> /\ \A i \in 1..Len(s) : w[i] = Stacked(w[i - 1], s[i])
        /\ Walk(s) = w[Len(s)]
  BY <1>2, WalkSteps
<1> DEFINE G == {k \in Nat : k <= n => w[k] = SubSeq(s, 1, k)}
<1>4. 0 \in G
  BY <1>3
<1>5. ASSUME NEW k \in Nat, k \in G PROVE k + 1 \in G
  <2> SUFFICES ASSUME k + 1 <= n PROVE w[k + 1] = SubSeq(s, 1, k + 1)
    OBVIOUS
  <2>1. k + 1 \in 1..n /\ (k + 1) - 1 = k /\ w[k] = SubSeq(s, 1, k)
    BY <1>5
  <2>2. w[k + 1] = Append(w[k], s[k + 1])
    BY <1>1, <1>2, <1>3, <2>1 DEF Stacked
  <2>3. Append(SubSeq(s, 1, (k + 1) - 1), s[k + 1]) = SubSeq(s, 1, k + 1)
    BY <1>1, <2>1, PrefixAppend
  <2> QED
    BY <2>1, <2>2, <2>3
<1> HIDE DEF G
<1>6. \A k \in Nat : k \in G
  BY <1>4, <1>5, SetInduction
<1>7. w[n] = SubSeq(s, 1, n)
  BY <1>6 DEF G
<1>8. SubSeq(s, 1, n) = s
  BY <1>1
<1>9. Walk(s) = s
  BY <1>1, <1>3, <1>7, <1>8
<1>10. s # <<>> => Last(s) \notin Dots
  <2>1. s # <<>> => n \in 1..n
    BY <1>1, EmptyQueue
  <2> QED
    BY <1>1, <1>2, <2>1 DEF Last
<1> QED
  BY <1>9, <1>10 DEF Resolved

\* Where segments lead is given by proper segments, and somewhere if there are any.
LEMMA ResolvedType ==
  ASSUME NEW s \in Seq(Seq(Names))
  PROVE  Resolved(s) \in Seq(Proper) /\ (s # <<>> => Resolved(s) # <<>>)
<1>1. PICK n \in Nat : n = Len(s)
  OBVIOUS
<1>2. PICK w \in [0..Len(s) -> Seq(Proper)] :
        /\ w[0] = <<>> /\ \A i \in 1..Len(s) : w[i] = Stacked(w[i - 1], s[i])
        /\ Walk(s) = w[Len(s)]
  BY WalkSteps
<1>3. Walk(s) \in Seq(Proper)
  BY <1>1, <1>2
<1>4. <<>> \in Proper
  <2>1. <<>> \in Seq(Names)
    OBVIOUS
  <2>2. <<>> # <<".">> /\ <<>> # <<".", ".">>
    OBVIOUS
  <2> QED
    BY <2>1, <2>2 DEF Proper, Dots
<1>5. CASE s # <<>> /\ Last(s) \in Dots
  <2>1. Resolved(s) = Append(Walk(s), <<>>)
    BY <1>5 DEF Resolved
  <2>2. PICK v \in Seq(Proper), e \in Proper : v = Walk(s) /\ e = <<>>
    BY <1>3, <1>4
  <2>3. Append(v, e) \in Seq(Proper) /\ Len(Append(v, e)) = Len(v) + 1
    OBVIOUS
  <2>4. Append(v, e) # <<>>
    <3>1. Len(Append(v, e)) # 0
      BY <2>3
    <3>2. Len(<<>>) = 0
      OBVIOUS
    <3> QED
      BY <3>1, <3>2, Zenon
  <2> QED
    BY <2>1, <2>2, <2>3, <2>4
<1>6. CASE s # <<>> /\ Last(s) \notin Dots
  <2>1. Resolved(s) = Walk(s)
    BY <1>6 DEF Resolved
  <2>2. n \in 1..n /\ n - 1 \in 0..n
    BY <1>1, <1>6, EmptyQueue
  <2>3. w[n - 1] \in Seq(Proper) /\ s[n] = Last(s)
    BY <1>1, <1>2, <2>2 DEF Last
  <2>4. Walk(s) = Append(w[n - 1], s[n])
    BY <1>1, <1>2, <1>6, <2>2, <2>3 DEF Stacked
  <2> QED
    BY <1>3, <2>1, <2>3, <2>4, SMTT(30)
<1>7. CASE s = <<>>
  BY <1>3, <1>7 DEF Resolved
<1> QED
  BY <1>5, <1>6, <1>7

\* The segments of a path: the n-th ends at position off[n].
IsSplit(path, s, off) ==
  /\ off \in [0..Len(s) -> 0..Len(path)] /\ off[0] = 0 /\ off[Len(s)] = Len(path)
  /\ \A n \in 1..Len(s) :
       /\ off[n - 1] < off[n] /\ path[off[n - 1] + 1] = "/"
       /\ s[n] = SubSeq(path, off[n - 1] + 2, off[n])
       /\ \A k \in (off[n - 1] + 2)..off[n] : path[k] # "/"

\* What is left of a path from a segment on that ends at position z of the path and at e here.
Rest(path, z, in, e, seg) ==
  /\ in \in Seq(Tokens) /\ FirstSegment(in, e)
  /\ SubSeq(in, 1, e) = <<"/">> \o seg /\ SubSeq(in, 2, e) = seg
  /\ SubSeq(in, e + 1, Len(in)) = SubSeq(path, z + 1, Len(path))

\* A segment of a path, from its slash at a + 1 to z.
SegmentIn(path, a, z) ==
  /\ a < z /\ z <= Len(path) /\ path[a + 1] = "/" /\ \A k \in (a + 2)..z : path[k] # "/"
  /\ z < Len(path) => path[z + 1] = "/"

\* It is what a turn finds.
LEMMA SegmentFound ==
  ASSUME NEW path \in Seq(Tokens), NEW a \in Nat, NEW z \in Nat, SegmentIn(path, a, z),
         NEW in, in = SubSeq(path, a + 1, Len(path))
  PROVE  Rest(path, z, in, z - a, SubSeq(path, a + 2, z)) /\ Len(in) = Len(path) - a
<1>1. PICK l \in Nat : l = Len(path)
  OBVIOUS
<1>2. /\ a < z /\ z <= l /\ path[a + 1] = "/" /\ \A k \in (a + 2)..z : path[k] # "/"
      /\ z < l => path[z + 1] = "/"
  BY <1>1 DEF SegmentIn
<1>3. PICK e \in Nat : e = z - a
  BY <1>2
<1>4. PICK seg : seg = SubSeq(path, a + 2, z)
  OBVIOUS
<1>5. in = SubSeq(path, a + 1, l)
  BY <1>1
<1> USE <1>1, <1>2, <1>3, <1>4, <1>5
<1>6. in \in Seq(Tokens) /\ Len(in) = l - a /\ \A i \in 1..(l - a) : in[i] = path[a + i]
  <2>1. a + 1 \in Nat \ {0} /\ a + 1 <= l + 1
    OBVIOUS
  <2>2. /\ in \in Seq(Tokens) /\ Len(in) = (l + 1) - (a + 1)
        /\ \A i \in 1..((l + 1) - (a + 1)) : in[i] = path[((a + 1) - 1) + i]
    <3>1. PICK m \in Nat \ {0} : m = a + 1 /\ m <= l + 1 /\ l <= Len(path)
      BY <2>1
    <3>2. in = SubSeq(path, m, l)
      BY <3>1
    <3>3. /\ in \in Seq(Tokens) /\ Len(in) = (l + 1) - m
          /\ \A i \in 1..((l + 1) - m) : in[i] = path[(m - 1) + i]
      BY <3>1, <3>2, PartIs
    <3> QED
      BY <3>1, <3>3
  <2>3. (l + 1) - (a + 1) = l - a /\ (a + 1) - 1 = a
    OBVIOUS
  <2> QED
    BY <2>2, <2>3
<1>7. e \in 1..(l - a) /\ e <= Len(in)
  BY <1>6
<1>8. FirstSegment(in, e)
  <2>1. in[1] = "/"
    BY <1>6, <1>7
  <2>2. ASSUME NEW k \in 2..e PROVE in[k] # "/"
    <3>1. k \in 1..(l - a) /\ a + k \in (a + 2)..z
      BY <1>7
    <3> QED
      BY <1>6, <3>1
  <2>3. ASSUME e < Len(in) PROVE in[e + 1] = "/"
    <3>1. e + 1 \in 1..(l - a) /\ a + (e + 1) = z + 1 /\ z < l
      BY <1>6, <1>7, <2>3
    <3> QED
      BY <1>6, <3>1
  <2> QED
    BY <1>6, <1>7, <2>1, <2>2, <2>3 DEF FirstSegment
<1>9. seg \in Seq(Tokens) /\ Len(seg) = e - 1 /\ \A i \in 1..(e - 1) : seg[i] = path[(a + 1) + i]
  <2>1. a + 2 \in Nat \ {0} /\ a + 2 <= z + 1 /\ z <= Len(path)
    OBVIOUS
  <2>2. /\ seg \in Seq(Tokens) /\ Len(seg) = (z + 1) - (a + 2)
        /\ \A i \in 1..((z + 1) - (a + 2)) : seg[i] = path[((a + 2) - 1) + i]
    <3>1. PICK m \in Nat \ {0} : m = a + 2 /\ m <= z + 1
      BY <2>1
    <3>2. seg = SubSeq(path, m, z)
      BY <3>1
    <3>3. /\ seg \in Seq(Tokens) /\ Len(seg) = (z + 1) - m
          /\ \A i \in 1..((z + 1) - m) : seg[i] = path[(m - 1) + i]
      BY <2>1, <3>1, <3>2, PartIs
    <3> QED
      BY <3>1, <3>3
  <2>3. (z + 1) - (a + 2) = e - 1 /\ (a + 2) - 1 = a + 1
    OBVIOUS
  <2> QED
    BY <2>2, <2>3
<1>10. SubSeq(in, 2, e) = seg
  <2>1. PICK t : t = SubSeq(in, 2, e)
    OBVIOUS
  <2>2. t \in Seq(Tokens) /\ Len(t) = (e + 1) - 2 /\ \A i \in 1..((e + 1) - 2) : t[i] = in[(2 - 1) + i]
    <3>1. 2 \in Nat \ {0} /\ 2 <= e + 1
      BY <1>7
    <3> QED
      BY <1>6, <1>7, <2>1, <3>1, PartIs
  <2>3. Len(t) = e - 1
    BY <1>7, <2>2
  <2>4. ASSUME NEW i \in 1..(e - 1) PROVE t[i] = seg[i]
    <3>1. i \in 1..((e + 1) - 2) /\ (2 - 1) + i = i + 1 /\ i + 1 \in 1..(l - a) /\ a + (i + 1) = (a + 1) + i
      BY <1>7
    <3> QED
      BY <1>6, <1>9, <2>2, <3>1
  <2> QED
    BY <1>9, <2>1, <2>2, <2>3, <2>4, SameSeq
<1>11. SubSeq(in, 1, e) = <<"/">> \o seg
  <2>1. PICK t : t = SubSeq(in, 1, e)
    OBVIOUS
  <2>2. t \in Seq(Tokens) /\ Len(t) = e /\ \A i \in 1..e : t[i] = in[i]
    BY <1>6, <1>7, <2>1, FrontIs
  <2>3. PICK u : u = <<"/">> \o seg
    OBVIOUS
  <2>4. <<"/">> \in Seq(Tokens) /\ Len(<<"/">>) = 1 /\ <<"/">>[1] = "/"
    BY UrlAssumption DEF Delimiters
  <2>5. u \in Seq(Tokens) /\ Len(u) = 1 + Len(seg) /\ u[1] = "/" /\ \A i \in 1..Len(seg) : u[1 + i] = seg[i]
    BY <1>9, <2>3, <2>4, Concatenation
  <2>6. ASSUME NEW i \in 1..e PROVE t[i] = u[i]
    <3>1. CASE i = 1
      BY <1>8, <2>2, <2>5, <3>1 DEF FirstSegment
    <3>2. CASE i # 1
      <4>1. i - 1 \in 1..(e - 1) /\ 1 + (i - 1) = i /\ (a + 1) + (i - 1) = a + i /\ i \in 1..(l - a)
        BY <1>7, <3>2
      <4>2. t[i] = in[i] /\ in[i] = path[a + i]
        BY <1>6, <2>2, <4>1
      <4>3. u[1 + (i - 1)] = seg[i - 1] /\ seg[i - 1] = path[(a + 1) + (i - 1)]
        BY <1>9, <2>5, <4>1
      <4> QED
        BY <4>1, <4>2, <4>3
    <3> QED
      BY <3>1, <3>2
  <2>7. Len(u) = e
    BY <1>7, <1>9, <2>5
  <2> QED
    BY <2>1, <2>2, <2>3, <2>5, <2>6, <2>7, SameSeq
<1>12. SubSeq(in, e + 1, Len(in)) = SubSeq(path, z + 1, l)
  <2>1. PICK k \in Nat : k = l - a /\ k = Len(in)
    <3>1. l - a \in Nat
      OBVIOUS
    <3> QED
      BY <1>6, <3>1
  <2>2. PICK t : t = SubSeq(in, e + 1, k)
    OBVIOUS
  <2>3. /\ t \in Seq(Tokens) /\ Len(t) = (k + 1) - (e + 1)
        /\ \A i \in 1..((k + 1) - (e + 1)) : t[i] = in[((e + 1) - 1) + i]
    <3>1. e + 1 \in Nat \ {0} /\ e + 1 <= k + 1 /\ k <= Len(in)
      BY <1>7, <2>1
    <3> QED
      BY <1>6, <2>2, <3>1, PartIs
  <2>4. PICK u : u = SubSeq(path, z + 1, l)
    OBVIOUS
  <2>5. /\ u \in Seq(Tokens) /\ Len(u) = (l + 1) - (z + 1)
        /\ \A i \in 1..((l + 1) - (z + 1)) : u[i] = path[((z + 1) - 1) + i]
    <3>1. PICK m \in Nat \ {0} : m = z + 1 /\ m <= l + 1 /\ l <= Len(path)
      OBVIOUS
    <3>2. u = SubSeq(path, m, l)
      BY <2>4, <3>1
    <3>3. /\ u \in Seq(Tokens) /\ Len(u) = (l + 1) - m
          /\ \A i \in 1..((l + 1) - m) : u[i] = path[(m - 1) + i]
      <4>1. m \in Nat \ {0} /\ m <= l + 1 /\ l <= Len(path) /\ l \in Nat /\ path \in Seq(Tokens)
        BY <3>1
      <4> HIDE <1>1, <1>2, <1>3, <1>4, <1>5
      <4> QED
        BY <3>2, <4>1, PartIs
    <3> QED
      BY <3>1, <3>3
  <2>6. (k + 1) - (e + 1) = l - z /\ (l + 1) - (z + 1) = l - z
    BY <2>1
  <2>7. ASSUME NEW i \in 1..(l - z) PROVE t[i] = u[i]
    <3>1. ((e + 1) - 1) + i = e + i /\ e + i \in 1..(l - a) /\ a + (e + i) = z + i /\ ((z + 1) - 1) + i = z + i
      BY <1>7
    <3>2. t[i] = in[e + i] /\ in[e + i] = path[a + (e + i)]
      BY <1>6, <2>3, <2>6, <3>1
    <3>3. u[i] = path[z + i]
      BY <2>5, <2>6, <3>1
    <3> QED
      BY <3>1, <3>2, <3>3
  <2>8. Len(t) = Len(u) /\ \A i \in 1..Len(t) : t[i] = u[i]
    BY <2>3, <2>5, <2>6, <2>7
  <2> QED
    BY <2>1, <2>2, <2>3, <2>4, <2>5, <2>8, SameSeq
<1> QED
  BY <1>6, <1>8, <1>10, <1>11, <1>12 DEF Rest

\* The n-th segment ends at z, the one before it at a.
EndsAt(off, n, a, z) == a = off[n - 1] /\ z = off[n]

\* What is left of a path behind position a.
IsRest(in, path, a) == in = SubSeq(path, a + 1, Len(path))

\* It begins with the n-th segment, which ends at z.
RestFrom(path, s, n, a, z, in) ==
  Rest(path, z, in, z - a, s[n]) /\ a < z /\ (z - a = Len(in) <=> n = Len(s))

\* What is left of a path from its n-th segment on begins with it.
LEMMA SplitRest ==
  ASSUME NEW path \in Seq(Tokens), NEW s \in Seq(Seq(Names)), NEW off, IsSplit(path, s, off),
         NEW n \in 1..Len(s), NEW a \in Nat, NEW z \in Nat, EndsAt(off, n, a, z),
         NEW in, IsRest(in, path, a)
  PROVE  RestFrom(path, s, n, a, z, in)
<1>1. PICK m \in Nat, l \in Nat : m = Len(s) /\ l = Len(path)
  OBVIOUS
<1>2. n - 1 \in 0..m /\ n \in 0..m /\ n \in 1..m
  BY <1>1
<1>3. off \in [0..m -> 0..l]
  BY <1>1 DEF IsSplit
<1>4. a <= l /\ z <= l
  BY <1>2, <1>3 DEF EndsAt
<1>5. /\ a < z /\ path[a + 1] = "/" /\ s[n] = SubSeq(path, a + 2, z)
      /\ \A k \in (a + 2)..z : path[k] # "/"
  BY <1>1 DEF IsSplit, EndsAt
<1>6. z = l <=> n = m
  <2>1. off[m] = l
    BY <1>1 DEF IsSplit
  <2>2. ASSUME n # m PROVE z < l
    <3>1. n + 1 \in 1..m /\ (n + 1) - 1 = n /\ n + 1 \in 0..m
      BY <1>2, <2>2
    <3>2. off[n] < off[n + 1] /\ off[n + 1] \in 0..l
      BY <1>1, <1>3, <3>1 DEF IsSplit
    <3> QED
      BY <3>2 DEF EndsAt
  <2> QED
    BY <2>1, <2>2 DEF EndsAt
<1>7. z < l => path[z + 1] = "/"
  <2> SUFFICES ASSUME z < l PROVE path[z + 1] = "/"
    OBVIOUS
  <2>1. n + 1 \in 1..m /\ (n + 1) - 1 = n
    BY <1>2, <1>6
  <2> QED
    BY <1>1, <2>1 DEF IsSplit, EndsAt
<1>8. SegmentIn(path, a, z)
  BY <1>1, <1>4, <1>5, <1>7 DEF SegmentIn
<1>9. Rest(path, z, in, z - a, SubSeq(path, a + 2, z)) /\ Len(in) = Len(path) - a
  BY <1>8, SegmentFound DEF IsRest
<1>10. z - a = Len(in) <=> n = Len(s)
  BY <1>1, <1>6, <1>9
<1> QED
  BY <1>5, <1>9, <1>10 DEF RestFrom

\* A stack that is not empty is its front and its last element.
LEMMA FrontAndLast ==
  ASSUME NEW S, NEW s \in Seq(S), s # <<>>
  PROVE  Front(s) \in Seq(S) /\ Last(s) \in S /\ s = Append(Front(s), Last(s))
<1>1. PICK n \in Nat : n = Len(s) /\ n \in 1..Len(s)
  BY EmptyQueue
<1>2. PICK p : p = SubSeq(s, 1, n - 1)
  OBVIOUS
<1>3. p \in Seq(S)
  BY <1>1, <1>2
<1>4. Append(p, s[n]) = SubSeq(s, 1, n)
  BY <1>1, <1>2, PrefixAppend
<1>5. SubSeq(s, 1, n) = s /\ s[n] \in S
  BY <1>1
<1> QED
  BY <1>1, <1>2, <1>3, <1>4, <1>5 DEF Front, Last

\* A segment has the same effect on the stack as on the path that stands for it.
LEMMA StackedPath ==
  ASSUME NEW stack \in Seq(Proper), NEW e \in Seq(Names)
  PROVE  /\ Path(stack) \in Seq(Tokens)
         /\ e = <<".">> => Path(Stacked(stack, e)) = Path(stack)
         /\ e = <<".", ".">> => Path(Stacked(stack, e)) = DropLastSegment(Path(stack))
         /\ e \notin Dots => Path(Stacked(stack, e)) = Path(stack) \o (<<"/">> \o e)
<1>1. stack \in Seq(Seq(Names))
  BY DEF Proper
<1>2. Path(stack) \in Seq(Tokens) /\ Path(<<>>) = <<>>
  BY <1>1, PathSteps
<1>3. CASE e = <<".">>
  <2>1. e \in Dots /\ e # <<".", ".">>
    BY <1>3 DEF Dots
  <2>2. Stacked(stack, e) = stack
    BY <1>3, <2>1 DEF Stacked
  <2> QED
    BY <1>2, <2>1, <2>2
<1>4. CASE e = <<".", ".">>
  <2>1. e \in Dots /\ e # <<".">>
    BY <1>4 DEF Dots
  <2>2. CASE stack = <<>>
    <3>1. Stacked(stack, e) = stack
      BY <2>1, <2>2 DEF Stacked
    <3>2. DropLastSegment(<<>>) = <<>>
      BY <1>1, DropPath
    <3> QED
      BY <1>2, <2>1, <2>2, <3>1, <3>2
  <2>3. CASE stack # <<>>
    <3>1. Stacked(stack, e) = Front(stack)
      BY <2>1, <2>3 DEF Stacked
    <3>2. PICK p \in Seq(Seq(Names)), x \in Seq(Names) : p = Front(stack) /\ x = Last(stack) /\ stack = Append(p, x)
      BY <1>1, <2>3, FrontAndLast
    <3>3. DropLastSegment(Path(Append(p, x))) = Path(p)
      BY DropPath
    <3> QED
      BY <1>2, <2>1, <3>1, <3>2, <3>3
  <2> QED
    BY <2>2, <2>3
<1>5. CASE e \notin Dots
  <2>1. e # <<".">> /\ e # <<".", ".">>
    BY <1>5 DEF Dots
  <2>2. Stacked(stack, e) = Append(stack, e)
    BY <1>5 DEF Stacked
  <2>3. Path(Append(stack, e)) = Path(stack) \o (<<"/">> \o e)
    BY <1>1, PathSteps
  <2> QED
    BY <1>2, <2>1, <2>2, <2>3
<1> QED
  BY <1>3, <1>4, <1>5 DEF Dots

\* A turn of the loop is a step of the walk.
LEMMA TurnWalks ==
  ASSUME NEW path, NEW z, NEW in, NEW e, NEW seg \in Seq(Names), Rest(path, z, in, e, seg),
         NEW stack \in Seq(Proper), NEW b, b = [in |-> in, out |-> Path(stack)], NEW r, r = NextSegment(b)
  PROVE  /\ r.out = Path(Stacked(stack, seg))
         /\ r.in = IF seg \in Dots THEN AfterDots(in, e) ELSE AfterName(in, e)
<1>1. /\ in \in Seq(Tokens) /\ FirstSegment(in, e)
      /\ SubSeq(in, 1, e) = <<"/">> \o seg /\ seg = SubSeq(in, 2, e)
  BY DEF Rest
<1>2. PICK out \in Seq(Tokens) : out = Path(stack)
  BY StackedPath
<1>3. Moves(in, out, e, seg, r)
  BY <1>1, <1>2, TurnMoves
<1>4. CASE seg = <<".">>
  <2>1. r.in = AfterDots(in, e) /\ r.out = out
    BY <1>3, <1>4 DEF Moves
  <2>2. Path(Stacked(stack, seg)) = Path(stack)
    BY <1>4, StackedPath
  <2>3. seg \in Dots
    BY <1>4 DEF Dots
  <2> QED
    BY <1>2, <2>1, <2>2, <2>3
<1>5. CASE seg = <<".", ".">>
  <2>1. r.in = AfterDots(in, e) /\ r.out = DropLastSegment(out)
    BY <1>3, <1>5 DEF Moves
  <2>2. Path(Stacked(stack, seg)) = DropLastSegment(Path(stack))
    BY <1>5, StackedPath
  <2>3. seg \in Dots
    BY <1>5 DEF Dots
  <2> QED
    BY <1>2, <2>1, <2>2, <2>3
<1>6. CASE seg \notin Dots
  <2>1. r.in = AfterName(in, e) /\ r.out = out \o SubSeq(in, 1, e)
    BY <1>3, <1>6 DEF Moves
  <2>2. Path(Stacked(stack, seg)) = Path(stack) \o (<<"/">> \o seg)
    BY <1>6, StackedPath
  <2> QED
    BY <1>1, <1>2, <1>6, <2>1, <2>2
<1> QED
  BY <1>4, <1>5, <1>6 DEF Dots

\* What the loop does with dots at the end: a slash is left, which it moves.
LEMMA LastSlash ==
  ASSUME NEW stack \in Seq(Proper), NEW b, b = [in |-> <<"/">>, out |-> Path(stack)]
  PROVE  NextSegment(b).in = <<>> /\ NextSegment(b).out = Path(Append(stack, <<>>))
<1>1. PICK in : in = <<"/">>
  OBVIOUS
<1>2. in \in Seq(Tokens) /\ Len(in) = 1 /\ in[1] = "/"
  BY <1>1, UrlAssumption DEF Delimiters
<1>3. FirstSegment(in, 1)
  BY <1>2 DEF FirstSegment
<1>4. PICK seg : seg = SubSeq(in, 2, 1)
  OBVIOUS
<1>5. seg = <<>> /\ seg \notin Dots
  <2>1. seg = <<>>
    BY <1>2, <1>4
  <2>2. <<>> # <<".">> /\ <<>> # <<".", ".">>
    OBVIOUS
  <2> QED
    BY <2>1, <2>2 DEF Dots
<1>6. PICK out \in Seq(Tokens) : out = Path(stack)
  <2>1. <<>> \in Seq(Names)
    OBVIOUS
  <2> QED
    BY <2>1, StackedPath
<1>7. PICK r : r = NextSegment(b)
  OBVIOUS
<1>8. b = [in |-> in, out |-> out]
  BY <1>1, <1>6
<1>9. Moves(in, out, 1, seg, r)
  BY <1>2, <1>3, <1>4, <1>7, <1>8, TurnMoves
<1>10. r.in = SubSeq(in, 1 + 1, Len(in)) /\ r.out = out \o SubSeq(in, 1, 1)
  BY <1>5, <1>9 DEF Moves, AfterName
<1>11. SubSeq(in, 1 + 1, Len(in)) = <<>> /\ SubSeq(in, 1, 1) = <<"/">>
  <2>1. 1 + 1 = 2 /\ SubSeq(in, 2, 1) = <<>>
    BY <1>4, <1>5
  <2>2. SubSeq(in, 1, Len(in)) = in
    BY <1>2
  <2> QED
    BY <1>1, <1>2, <2>1, <2>2
<1>12. Path(Append(stack, <<>>)) = Path(stack) \o <<"/">>
  <2>1. stack \in Seq(Seq(Names)) /\ <<>> \in Seq(Names)
    BY DEF Proper
  <2>2. Path(Append(stack, <<>>)) = Path(stack) \o (<<"/">> \o <<>>)
    BY <2>1, PathSteps
  <2>3. <<"/">> \o <<>> = <<"/">>
    BY <1>1, <1>2
  <2> QED
    BY <2>2, <2>3
<1> QED
  BY <1>6, <1>7, <1>10, <1>11, <1>12

\* An input that is used up stays so.
LEMMA NothingLeft ==
  ASSUME NEW in \in Seq(Tokens), Len(in) = 0, NEW b, b.in = in
  PROVE  NextSegment(b) = b
<1>1. PICK n \in Nat : n = Len(in) /\ n < 1
  OBVIOUS
<1>2. /\ ~StandsAt(in, 1, <<".", "/">>) /\ ~StandsAt(in, 1, <<".", ".", "/">>)
      /\ ~StandsAt(in, 1, <<"/", ".", "/">>) /\ ~StandsAt(in, 1, <<"/", ".", ".", "/">>)
      /\ in # <<"/", ".">> /\ in # <<"/", ".", ".">> /\ in # <<".">> /\ in # <<".", ".">>
  <2>1. PICK S : S = Tokens /\ in \in Seq(S)
    OBVIOUS
  <2> HIDE <1>1
  <2>2. ~(Len(in) >= 2) /\ ~(Len(in) >= 3) /\ ~(Len(in) >= 4) /\ Len(in) # 1 /\ Len(in) # 2 /\ Len(in) # 3
    BY <1>1
  <2>3. ~StandsAt(in, 1, <<".", "/">>)
    BY <2>1, <2>2, BeginsWith
  <2>4. ~StandsAt(in, 1, <<".", ".", "/">>)
    BY <2>1, <2>2, BeginsWith
  <2>5. ~StandsAt(in, 1, <<"/", ".", "/">>)
    BY <2>1, <2>2, BeginsWith
  <2>6. ~StandsAt(in, 1, <<"/", ".", ".", "/">>)
    BY <2>1, <2>2, BeginsWith
  <2>7. in # <<"/", ".">> /\ in # <<"/", ".", ".">> /\ in # <<".">> /\ in # <<".", ".">>
    BY <2>1, <2>2, BeginsWith
  <2> QED
    BY <2>3, <2>4, <2>5, <2>6, <2>7
<1>3. in = <<>>
  BY TupleIs
<1> QED
  BY <1>2, <1>3 DEF NextSegment

\* The state of the loop after n segments.
AfterSegments(f, path, off, w, n) ==
  f[n].in = SubSeq(path, off[n] + 1, Len(path)) /\ f[n].out = Path(w[n])

\* The loop walks over the segments of the path, one in a turn.
LEMMA LoopWalks ==
  ASSUME NEW path \in Seq(Tokens), NEW s \in Seq(Seq(Names)), NEW off, IsSplit(path, s, off), s # <<>>
  PROVE  RemoveDotSegments(path) = Path(Resolved(s))
<1>1. PICK m \in Nat, l \in Nat : m = Len(s) /\ l = Len(path) /\ m # 0
  BY EmptyQueue
<1>2. PICK f \in [Nat -> Buffers] :
        /\ f[0] = [in |-> path, out |-> <<>>] /\ \A n \in Nat : f[n + 1] = NextSegment(f[n])
        /\ RemoveDotSegments(path) = f[l].out
  BY <1>1, LoopTurns
<1>3. PICK w \in [0..m -> Seq(Proper)] :
        /\ w[0] = <<>> /\ \A i \in 1..m : w[i] = Stacked(w[i - 1], s[i])
        /\ Walk(s) = w[m]
  BY <1>1, WalkSteps
<1>4. /\ off \in [0..m -> 0..l] /\ off[0] = 0 /\ off[m] = l
      /\ \A n \in 1..m : off[n - 1] < off[n] /\ s[n] \in Seq(Names)
  BY <1>1 DEF IsSplit
<1>5. ASSUME NEW n \in Nat PROVE f[n] = [in |-> f[n].in, out |-> f[n].out]
  BY <1>2 DEF Buffers
<1>6. ASSUME NEW n \in 1..m, AfterSegments(f, path, off, w, n - 1), NEW r, r = f[n]
      PROVE  /\ r.out = Path(w[n])
             /\ n < m => r.in = SubSeq(path, off[n] + 1, Len(path))
             /\ n = m /\ s[n] \in Dots => r.in = <<"/">>
             /\ n = m /\ s[n] \notin Dots => r.in = <<>>
  <2>1. PICK k \in 0..m : k = n - 1 /\ n = k + 1
    OBVIOUS
  <2>2. PICK a \in Nat, z \in Nat : a = off[k] /\ z = off[n] /\ a <= l /\ z <= l
    <3>1. off[k] \in 0..l /\ off[n] \in 0..l
      <4>1. k \in 0..m /\ n \in 0..m
        BY <1>6
      <4> QED
        BY <1>4, <4>1
    <3> QED
      BY <3>1
  <2>3. PICK in : IsRest(in, path, a) /\ f[k].in = in
    BY <1>6, <2>1, <2>2 DEF AfterSegments, IsRest
  <2>4. PICK e : e = z - a
    OBVIOUS
  <2>5. EndsAt(off, n, a, z)
    BY <2>1, <2>2 DEF EndsAt
  <2>6. n \in 1..Len(s)
    BY <1>1
  <2>7. Rest(path, z, in, e, s[n]) /\ (e = Len(in) <=> n = Len(s))
    <3>1. RestFrom(path, s, n, a, z, in)
      BY <2>3, <2>5, <2>6, SplitRest
    <3> QED
      BY <2>4, <3>1 DEF RestFrom
  <2>8. PICK stack \in Seq(Proper), seg \in Seq(Names) : stack = w[k] /\ seg = s[n]
    BY <1>3, <1>4, <2>1
  <2>9. PICK b : b = f[k] /\ b = [in |-> in, out |-> Path(stack)]
    <3>1. f[k].out = Path(stack) /\ k \in Nat
      BY <1>6, <2>1, <2>8 DEF AfterSegments
    <3> QED
      BY <1>5, <2>3, <3>1
  <2>10. r = NextSegment(b)
    BY <1>2, <1>6, <2>1, <2>9
  <2>11. Rest(path, z, in, e, seg)
    BY <2>7, <2>8
  <2>12. /\ r.out = Path(Stacked(stack, seg))
         /\ r.in = IF seg \in Dots THEN AfterDots(in, e) ELSE AfterName(in, e)
    BY <2>9, <2>10, <2>11, TurnWalks
  <2>13. w[n] = Stacked(stack, seg)
    BY <1>3, <2>1, <2>8
  <2>14. SubSeq(in, e + 1, Len(in)) = SubSeq(path, z + 1, Len(path))
    BY <2>11 DEF Rest
  <2>15. CASE n < m
    <3>1. e # Len(in)
      BY <1>1, <2>7, <2>15
    <3>2. r.in = SubSeq(in, e + 1, Len(in))
      BY <2>12, <3>1 DEF AfterDots, AfterName
    <3> QED
      <4>1. n # m /\ r.out = Path(w[n]) /\ r.in = SubSeq(path, off[n] + 1, Len(path))
        <5>1. n # m
          BY <2>15
        <5>2. r.out = Path(w[n])
          BY <2>12, <2>13
        <5>3. SubSeq(in, e + 1, Len(in)) = SubSeq(path, off[n] + 1, Len(path))
          BY <2>2, <2>14
        <5> QED
          BY <3>2, <5>1, <5>2, <5>3
      <4> QED
        BY <4>1
  <2>16. CASE n = m
    <3>1. e = Len(in) /\ z = l
      BY <1>1, <1>4, <2>2, <2>7, <2>16
    <3>2. SubSeq(path, z + 1, Len(path)) = <<>>
      BY <1>1, <3>1
    <3>3. seg \in Dots => r.in = <<"/">>
      BY <2>12, <3>1 DEF AfterDots
    <3>4. seg \notin Dots => r.in = <<>>
      BY <2>12, <2>14, <3>2 DEF AfterName
    <3> QED
      BY <2>8, <2>12, <2>13, <2>16, <3>3, <3>4
  <2> QED
    BY <1>6, <2>15, <2>16
<1>7. AfterSegments(f, path, off, w, m - 1)
  <2> DEFINE G == {n \in Nat : n < m => AfterSegments(f, path, off, w, n)}
  <2>1. 0 \in G
    <3>1. f[0].in = path /\ f[0].out = <<>>
      BY <1>2
    <3>2. SubSeq(path, off[0] + 1, Len(path)) = path
      BY <1>4
    <3>3. Path(w[0]) = <<>>
      <4>1. <<>> \in Seq(Seq(Names)) /\ <<>> \in Seq(Names)
        OBVIOUS
      <4> QED
        BY <1>3, <4>1, PathSteps
    <3> QED
      BY <3>1, <3>2, <3>3 DEF AfterSegments
  <2>2. ASSUME NEW n \in Nat, n \in G PROVE n + 1 \in G
    <3> SUFFICES ASSUME n + 1 < m PROVE AfterSegments(f, path, off, w, n + 1)
      OBVIOUS
    <3>1. PICK k \in 1..m : k = n + 1 /\ k - 1 = n /\ k < m
      OBVIOUS
    <3>2. AfterSegments(f, path, off, w, k - 1)
      BY <2>2, <3>1
    <3>3. f[k].out = Path(w[k]) /\ f[k].in = SubSeq(path, off[k] + 1, Len(path))
      BY <1>6, <3>1, <3>2
    <3> QED
      BY <3>1, <3>3 DEF AfterSegments
  <2> HIDE DEF G
  <2>3. \A n \in Nat : n \in G
    BY <2>1, <2>2, SetInduction
  <2>4. m - 1 \in Nat /\ m - 1 < m
    BY <1>1
  <2> QED
    BY <2>3, <2>4 DEF G
<1>8. /\ f[m].out = Path(w[m])
      /\ s[m] \in Dots => f[m].in = <<"/">>
      /\ s[m] \notin Dots => f[m].in = <<>>
  <2>1. m \in 1..m /\ m = m
    BY <1>1
  <2>2. PICK r : r = f[m]
    OBVIOUS
  <2>3. /\ r.out = Path(w[m])
        /\ m = m /\ s[m] \in Dots => r.in = <<"/">>
        /\ m = m /\ s[m] \notin Dots => r.in = <<>>
    BY <1>6, <1>7, <2>1, <2>2
  <2> QED
    BY <2>2, <2>3
<1>9. ASSUME NEW n \in Nat, f[n].in = <<>>, n <= l PROVE f[l].out = f[n].out
  <2> DEFINE G == {k \in Nat : f[n + k] = f[n]}
  <2>1. 0 \in G
    OBVIOUS
  <2>2. ASSUME NEW k \in Nat, k \in G PROVE k + 1 \in G
    <3>1. n + k \in Nat /\ n + (k + 1) = (n + k) + 1 /\ f[n + k] = f[n]
      BY <2>2
    <3>2. f[n + (k + 1)] = NextSegment(f[n])
      BY <1>2, <3>1
    <3>3. PICK b : b = f[n] /\ b.in = <<>>
      BY <1>9
    <3>4. NextSegment(b) = b
      <4>1. <<>> \in Seq(Tokens) /\ Len(<<>>) = 0
        OBVIOUS
      <4>2. PICK x \in Seq(Tokens) : x = <<>> /\ Len(x) = 0
        BY <4>1
      <4>3. b.in = x
        BY <3>3, <4>2
      <4> QED
        BY <4>2, <4>3, NothingLeft
    <3> QED
      BY <3>2, <3>3, <3>4
  <2> HIDE DEF G
  <2>3. \A k \in Nat : k \in G
    BY <2>1, <2>2, SetInduction
  <2>4. l - n \in Nat /\ n + (l - n) = l
    BY <1>9
  <2> QED
    BY <2>3, <2>4 DEF G
<1>10. \A n \in 0..m : n <= off[n]
  <2> DEFINE G == {n \in Nat : n <= m => n <= off[n]}
  <2>1. 0 \in G
    BY <1>4
  <2>2. ASSUME NEW n \in Nat, n \in G PROVE n + 1 \in G
    <3> SUFFICES ASSUME n + 1 <= m PROVE n + 1 <= off[n + 1]
      OBVIOUS
    <3>1. n \in 0..m /\ n + 1 \in 0..m /\ n + 1 \in 1..m /\ (n + 1) - 1 = n /\ n <= off[n]
      BY <2>2
    <3>2. off[n] \in 0..l /\ off[n + 1] \in 0..l /\ off[n] < off[n + 1]
      BY <1>4, <3>1
    <3> QED
      BY <3>1, <3>2
  <2> HIDE DEF G
  <2>3. \A n \in Nat : n \in G
    BY <2>1, <2>2, SetInduction
  <2> QED
    BY <2>3 DEF G
<1>11. m <= l /\ (s[m] \in Dots => m + 1 <= l)
  <2>1. m <= l
    BY <1>1, <1>4, <1>10
  <2>2. ASSUME s[m] \in Dots PROVE m + 1 <= l
    <3>1. m \in 1..m /\ m - 1 \in 0..m
      BY <1>1
    <3>2. PICK a \in Nat : a = off[m - 1] /\ m - 1 <= a /\ a < l
      BY <1>4, <1>10, <3>1
    <3>3. s[m] = SubSeq(path, a + 2, l)
      BY <1>1, <1>4, <3>1, <3>2 DEF IsSplit
    <3>4. Len(s[m]) >= 1
      <4>1. Len(<<".">>) = 1 /\ Len(<<".", ".">>) = 2
        OBVIOUS
      <4>2. s[m] = <<".">> \/ s[m] = <<".", ".">>
        BY <2>2 DEF Dots
      <4>3. CASE s[m] = <<".">>
        BY <4>1, <4>3
      <4>4. CASE s[m] = <<".", ".">>
        BY <4>1, <4>4
      <4> QED
        BY <4>2, <4>3, <4>4
    <3>5. CASE a + 1 = l
      <4>1. SubSeq(path, a + 2, l) = <<>>
        BY <1>1, <3>5
      <4>2. Len(<<>>) = 0
        OBVIOUS
      <4>3. Len(s[m]) = 0
        BY <3>3, <4>1, <4>2
      <4> QED
        BY <3>4, <4>3
    <3> QED
      BY <3>2, <3>5
  <2> QED
    BY <2>1, <2>2
<1>12. Last(s) = s[m]
  BY <1>1 DEF Last
<1>13. CASE s[m] \notin Dots
  <2>1. f[l].out = f[m].out
    BY <1>8, <1>9, <1>11, <1>13
  <2>2. Resolved(s) = w[m]
    BY <1>3, <1>12, <1>13 DEF Resolved
  <2> QED
    BY <1>2, <1>8, <2>1, <2>2
<1>14. CASE s[m] \in Dots
  <2>1. PICK stack \in Seq(Proper) : stack = w[m]
    BY <1>1, <1>3
  <2>2. PICK b : b = f[m] /\ b = [in |-> <<"/">>, out |-> Path(stack)]
    BY <1>5, <1>8, <1>14, <2>1
  <2>3. NextSegment(b).in = <<>> /\ NextSegment(b).out = Path(Append(stack, <<>>))
    BY <2>2, LastSlash
  <2>4. f[m + 1].in = <<>> /\ f[m + 1].out = Path(Append(stack, <<>>))
    BY <1>2, <2>2, <2>3
  <2>5. f[l].out = f[m + 1].out
    <3>1. m + 1 \in Nat /\ m + 1 <= l
      BY <1>11, <1>14
    <3> QED
      BY <1>9, <2>4, <3>1
  <2>6. Resolved(s) = Append(stack, <<>>)
    BY <1>3, <1>12, <1>14, <2>1 DEF Resolved
  <2> QED
    BY <1>2, <2>4, <2>5, <2>6
<1> QED
  BY <1>13, <1>14

\* A segment e of a path, from its slash at a + 1 to z.
Segment(path, a, z, e) ==
  /\ a < z /\ path[a + 1] = "/" /\ e = SubSeq(path, a + 2, z)
  /\ \A k \in (a + 2)..z : path[k] # "/"

\* A segment stays one when the path grows at its end.
LEMMA SegmentStays ==
  ASSUME NEW p \in Seq(Tokens), NEW q \in Seq(Tokens), Len(p) <= Len(q), \A i \in 1..Len(p) : q[i] = p[i],
         NEW a \in Nat, NEW z \in Nat, z <= Len(p), NEW e, Segment(p, a, z, e)
  PROVE  Segment(q, a, z, e)
<1>1. PICK l \in Nat : l = Len(p) /\ z <= l /\ \A i \in 1..l : q[i] = p[i]
  OBVIOUS
<1>2. a < z /\ p[a + 1] = "/" /\ e = SubSeq(p, a + 2, z) /\ \A k \in (a + 2)..z : p[k] # "/"
  BY DEF Segment
<1>3. q[a + 1] = "/"
  <2>1. a + 1 \in 1..l
    BY <1>1, <1>2
  <2> QED
    BY <1>1, <1>2, <2>1
<1>4. \A k \in (a + 2)..z : q[k] # "/"
  <2>1. \A k \in (a + 2)..z : k \in 1..l
    BY <1>1
  <2> QED
    BY <1>1, <1>2, <2>1
<1>5. SubSeq(q, a + 2, z) = SubSeq(p, a + 2, z)
  <2>1. PICK m \in Nat \ {0} : m = a + 2 /\ m <= z + 1
    BY <1>2
  <2>2. PICK u, v : u = SubSeq(p, m, z) /\ v = SubSeq(q, m, z)
    OBVIOUS
  <2>3. u \in Seq(Tokens) /\ Len(u) = (z + 1) - m /\ \A i \in 1..((z + 1) - m) : u[i] = p[(m - 1) + i]
    BY <2>1, <2>2, PartIs
  <2>4. v \in Seq(Tokens) /\ Len(v) = (z + 1) - m /\ \A i \in 1..((z + 1) - m) : v[i] = q[(m - 1) + i]
    <3>1. z <= Len(q)
      OBVIOUS
    <3> QED
      BY <2>1, <2>2, <3>1, PartIs
  <2>5. ASSUME NEW i \in 1..((z + 1) - m) PROVE u[i] = v[i]
    <3>1. (m - 1) + i \in 1..l
      BY <1>1, <2>1
    <3> QED
      BY <1>1, <2>3, <2>4, <3>1
  <2>6. Len(u) = Len(v) /\ \A i \in 1..Len(u) : u[i] = v[i]
    BY <2>3, <2>4, <2>5
  <2>7. u = v
    BY <2>3, <2>4, <2>6, SameSeq
  <2> QED
    BY <2>1, <2>2, <2>7
<1> QED
  BY <1>2, <1>3, <1>4, <1>5 DEF Segment

\* A segment more at the end of a path.
LEMMA SplitAppend ==
  ASSUME NEW s \in Seq(Seq(Names)), NEW e \in Seq(Names), NEW p \in Seq(Tokens), NEW off, IsSplit(p, s, off),
         NEW x, x = <<"/">> \o e, NEW q, q = p \o x, NEW t, t = Append(s, e)
  PROVE  \E o : IsSplit(q, t, o)
<1>1. PICK m \in Nat, l \in Nat, k \in Nat : m = Len(s) /\ l = Len(p) /\ k = Len(e)
  OBVIOUS
<1>2. x \in Seq(Tokens) /\ Len(x) = 1 + k /\ x[1] = "/" /\ \A i \in 1..k : x[1 + i] = e[i]
  <2>1. <<"/">> \in Seq(Tokens) /\ Len(<<"/">>) = 1 /\ e \in Seq(Tokens)
    BY UrlAssumption DEF Delimiters, Names
  <2> QED
    BY <1>1, <2>1, Concatenation
<1>3. /\ q \in Seq(Tokens) /\ Len(q) = l + (1 + k)
      /\ \A i \in 1..l : q[i] = p[i]
      /\ \A i \in 1..(1 + k) : q[l + i] = x[i]
  <2>1. /\ q \in Seq(Tokens) /\ Len(q) = Len(p) + Len(x)
        /\ \A i \in 1..Len(p) : q[i] = p[i]
        /\ \A i \in 1..Len(x) : q[Len(p) + i] = x[i]
    BY <1>2, Concatenation
  <2> QED
    BY <1>1, <1>2, <2>1
<1>4. /\ off \in [0..m -> 0..l] /\ off[0] = 0 /\ off[m] = l
      /\ \A n \in 1..m : Segment(p, off[n - 1], off[n], s[n])
  BY <1>1 DEF IsSplit, Segment
<1>5. Len(t) = m + 1 /\ t[m + 1] = e /\ \A n \in 1..m : t[n] = s[n]
  BY <1>1
<1>6. PICK z \in Nat : z = l + (1 + k)
  OBVIOUS
<1>7. PICK o : o = [i \in 0..(m + 1) |-> IF i = m + 1 THEN z ELSE off[i]]
  OBVIOUS
<1>8. /\ o \in [0..(m + 1) -> 0..z] /\ o[0] = 0 /\ o[m + 1] = z
      /\ \A n \in 0..m : o[n] = off[n]
  <2>1. \A n \in 0..m : off[n] \in 0..z
    BY <1>4, <1>6
  <2> QED
    BY <1>4, <1>6, <1>7, <2>1
<1>9. ASSUME NEW n \in 1..m PROVE Segment(q, o[n - 1], o[n], t[n])
  <2>1. n - 1 \in 0..m /\ n \in 0..m
    OBVIOUS
  <2>2. PICK a \in Nat, b \in Nat, y \in {s[n]} : a = off[n - 1] /\ b = off[n] /\ b <= l
    <3>1. off[n - 1] \in 0..l /\ off[n] \in 0..l
      BY <1>4, <2>1
    <3> QED
      BY <3>1
  <2>3. Segment(p, a, b, y)
    BY <1>4, <2>2
  <2>4. Segment(q, a, b, y)
    <3>1. Len(p) <= Len(q) /\ b <= Len(p) /\ \A i \in 1..Len(p) : q[i] = p[i]
      BY <1>1, <1>3, <2>2
    <3> QED
      BY <1>3, <2>3, <3>1, SegmentStays
  <2> QED
    BY <1>5, <1>8, <2>1, <2>2, <2>4
<1>10. Segment(q, l, z, e)
  <2>1. l < z /\ q[l + 1] = "/"
    BY <1>2, <1>3, <1>6
  <2>2. ASSUME NEW i \in 1..k PROVE q[(l + 1) + i] = e[i]
    <3>1. 1 + i \in 1..(1 + k) /\ l + (1 + i) = (l + 1) + i
      OBVIOUS
    <3> QED
      BY <1>2, <1>3, <3>1
  <2>3. \A i \in 1..k : e[i] # "/" /\ e[i] \in Names
    BY <1>1 DEF Names
  <2>4. ASSUME NEW j \in (l + 2)..z PROVE q[j] # "/"
    <3>1. j - (l + 1) \in 1..k /\ (l + 1) + (j - (l + 1)) = j
      BY <1>6
    <3> QED
      BY <2>2, <2>3, <3>1
  <2>5. e = SubSeq(q, l + 2, z)
    <3>1. PICK a \in Nat \ {0} : a = l + 2 /\ a <= z + 1
      BY <1>6
    <3>2. PICK u : u = SubSeq(q, a, z)
      OBVIOUS
    <3>7. z <= Len(q) /\ q \in Seq(Tokens)
      BY <1>3, <1>6
    <3>9. z \in Nat /\ a \in Nat \ {0}
      BY <1>6
    <3>3. u \in Seq(Tokens) /\ Len(u) = (z + 1) - a /\ \A i \in 1..((z + 1) - a) : u[i] = q[(a - 1) + i]
      BY ONLY <3>1, <3>2, <3>7, <3>9, PartIs
    <3>8. (z + 1) - a = k /\ a - 1 = l + 1
      BY <1>6, <3>1
    <3>4. Len(u) = Len(e) /\ \A i \in 1..Len(u) : u[i] = e[i]
      <4>1. Len(u) = k /\ \A i \in 1..k : u[i] = q[(l + 1) + i]
        BY <3>3, <3>8
      <4> QED
        BY <1>1, <2>2, <4>1
    <3>5. e \in Seq(Tokens)
      BY DEF Names
    <3>6. u = e
      BY <3>3, <3>4, <3>5, SameSeq
    <3> QED
      BY <3>1, <3>2, <3>6
  <2> QED
    BY <2>1, <2>4, <2>5 DEF Segment
<1>11. ASSUME NEW n \in 1..(m + 1) PROVE Segment(q, o[n - 1], o[n], t[n])
  <2>1. CASE n \in 1..m
    BY <1>9, <2>1
  <2>2. CASE n = m + 1
    <3>1. n - 1 = m /\ m \in 0..m
      BY <2>2
    <3> QED
      BY <1>4, <1>5, <1>8, <1>10, <2>2, <3>1
  <2>3. n \in 1..m \/ n = m + 1
    OBVIOUS
  <2> QED
    BY <2>1, <2>2, <2>3
<1>12. IsSplit(q, t, o)
  <2>1. Len(q) = z
    BY <1>3, <1>6
  <2> QED
    BY <1>5, <1>8, <1>11, <2>1 DEF IsSplit, Segment
<1> QED
  BY <1>12

\* The path of segments has these segments.
LEMMA PathSplit ==
  ASSUME NEW s \in Seq(Seq(Names))
  PROVE  \E off : IsSplit(Path(s), s, off)
<1> DEFINE G == {r \in Seq(Seq(Names)) : \E off : IsSplit(Path(r), r, off)}
<1>1. <<>> \in G
  <2>1. PICK r \in Seq(Seq(Names)), e \in Seq(Names) : r = <<>> /\ Len(r) = 0
    <3>1. <<>> \in Seq(Seq(Names)) /\ <<>> \in Seq(Names) /\ Len(<<>>) = 0
      OBVIOUS
    <3> QED
      BY <3>1
  <2>2. Path(r) = <<>> /\ Len(Path(r)) = 0
    BY <2>1, PathSteps
  <2>3. PICK o : o = [i \in 0..0 |-> 0]
    OBVIOUS
  <2>4. o \in [0..0 -> 0..0] /\ o[0] = 0 /\ 1..0 = {}
    BY <2>3
  <2>5. IsSplit(Path(r), r, o)
    BY <2>1, <2>2, <2>4 DEF IsSplit
  <2> QED
    BY <2>1, <2>5
<1>2. ASSUME NEW r \in Seq(Seq(Names)), NEW e \in Seq(Names), r \in G PROVE Append(r, e) \in G
  <2>1. PICK off : IsSplit(Path(r), r, off)
    BY <1>2
  <2>0. PICK p \in Seq(Tokens) : p = Path(r)
    BY PathSteps
  <2>2. PICK x, q, t : p = Path(r) /\ x = <<"/">> \o e /\ q = p \o x /\ t = Append(r, e)
    BY <2>0
  <2>3. \E o : IsSplit(q, t, o)
    BY <2>1, <2>2, SplitAppend
  <2>4. Path(t) = q
    BY <2>2, PathSteps
  <2>5. t \in Seq(Seq(Names))
    BY <2>2
  <2> QED
    BY <2>2, <2>3, <2>4, <2>5
<1> HIDE DEF G
<1>3. \A r \in Seq(Seq(Names)) : r \in G
  BY <1>1, <1>2, SeqInduction
<1> QED
  BY <1>3 DEF G

\* A path that is normal stays as it is.
LEMMA NormalStays ==
  ASSUME NEW s \in Seq(Proper)
  PROVE  RemoveDotSegments(Path(s)) = Path(s)
<1>1. s \in Seq(Seq(Names))
  BY DEF Proper
<1>2. PICK p \in Seq(Tokens) : p = Path(s)
  <2>1. <<>> \in Seq(Names)
    OBVIOUS
  <2> QED
    BY <1>1, <2>1, PathSteps
<1>3. PICK off : IsSplit(p, s, off)
  BY <1>1, <1>2, PathSplit
<1>4. CASE s # <<>>
  BY <1>1, <1>2, <1>3, <1>4, LoopWalks, WalkProper
<1>5. CASE s = <<>>
  <2>1. p = <<>> /\ Len(p) = 0
    BY <1>3, <1>5, <1>2, EmptyQueue, PathSteps DEF IsSplit
  <2>2. PICK f \in [Nat -> Buffers] :
          /\ f[0] = [in |-> p, out |-> <<>>] /\ \A n \in Nat : f[n + 1] = NextSegment(f[n])
          /\ RemoveDotSegments(p) = f[Len(p)].out
    BY LoopTurns
  <2> QED
    BY <1>2, <2>1, <2>2
<1> QED
  BY <1>4, <1>5

\* The n-th number is followed by the next one of H.
Follows(c, H, n) == c[n] < c[n + 1] /\ \A k \in (c[n] + 1)..(c[n + 1] - 1) : k \notin H

\* The last of the numbers.
Top(c) == IF c = <<>> THEN 0 ELSE c[Len(c)]

\* The numbers up to m that are in H, each followed by the next one.
CutsAt(c, m, H) ==
  /\ c \in Seq(Nat) /\ \A n \in 1..Len(c) : c[n] \in H /\ c[n] \in 1..m
  /\ \A n \in 1..(Len(c) - 1) : Follows(c, H, n)
  /\ c # <<>> => \A k \in 1..(c[1] - 1) : k \notin H
  /\ \A k \in (Top(c) + 1)..m : k \notin H

\* One number more.
LEMMA CutMore ==
  ASSUME NEW m \in Nat, NEW H, NEW c, CutsAt(c, m, H), NEW d,
         m + 1 \in H => d = Append(c, m + 1), m + 1 \notin H => d = c
  PROVE  CutsAt(d, m + 1, H)
<1>1. PICK e \in Nat : e = m + 1
  OBVIOUS
<1>2. PICK l \in Nat : c \in Seq(Nat) /\ l = Len(c)
  BY DEF CutsAt
<1>3. /\ \A n \in 1..l : c[n] \in H /\ c[n] \in 1..m
      /\ \A n \in 1..(l - 1) : Follows(c, H, n)
      /\ c # <<>> => \A k \in 1..(c[1] - 1) : k \notin H
      /\ \A k \in (Top(c) + 1)..m : k \notin H
  BY <1>2 DEF CutsAt
<1>4. Top(c) \in 0..m
  <2>1. c # <<>> => l \in 1..l
    BY <1>2, EmptyQueue
  <2> QED
    BY <1>2, <1>3, <2>1 DEF Top
<1>5. CASE e \notin H
  <2>1. d = c
    BY <1>1, <1>5
  <2>2. \A k \in (Top(c) + 1)..e : k \notin H
    BY <1>1, <1>3, <1>4, <1>5
  <2>3. \A n \in 1..l : c[n] \in 1..e
    BY <1>1, <1>3
  <2> QED
    BY <1>1, <1>2, <1>3, <2>1, <2>2, <2>3 DEF CutsAt
<1>6. CASE e \in H
  <2>1. d = Append(c, e)
    BY <1>1, <1>6
  <2>2. d \in Seq(Nat) /\ Len(d) = l + 1 /\ d[l + 1] = e /\ \A n \in 1..l : d[n] = c[n]
    BY <1>2, <2>1
  <2>3. d # <<>> /\ Top(d) = e
    <3>1. Len(d) # 0
      BY <1>2, <2>2
    <3>2. d # <<>>
      BY <2>2, <3>1, EmptyQueue
    <3> QED
      BY <2>2, <3>2 DEF Top
  <2>4. ASSUME NEW n \in 1..(l + 1) PROVE d[n] \in H /\ d[n] \in 1..e
    <3>1. CASE n \in 1..l
      <4>1. d[n] = c[n] /\ c[n] \in H /\ c[n] \in 1..m
        BY <1>3, <2>2, <3>1
      <4> QED
        BY <1>1, <4>1
    <3>2. CASE n = l + 1
      BY <1>1, <1>6, <2>2, <3>2
    <3>3. n \in 1..l \/ n = l + 1
      BY <1>2
    <3> QED
      BY <3>1, <3>2, <3>3
  <2>5. ASSUME NEW n \in 1..l PROVE Follows(d, H, n)
    <3>1. d[n] = c[n] /\ c[n] \in 1..m
      BY <1>3, <2>2
    <3>2. CASE n = l
      <4>1. d[n + 1] = e
        BY <2>2, <3>2
      <4>2. c # <<>>
        BY <1>2, <3>2, EmptyQueue
      <4>3. Top(c) = c[n]
        BY <1>2, <3>2, <4>2 DEF Top
      <4>4. \A k \in (c[n] + 1)..m : k \notin H
        BY <1>3, <4>3
      <4>5. d[n] < d[n + 1]
        BY <1>1, <3>1, <4>1
      <4>6. \A k \in (d[n] + 1)..(d[n + 1] - 1) : k \notin H
        BY <1>1, <3>1, <4>1, <4>4
      <4> QED
        BY <4>5, <4>6 DEF Follows
    <3>3. CASE n # l
      <4>1. n \in 1..(l - 1) /\ n + 1 \in 1..l
        BY <1>2, <3>3
      <4>2. Follows(c, H, n) /\ d[n + 1] = c[n + 1]
        BY <1>3, <2>2, <4>1
      <4> QED
        BY <3>1, <4>2 DEF Follows
    <3> QED
      BY <3>2, <3>3
  <2>6. \A k \in 1..(d[1] - 1) : k \notin H
    <3>1. CASE c = <<>>
      <4>1. l = 0 /\ Top(c) = 0
        BY <1>2, <3>1, EmptyQueue DEF Top
      <4>2. d[1] = e
        BY <2>2, <4>1
      <4> QED
        BY <1>1, <1>3, <4>1, <4>2
    <3>2. CASE c # <<>>
      <4>1. 1 \in 1..l
        BY <1>2, <3>2, EmptyQueue
      <4> QED
        BY <1>3, <2>2, <3>2, <4>1
    <3> QED
      BY <3>1, <3>2
  <2>7. \A k \in (Top(d) + 1)..e : k \notin H
    BY <2>3
  <2>8. (l + 1) - 1 = l
    BY <1>2
  <2> QED
    BY <1>1, <2>2, <2>4, <2>5, <2>6, <2>7, <2>8 DEF CutsAt
<1> QED
  BY <1>5, <1>6

\* What Numbers selects.
LEMMA NumbersCut ==
  ASSUME NEW m \in Nat, NEW H
  PROVE  CutsAt(Numbers(m, H), m, H)
<1> DEFINE G == {k \in Nat : CutsAt(Numbers(k, H), k, H)}
<1>1. 0 \in G
  <2>1. PICK c \in Seq(Nat) : c = Numbers(0, H) /\ c = <<>> /\ Len(c) = 0
    <3>1. <<>> \in Seq(Nat) /\ Len(<<>>) = 0
      OBVIOUS
    <3> QED
      BY <3>1, NumbersStep
  <2>2. Top(c) = 0 /\ 1..0 = {} /\ (0 + 1)..0 = {} /\ 1..(0 - 1) = {}
    BY <2>1 DEF Top
  <2>3. CutsAt(c, 0, H)
    BY <2>1, <2>2 DEF CutsAt
  <2> QED
    BY <2>1, <2>3
<1>2. ASSUME NEW k \in Nat, k \in G PROVE k + 1 \in G
  <2>1. PICK c, d : c = Numbers(k, H) /\ d = Numbers(k + 1, H)
    OBVIOUS
  <2>2. CutsAt(c, k, H)
    BY <1>2, <2>1
  <2>3. (k + 1 \in H => d = Append(c, k + 1)) /\ (k + 1 \notin H => d = c)
    BY <2>1, NumbersStep
  <2>4. CutsAt(d, k + 1, H)
    BY <2>2, <2>3, CutMore
  <2> QED
    BY <2>1, <2>4
<1> HIDE DEF G
<1>3. \A k \in Nat : k \in G
  BY <1>1, <1>2, SetInduction
<1> QED
  BY <1>3 DEF G

\* A path that begins with a slash consists of its segments.
LEMMA SegmentsSplit ==
  ASSUME NEW path \in Seq(PathTokens), path # <<>>, path[1] = "/", NEW s, s = Segments(path)
  PROVE  s \in Seq(Seq(Names)) /\ s # <<>> /\ \E off : IsSplit(path, s, off)
<1>1. PICK l \in Nat : l = Len(path) /\ l >= 1
  BY EmptyQueue
<1>2. PICK H : H = {i \in DOMAIN path : path[i] = "/"} \cup {Len(path) + 1}
  OBVIOUS
<1>3. PICK c : c = Numbers(l + 1, H)
  OBVIOUS
<1>4. s = [n \in 1..(Len(c) - 1) |-> SubSeq(path, c[n] + 1, c[n + 1] - 1)]
  BY <1>1, <1>2, <1>3 DEF Segments, Numbers
<1>5. CutsAt(c, l + 1, H)
  BY <1>1, <1>3, NumbersCut
<1>6. /\ c \in Seq(Nat) /\ \A n \in 1..Len(c) : c[n] \in H /\ c[n] \in 1..(l + 1)
      /\ \A n \in 1..(Len(c) - 1) : Follows(c, H, n)
      /\ c # <<>> => \A k \in 1..(c[1] - 1) : k \notin H
      /\ \A k \in (Top(c) + 1)..(l + 1) : k \notin H
  BY <1>5 DEF CutsAt
<1>7. 1 \in H /\ l + 1 \in H /\ \A i \in 1..l : i \in H <=> path[i] = "/"
  BY <1>1, <1>2
<1>8. c # <<>> /\ c[1] = 1 /\ c[Len(c)] = l + 1
  <2>1. c # <<>>
    <3>1. ASSUME c = <<>> PROVE FALSE
      <4>1. Top(c) = 0
        BY <3>1 DEF Top
      <4> QED
        BY <1>1, <1>6, <1>7, <4>1
    <3> QED
      BY <3>1
  <2>2. 1 \in 1..Len(c) /\ Len(c) \in 1..Len(c)
    BY <1>6, <2>1, EmptyQueue
  <2>3. Top(c) = c[Len(c)]
    BY <2>1 DEF Top
  <2>4. c[1] \in 1..(l + 1) /\ c[Len(c)] \in 1..(l + 1)
    BY <1>6, <2>2
  <2>5. ~(1 \in 1..(c[1] - 1)) /\ ~(l + 1 \in (c[Len(c)] + 1)..(l + 1))
    BY <1>6, <1>7, <2>1, <2>3
  <2> QED
    BY <1>1, <2>1, <2>4, <2>5
<1>9. PICK m \in Nat \ {0} : Len(c) = m + 1 /\ Len(c) - 1 = m
  <2>1. Len(c) \in Nat /\ Len(c) # 0 /\ Len(c) # 1
    BY <1>1, <1>6, <1>8, EmptyQueue
  <2>2. Len(c) - 1 \in Nat \ {0} /\ Len(c) = (Len(c) - 1) + 1
    BY <2>1
  <2> QED
    BY <2>2
<1>10. ASSUME NEW n \in 1..m
       PROVE  /\ c[n] \in 1..l /\ c[n + 1] \in 1..(l + 1) /\ c[n] < c[n + 1] /\ path[c[n]] = "/"
              /\ \A k \in (c[n] + 1)..(c[n + 1] - 1) : k \in 1..l /\ path[k] # "/"
  <2>1. n \in 1..Len(c) /\ n + 1 \in 1..Len(c) /\ n \in 1..(Len(c) - 1)
    BY <1>9
  <2>2. c[n] \in 1..(l + 1) /\ c[n + 1] \in 1..(l + 1) /\ c[n] \in H
    BY <1>6, <2>1
  <2>3. c[n] < c[n + 1] /\ \A k \in (c[n] + 1)..(c[n + 1] - 1) : k \notin H
    BY <1>6, <2>1 DEF Follows
  <2>4. c[n] \in 1..l
    BY <1>1, <2>2, <2>3
  <2>5. \A k \in (c[n] + 1)..(c[n + 1] - 1) : k \in 1..l
    BY <1>1, <2>2
  <2> QED
    BY <1>7, <2>2, <2>3, <2>4, <2>5
<1>11. s = [n \in 1..m |-> SubSeq(path, c[n] + 1, c[n + 1] - 1)]
  BY <1>4, <1>9
<1>12. ASSUME NEW n \in 1..m PROVE s[n] \in Seq(Names)
  <2>1. PICK a \in Nat \ {0}, z \in Nat : a = c[n] + 1 /\ z = c[n + 1] - 1 /\ a <= z + 1 /\ z <= Len(path)
    <3>1. c[n] + 1 \in Nat \ {0} /\ c[n + 1] - 1 \in Nat /\ c[n] + 1 <= (c[n + 1] - 1) + 1
      BY <1>10, SMTT(30)
    <3>2. PICK d \in Nat : d = c[n + 1] /\ d <= l + 1
      <4>1. c[n + 1] \in 1..(l + 1)
        BY <1>10
      <4>2. c[n + 1] \in Nat /\ c[n + 1] <= l + 1
        BY <4>1
      <4> QED
        BY <4>2
    <3>3. c[n + 1] - 1 <= Len(path)
      BY <1>1, <3>2
    <3> QED
      BY <3>1, <3>3
  <2>2. PICK u : u = SubSeq(path, a, z)
    OBVIOUS
  <2>3. u \in Seq(PathTokens) /\ Len(u) = (z + 1) - a /\ \A i \in 1..((z + 1) - a) : u[i] = path[(a - 1) + i]
    <3>1. a <= z + 1 /\ z <= Len(path)
      BY <2>1
    <3> QED
      BY <2>2, <3>1, PartIs
  <2>4. ASSUME NEW i \in 1..((z + 1) - a) PROVE u[i] \in Names
    <3>1. (a - 1) + i \in a..z
      BY <2>1
    <3>2. \A k \in a..z : k \in 1..l /\ path[k] # "/"
      BY <1>10, <2>1
    <3>3. path[(a - 1) + i] # "/" /\ path[(a - 1) + i] \in PathTokens
      BY <1>1, <3>1, <3>2
    <3> QED
      BY <2>3, <3>3 DEF PathTokens
  <2>5. u \in Seq(Names)
    <3>1. PICK k \in Nat : k = (z + 1) - a
      BY <2>1
    <3>2. Len(u) = k /\ \A i \in 1..k : u[i] \in Names
      BY <2>3, <2>4, <3>1
    <3> QED
      BY <2>3, <3>2
  <2> QED
    BY <1>11, <2>1, <2>2, <2>5
<1>13. s \in Seq(Seq(Names)) /\ Len(s) = m
  <2>1. s \in [1..m -> Seq(Names)]
    BY <1>11, <1>12
  <2> QED
    BY <2>1
<1>14. s # <<>>
  BY <1>13, EmptyQueue
<1>15. PICK off : off = [n \in 0..m |-> c[n + 1] - 1]
  OBVIOUS
<1>16. off \in [0..m -> 0..l] /\ off[0] = 0 /\ off[m] = l
  <2>1. ASSUME NEW n \in 0..m PROVE c[n + 1] - 1 \in 0..l
    <3>1. n + 1 \in 1..Len(c)
      BY <1>9
    <3>2. c[n + 1] \in 1..(l + 1)
      BY <1>6, <3>1
    <3> QED
      BY <1>1, <3>2
  <2>2. 0 \in 0..m /\ m \in 0..m /\ 0 + 1 = 1
    OBVIOUS
  <2>3. c[0 + 1] - 1 = 0 /\ c[m + 1] - 1 = l
    BY <1>1, <1>8, <1>9
  <2> QED
    BY <1>15, <2>1, <2>2, <2>3
<1>17. ASSUME NEW n \in 1..m PROVE Segment(path, off[n - 1], off[n], s[n])
  <2>1. PICK a \in Nat, z \in Nat : a = c[n] - 1 /\ z = c[n + 1] - 1 /\ a + 1 = c[n] /\ a < z
    <3>1. c[n] - 1 \in Nat /\ c[n + 1] - 1 \in Nat /\ (c[n] - 1) + 1 = c[n] /\ c[n] - 1 < c[n + 1] - 1
      BY <1>10, SMTT(30)
    <3> QED
      BY <3>1
  <2>2. off[n - 1] = a /\ off[n] = z
    <3>1. n - 1 \in 0..m /\ n \in 0..m /\ (n - 1) + 1 = n
      OBVIOUS
    <3> QED
      BY <1>15, <2>1, <3>1
  <2>3. a + 2 = c[n] + 1
    BY <2>1
  <2>4. s[n] = SubSeq(path, a + 2, z)
    BY <1>11, <2>1, <2>3
  <2>5. path[a + 1] = "/" /\ \A k \in (a + 2)..z : path[k] # "/"
    BY <1>10, <2>1, <2>3
  <2> QED
    BY <2>1, <2>2, <2>4, <2>5 DEF Segment
<1>18. IsSplit(path, s, off)
  BY <1>1, <1>13, <1>16, <1>17 DEF IsSplit, Segment
<1> QED
  BY <1>13, <1>14, <1>18

\* The path that the segments of a path lead to, which is what RemoveDotSegments returns,
\* and which it leaves as it is.
Settled(path, t) ==
  /\ t = NormalPath(path) /\ RemoveDotSegments(t) = t
  /\ t \in Seq(PathTokens) /\ (path # <<>> => t # <<>> /\ t[1] = "/") /\ (path = <<>> => t = <<>>)

\* RemoveDotSegments does what the reference definition says.
LEMMA DotsRemoved ==
  ASSUME NEW path \in Seq(PathTokens), path # <<>> => path[1] = "/"
  PROVE  Settled(path, RemoveDotSegments(path))
<1>0. PathTokens \subseteq Tokens
  BY UrlAssumption DEF PathTokens, Names, Delimiters
<1>1. path \in Seq(Tokens)
  BY <1>0
<1>2. CASE path = <<>>
  <2>1. Len(path) = 0
    BY <1>2, EmptyQueue
  <2>2. PICK f \in [Nat -> Buffers] :
          /\ f[0] = [in |-> path, out |-> <<>>] /\ \A n \in Nat : f[n + 1] = NextSegment(f[n])
          /\ RemoveDotSegments(path) = f[Len(path)].out
    BY <1>1, LoopTurns
  <2>3. RemoveDotSegments(path) = <<>>
    BY <2>1, <2>2
  <2>4. PICK c : c = Numbers(1, {1})
    OBVIOUS
  <2>5. CutsAt(c, 1, {1})
    BY <2>4, NumbersCut
  <2>6. Segments(path) = [n \in 1..(Len(c) - 1) |-> SubSeq(path, c[n] + 1, c[n + 1] - 1)]
    <3>1. {i \in DOMAIN path : path[i] = "/"} \cup {Len(path) + 1} = {1} /\ Len(path) + 1 = 1
      BY <2>1
    <3> QED
      BY <2>4, <3>1 DEF Segments, Numbers
  <2>7. Len(c) <= 1
    <3>1. c \in Seq(Nat) /\ \A n \in 1..Len(c) : c[n] = 1
      BY <2>5 DEF CutsAt
    <3>2. \A n \in 1..(Len(c) - 1) : Follows(c, {1}, n)
      BY <2>5 DEF CutsAt
    <3> SUFFICES ASSUME Len(c) > 1 PROVE FALSE
      BY <3>1
    <3>3. 1 \in 1..Len(c) /\ 1 + 1 \in 1..Len(c) /\ 1 \in 1..(Len(c) - 1)
      BY <3>1
    <3>4. c[1] = 1 /\ c[1 + 1] = 1
      BY <3>1, <3>3
    <3>5. c[1] < c[1 + 1]
      BY <3>2, <3>3 DEF Follows
    <3> QED
      BY <3>4, <3>5
  <2>8. Segments(path) = <<>>
    <3>1. 1..(Len(c) - 1) = 1..0
      <4>1. c \in Seq(Nat)
        BY <2>5 DEF CutsAt
      <4> QED
        BY <2>7, <4>1
    <3>2. PICK z : z = [n \in 1..0 |-> SubSeq(path, c[n] + 1, c[n + 1] - 1)]
      OBVIOUS
    <3>3. z = <<>>
      BY <3>2
    <3>4. Segments(path) = z
      BY <2>6, <3>1, <3>2, Zenon
    <3> QED
      BY <3>3, <3>4
  <2>9. NormalPath(path) = <<>>
    <3>1. <<>> \in Seq(Seq(Names)) /\ <<>> \in Seq(Names) /\ <<>> \in Seq(Proper)
      OBVIOUS
    <3>2. Resolved(<<>>) = <<>>
      BY <3>1, WalkProper
    <3>3. Path(<<>>) = <<>>
      BY <3>1, PathSteps
    <3> QED
      BY <2>8, <3>2, <3>3 DEF NormalPath
  <2> QED
    BY <1>2, <2>3, <2>9 DEF Settled
<1>3. CASE path # <<>>
  <2>1. PICK s : s = Segments(path)
    OBVIOUS
  <2>2. s \in Seq(Seq(Names)) /\ s # <<>> /\ \E off : IsSplit(path, s, off)
    BY <1>3, <2>1, SegmentsSplit
  <2>3. PICK off : IsSplit(path, s, off)
    BY <2>2
  <2>4. RemoveDotSegments(path) = Path(Resolved(s))
    BY <1>1, <2>2, <2>3, LoopWalks
  <2>5. PICK r \in Seq(Proper) : r = Resolved(s) /\ r # <<>>
    BY <2>2, ResolvedType
  <2>6. RemoveDotSegments(Path(r)) = Path(r)
    BY NormalStays
  <2>7. Path(r) \in Seq(PathTokens) /\ Path(r) # <<>> /\ Path(r)[1] = "/"
    <3>1. r \in Seq(Seq(Names))
      BY DEF Proper
    <3>2. Path(r) \in Seq(PathTokens)
      <4>1. <<>> \in Seq(Names)
        OBVIOUS
      <4> QED
        BY <3>1, <4>1, PathSteps
    <3>3. PICK o : IsSplit(Path(r), r, o)
      BY <3>1, PathSplit
    <3>4. 1 \in 1..Len(r) /\ 1 - 1 = 0
      BY <2>5, EmptyQueue
    <3>5. o[0] = 0 /\ o[0] < o[1] /\ Path(r)[0 + 1] = "/" /\ o[1] <= Len(Path(r))
      BY <3>3, <3>4 DEF IsSplit
    <3>6. Len(Path(r)) # 0
      <4>1. 1 \in 0..Len(r)
        BY <3>4
      <4>2. o \in [0..Len(r) -> 0..Len(Path(r))]
        BY <3>3 DEF IsSplit
      <4>3. o[1] \in 0..Len(Path(r))
        BY <4>1, <4>2
      <4>4. PICK n \in Nat : n = Len(Path(r))
        BY <3>2
      <4> QED
        BY <3>5, <4>3, <4>4
    <3>7. Path(r) # <<>>
      BY <3>2, <3>6, EmptyQueue
    <3> QED
      BY <3>2, <3>5, <3>7
  <2> QED
    BY <1>3, <2>1, <2>4, <2>5, <2>6, <2>7 DEF Settled, NormalPath
<1> QED
  BY <1>2, <1>3

\* The loop of RemoveDotSegments computes, for every path, the one that its segments say,
\* each ".." taken as a step back; and this path has no dots left to remove.
THEOREM DotSegmentsRemoved ==
  ASSUME NEW path \in Seq(PathTokens), path # <<>> => path[1] = "/"
  PROVE  /\ RemoveDotSegments(path) = NormalPath(path)
         /\ RemoveDotSegments(NormalPath(path)) = NormalPath(path)
BY DotsRemoved DEF Settled

\* A last segment with a dot in it has an extension that is in the table.
SegmentExt(e) ==
  FindLast(e, ".") # 0 /\ FindLast(e, ".") < Len(e) => e[FindLast(e, ".") + 1] \in Exts

\* The extension of a path is that of its last segment.
LEMMA ExtOfLast ==
  ASSUME NEW path \in Seq(Tokens), NEW a \in Nat, NEW e, NEW l \in Nat, l = Len(path), Segment(path, a, l, e)
  PROVE  HasPageExt(path) <=> SegmentExt(e)
<1>1. a < l /\ path[a + 1] = "/" /\ e = SubSeq(path, a + 2, l) /\ \A k \in (a + 2)..l : path[k] # "/"
  BY DEF Segment
<1>2. PICK b \in Nat \ {0} : b = a + 1 /\ b <= l
  BY <1>1
<1>3. PICK f, g : f = FindLast(path, "/") /\ g = FindLast(path, ".")
  OBVIOUS
<1>4. f = b
  <2>1. \/ f = 0 /\ \A k \in 1..Len(path) : path[k] # "/"
        \/ f \in 1..Len(path) /\ path[f] = "/" /\ \A k \in (f + 1)..Len(path) : path[k] # "/"
    BY <1>3, LastIs
  <2>2. b \in 1..l /\ path[b] = "/" /\ \A k \in (b + 1)..l : path[k] # "/"
    BY <1>1, <1>2
  <2> QED
    BY <2>1, <2>2
<1>5. e \in Seq(Tokens) /\ Len(e) = l - b /\ \A i \in 1..(l - b) : e[i] = path[b + i]
  <2>1. PICK m \in Nat \ {0} : m = a + 2 /\ m <= l + 1
    BY <1>1
  <2>2. l <= Len(path) /\ e = SubSeq(path, m, l)
    BY <1>1, <2>1
  <2>3. e \in Seq(Tokens) /\ Len(e) = (l + 1) - m /\ \A i \in 1..((l + 1) - m) : e[i] = path[(m - 1) + i]
    BY <2>1, <2>2, PartIs
  <2>4. (l + 1) - m = l - b /\ m - 1 = b
    BY <1>2, <2>1
  <2> QED
    BY <2>3, <2>4
<1>6. PICK h : h = FindLast(e, ".")
  OBVIOUS
<1>7. \/ h = 0 /\ \A k \in 1..Len(e) : e[k] # "."
      \/ h \in 1..Len(e) /\ e[h] = "." /\ \A k \in (h + 1)..Len(e) : e[k] # "."
  BY <1>5, <1>6, LastIs
<1>8. \/ g = 0 /\ \A k \in 1..Len(path) : path[k] # "."
      \/ g \in 1..Len(path) /\ path[g] = "." /\ \A k \in (g + 1)..Len(path) : path[k] # "."
  BY <1>3, LastIs
<1>9. \A k \in (b + 1)..l : k - b \in 1..(l - b) /\ path[k] = e[k - b]
  <2>1. ASSUME NEW k \in (b + 1)..l PROVE k - b \in 1..(l - b) /\ path[k] = e[k - b]
    <3>1. k - b \in 1..(l - b) /\ b + (k - b) = k
      BY <1>2
    <3> QED
      BY <1>5, <3>1
  <2> QED
    BY <2>1
<1>10. CASE h = 0
  <2>1. \A k \in (b + 1)..l : path[k] # "."
    BY <1>5, <1>7, <1>9, <1>10
  <2>2. ~(g > b)
    BY <1>2, <1>8, <2>1
  <2> QED
    BY <1>3, <1>4, <1>6, <1>10, <2>2 DEF HasPageExt, SegmentExt
<1>11. CASE h # 0
  <2>1. h \in 1..(l - b) /\ e[h] = "." /\ \A k \in (h + 1)..(l - b) : e[k] # "."
    BY <1>5, <1>7, <1>11
  <2>2. PICK j \in Nat : j = b + h /\ j \in (b + 1)..l
    <3>1. b + h \in (b + 1)..l /\ b + h \in Nat
      BY <2>1
    <3> QED
      BY <3>1
  <2>3. path[j] = "." /\ j \in 1..l
    BY <1>5, <2>1, <2>2
  <2>4. \A k \in (j + 1)..l : path[k] # "."
    <3>1. ASSUME NEW k \in (j + 1)..l PROVE path[k] # "."
      <4>1. k \in (b + 1)..l /\ k - b \in (h + 1)..(l - b)
        BY <2>1, <2>2
      <4> QED
        BY <1>9, <2>1, <4>1
    <3> QED
      BY <3>1
  <2>5. g = j
    BY <1>8, <2>3, <2>4
  <2>6. j < l <=> h < Len(e)
    BY <1>2, <1>5, <2>1, <2>2
  <2>7. j < l => path[j + 1] = e[h + 1]
    <3>1. ASSUME j < l PROVE path[j + 1] = e[h + 1]
      <4>1. PICK k \in 1..(l - b) : k = h + 1 /\ b + k = j + 1
        <5>1. h + 1 \in 1..(l - b) /\ b + (h + 1) = j + 1
          BY <2>1, <2>2, <3>1
        <5> QED
          BY <5>1
      <4>2. e[k] = path[b + k]
        BY <1>5
      <4> QED
        BY <4>1, <4>2
    <3> QED
      BY <3>1
  <2>8. b # 0 /\ j > b
    BY <2>1, <2>2
  <2>9. HasPageExt(path) <=> (j < l => path[j + 1] \in Exts)
    BY <1>3, <1>4, <2>5, <2>8 DEF HasPageExt
  <2>10. SegmentExt(e) <=> (h < Len(e) => e[h + 1] \in Exts)
    BY <1>6, <1>11 DEF SegmentExt
  <2> QED
    BY <2>6, <2>7, <2>9, <2>10
<1> QED
  BY <1>10, <1>11

\* The last segment of a path that is split.
LEMMA LastSegment ==
  ASSUME NEW path \in Seq(Tokens), NEW s \in Seq(Seq(Names)), s # <<>>, NEW off, IsSplit(path, s, off)
  PROVE  HasPageExt(path) <=> SegmentExt(Last(s))
<1>1. PICK m \in Nat \ {0}, l \in Nat : m = Len(s) /\ l = Len(path)
  BY EmptyQueue
<1>2. off \in [0..m -> 0..l] /\ off[m] = l
  BY <1>1 DEF IsSplit
<1>3. m \in 1..m /\ m - 1 \in 0..m
  OBVIOUS
<1>4. PICK a \in Nat : a = off[m - 1]
  BY <1>2, <1>3
<1>5. a < l /\ path[a + 1] = "/" /\ s[m] = SubSeq(path, a + 2, l) /\ \A k \in (a + 2)..l : path[k] # "/"
  BY <1>1, <1>2, <1>3, <1>4 DEF IsSplit
<1>6. Segment(path, a, l, s[m])
  BY <1>5 DEF Segment
<1>7. Last(s) = s[m]
  BY <1>1 DEF Last
<1> QED
  BY <1>1, <1>6, <1>7, ExtOfLast

\* The last segment stays the last one, unless it is dots.
LEMMA LastResolved ==
  ASSUME NEW s \in Seq(Seq(Names)), s # <<>>
  PROVE  Last(Resolved(s)) = IF Last(s) \in Dots THEN <<>> ELSE Last(s)
<1>1. PICK n \in Nat \ {0} : n = Len(s)
  BY EmptyQueue
<1>2. PICK w \in [0..Len(s) -> Seq(Proper)] :
        /\ w[0] = <<>> /\ \A i \in 1..Len(s) : w[i] = Stacked(w[i - 1], s[i])
        /\ Walk(s) = w[Len(s)]
  BY WalkSteps
<1>0. Seq(Proper) \subseteq Seq(Seq(Names))
  <2>1. Proper \subseteq Seq(Names)
    BY DEF Proper
  <2> QED
    BY <2>1
<1>3. ASSUME NEW S, NEW r \in Seq(S), NEW e \in S PROVE Last(Append(r, e)) = e
  <2>1. PICK k \in Nat : k = Len(r)
    OBVIOUS
  <2>2. Len(Append(r, e)) = k + 1 /\ Append(r, e)[k + 1] = e
    BY <2>1
  <2> QED
    BY <2>2 DEF Last
<1>4. CASE Last(s) \in Dots
  <2>1. Resolved(s) = Append(w[n], <<>>)
    BY <1>1, <1>2, <1>4 DEF Resolved
  <2>2. n \in 0..Len(s)
    BY <1>1
  <2>3. PICK r \in Seq(Seq(Names)), e \in Seq(Names) : r = w[n] /\ e = <<>>
    <3>1. w[n] \in Seq(Proper)
      BY <1>2, <2>2
    <3>2. <<>> \in Seq(Names)
      OBVIOUS
    <3> QED
      BY <1>0, <3>1, <3>2
  <2> QED
    BY <1>3, <1>4, <2>1, <2>3
<1>5. CASE Last(s) \notin Dots
  <2>1. Resolved(s) = Walk(s)
    BY <1>5 DEF Resolved
  <2>2. n \in 1..Len(s) /\ n - 1 \in 0..Len(s)
    BY <1>1
  <2>3. PICK r \in Seq(Seq(Names)), e \in Seq(Names) : r = w[n - 1] /\ e = s[n] /\ e = Last(s)
    <3>1. w[n - 1] \in Seq(Proper)
      BY <1>2, <2>2
    <3>2. s[n] \in Seq(Names) /\ s[n] = Last(s)
      BY <1>1, <2>2 DEF Last
    <3> QED
      BY <1>0, <3>1, <3>2
  <2>4. Walk(s) = Append(r, e)
    BY <1>1, <1>2, <1>5, <2>2, <2>3 DEF Stacked
  <2> QED
    BY <1>3, <1>5, <2>1, <2>3, <2>4
<1> QED
  BY <1>4, <1>5

\* A path that has a proper extension has one without its dots.
LEMMA ExtKept ==
  ASSUME NEW path \in Seq(PathTokens), path # <<>> => path[1] = "/", HasPageExt(path)
  PROVE  HasPageExt(RemoveDotSegments(path))
<1>1. PathTokens \subseteq Tokens /\ path \in Seq(Tokens)
  BY UrlAssumption DEF PathTokens, Names, Delimiters
<1>2. CASE path = <<>>
  BY <1>2, DotsRemoved DEF Settled
<1>3. CASE path # <<>>
  <2>1. PICK s : s = Segments(path)
    OBVIOUS
  <2>2. s \in Seq(Seq(Names)) /\ s # <<>> /\ \E off : IsSplit(path, s, off)
    BY <1>3, <2>1, SegmentsSplit
  <2>3. PICK off : IsSplit(path, s, off)
    BY <2>2
  <2>4. RemoveDotSegments(path) = Path(Resolved(s))
    BY <1>1, <2>2, <2>3, LoopWalks
  <2>5. PICK r \in Seq(Seq(Names)) : r = Resolved(s) /\ r # <<>>
    <3>1. Resolved(s) \in Seq(Seq(Names)) /\ Resolved(s) # <<>>
      BY <2>2, ResolvedType DEF Proper
    <3> QED
      BY <3>1
  <2>6. PICK p \in Seq(Tokens) : p = Path(r)
    <3>1. <<>> \in Seq(Names)
      OBVIOUS
    <3> QED
      BY <3>1, PathSteps
  <2>7. PICK o : IsSplit(p, r, o)
    BY <2>6, PathSplit
  <2>8. SegmentExt(Last(s))
    BY <1>1, <2>2, <2>3, LastSegment
  <2>9. SegmentExt(<<>>)
    <3>1. PICK z \in Seq(Tokens) : z = <<>> /\ Len(z) = 0
      <4>1. <<>> \in Seq(Tokens) /\ Len(<<>>) = 0
        OBVIOUS
      <4> QED
        BY <4>1
    <3>2. PICK f : f = FindLast(z, ".")
      OBVIOUS
    <3>3. \/ f = 0 /\ \A k \in 1..Len(z) : z[k] # "."
          \/ f \in 1..Len(z) /\ z[f] = "." /\ \A k \in (f + 1)..Len(z) : z[k] # "."
      BY <3>2, LastIs
    <3>4. f = 0
      BY <3>1, <3>3
    <3> QED
      BY <3>1, <3>2, <3>4 DEF SegmentExt
  <2>10. Last(r) = <<>> \/ Last(r) = Last(s)
    BY <2>2, <2>5, LastResolved
  <2>11. SegmentExt(Last(r))
    BY <2>8, <2>9, <2>10
  <2>12. HasPageExt(p)
    BY <2>5, <2>7, <2>11, LastSegment
  <2> QED
    BY <2>4, <2>5, <2>6, <2>12
<1> QED
  BY <1>2, <1>3

\* The positions that ParseURL computes.
ColonAt(str) == FindFirst(str, 1, {":", "/", "?", "#"})
UserAt(str) == IF StandsAt(str, ColonAt(str) + 1, <<"/", "/">>) THEN ColonAt(str) + 3 ELSE ColonAt(str) + 1
HostAt(str) ==
  LET at == FindFirst(str, UserAt(str), {"@", "/"}) IN IF at # 0 /\ str[at] = "@" THEN at + 1 ELSE UserAt(str)
PathAt(str) ==
  LET slash == FindFirst(str, UserAt(str), {"/"}) IN IF slash = 0 THEN Len(str) + 1 ELSE slash
EndAt(str) ==
  LET frag == FindFirst(str, UserAt(str), {"#"}) IN IF frag = 0 THEN Len(str) + 1 ELSE frag
StopAt(str) ==
  LET query == FindFirst(str, UserAt(str), {"?"})
  IN  IF query = 0 \/ query > EndAt(str) THEN EndAt(str) ELSE query

\* The parts of a URL between these positions.
PartsOf(str, u, h, p, st, en) ==
  [ok       |-> TRUE,
   scheme   |-> Lower(SubSeq(str, 1, u - 1)),
   user     |-> SubSeq(str, u, h - 1),
   host     |-> Lower(SubSeq(str, h, p - 1)),
   path     |-> SubSeq(str, p, st - 1),
   query    |-> SubSeq(str, st, en - 1),
   fragment |-> SubSeq(str, en, Len(str))]

\* ParseURL in these terms.
LEMMA ParseFrom ==
  ASSUME NEW str
  PROVE  ParseURL(str) =
           IF ColonAt(str) = 0 \/ str[ColonAt(str)] # ":" \/ StopAt(str) < PathAt(str) THEN NotParsed
           ELSE PartsOf(str, UserAt(str), HostAt(str), PathAt(str), StopAt(str), EndAt(str))
BY DEF ParseURL, ColonAt, UserAt, HostAt, PathAt, EndAt, StopAt, PartsOf

\* The colon.
LEMMA ColonIs ==
  ASSUME NEW str \in Seq(Tokens), NEW c, c = ColonAt(str)
  PROVE  \/ c = 0 /\ \A k \in 1..Len(str) : str[k] # ":" /\ str[k] # "/" /\ str[k] # "?" /\ str[k] # "#"
         \/ /\ c \in 1..Len(str) /\ (str[c] = ":" \/ str[c] = "/" \/ str[c] = "?" \/ str[c] = "#")
            /\ \A k \in 1..(c - 1) : str[k] # ":" /\ str[k] # "/" /\ str[k] # "?" /\ str[k] # "#"
<1>1. PICK cs : cs = {":", "/", "?", "#"}
  OBVIOUS
<1>2. c = FindFirst(str, 1, cs)
  BY <1>1 DEF ColonAt
<1>3. \/ c = 0 /\ \A k \in 1..Len(str) : str[k] \notin cs
      \/ c \in 1..Len(str) /\ str[c] \in cs /\ \A k \in 1..(c - 1) : str[k] \notin cs
  <2>1. 1 \in Nat \ {0}
    OBVIOUS
  <2> QED
    BY <1>2, <2>1, FirstIs
<1> QED
  BY <1>1, <1>3

\* Scheme, user and a host that is not empty, up to p.
Hosted(str, c, u, h, p) ==
  /\ c < u /\ u <= h /\ h < p /\ p <= Len(str) + 1 /\ str[c] = ":"
  /\ \A k \in 1..(c - 1) : str[k] # ":" /\ str[k] # "/" /\ str[k] # "?" /\ str[k] # "#"
  /\ (u = c + 3 /\ str[c + 1] = "/" /\ str[c + 2] = "/") \/ u = c + 1
  /\ \A k \in u..(p - 1) : str[k] # "/" /\ str[k] # "?" /\ str[k] # "#"
  /\ \/ h = u /\ \A k \in u..(p - 1) : str[k] # "@"
     \/ h > u /\ str[h - 1] = "@" /\ \A k \in u..(h - 2) : str[k] # "@"

\* Path, query and fragment, from p on.
Behind(str, p, st, en) ==
  /\ p <= st /\ st <= en /\ en <= Len(str) + 1
  /\ p <= Len(str) => str[p] = "/"
  /\ \A k \in p..(st - 1) : str[k] # "?" /\ str[k] # "#"
  /\ \A k \in st..(en - 1) : str[k] # "#"
  /\ st < en => str[st] = "?"
  /\ en <= Len(str) => str[en] = "#"

\* The user begins behind the slashes that follow the colon.
LEMMA UserIs ==
  ASSUME NEW str \in Seq(Tokens), NEW c \in 1..Len(str), c = ColonAt(str)
  PROVE  UserAt(str) = IF c + 2 <= Len(str) /\ str[c + 1] = "/" /\ str[c + 2] = "/" THEN c + 3 ELSE c + 1
<1>1. PICK l \in Nat : l = Len(str) /\ c \in 1..l
  OBVIOUS
<1>2. PICK k \in Nat : k = c + 1
  BY <1>1
<1>3. CASE k <= l
  <2>1. k \in 1..Len(str)
    BY <1>1, <1>2, <1>3
  <2>2. StandsAt(str, k, <<"/", "/">>) <=> Here(str, k, "/", "/")
    BY <2>1, StandsHere
  <2>3. Here(str, k, "/", "/") <=> c + 2 <= Len(str) /\ str[c + 1] = "/" /\ str[c + 2] = "/"
    <3>1. k + 1 = c + 2
      BY <1>1, <1>2
    <3> QED
      BY <1>2, <3>1 DEF Here
  <2> QED
    BY <1>2, <2>2, <2>3 DEF UserAt
<1>4. CASE ~(k <= l)
  <2>1. ~(c + 2 <= Len(str))
    BY <1>1, <1>2, <1>4
  <2>2. ~StandsAt(str, k, <<"/", "/">>)
    <3>1. Len(<<"/", "/">>) = 2
      OBVIOUS
    <3>2. ~(k + 2 <= Len(str) + 1)
      BY <1>1, <1>2, <1>4
    <3> QED
      BY <3>1, <3>2 DEF StandsAt
  <2> QED
    BY <1>2, <2>1, <2>2 DEF UserAt
<1> QED
  BY <1>3, <1>4

\* Where a host is, parsing finds it.
LEMMA HeadFound ==
  ASSUME NEW str \in Seq(Tokens), NEW c \in Nat \ {0}, NEW u \in Nat \ {0}, NEW h \in Nat \ {0},
         NEW p \in Nat \ {0}, Hosted(str, c, u, h, p), p <= Len(str) => str[p] = "/"
  PROVE  ColonAt(str) = c /\ UserAt(str) = u /\ HostAt(str) = h /\ PathAt(str) = p
<1>1. PICK l \in Nat : l = Len(str)
  OBVIOUS
<1>2. /\ c < u /\ u <= h /\ h < p /\ p <= l + 1 /\ str[c] = ":"
      /\ \A k \in 1..(c - 1) : str[k] # ":" /\ str[k] # "/" /\ str[k] # "?" /\ str[k] # "#"
      /\ (u = c + 3 /\ str[c + 1] = "/" /\ str[c + 2] = "/") \/ u = c + 1
      /\ \A k \in u..(p - 1) : str[k] # "/" /\ str[k] # "?" /\ str[k] # "#"
      /\ \/ h = u /\ \A k \in u..(p - 1) : str[k] # "@"
         \/ h > u /\ str[h - 1] = "@" /\ \A k \in u..(h - 2) : str[k] # "@"
  BY <1>1 DEF Hosted
<1>3. c \in 1..l
  BY <1>1, <1>2
<1>4. ColonAt(str) = c
  <2>1. PICK f : f = ColonAt(str)
    OBVIOUS
  <2>2. \/ f = 0 /\ \A k \in 1..Len(str) : str[k] # ":" /\ str[k] # "/" /\ str[k] # "?" /\ str[k] # "#"
        \/ /\ f \in 1..Len(str) /\ (str[f] = ":" \/ str[f] = "/" \/ str[f] = "?" \/ str[f] = "#")
           /\ \A k \in 1..(f - 1) : str[k] # ":" /\ str[k] # "/" /\ str[k] # "?" /\ str[k] # "#"
    BY <2>1, ColonIs
  <2>3. f \in 1..l /\ ~(f > c) /\ ~(f < c)
    BY <1>1, <1>2, <1>3, <2>2
  <2> QED
    BY <1>3, <2>1, <2>3
<1>5. UserAt(str) = u
  <2>1. UserAt(str) = IF c + 2 <= Len(str) /\ str[c + 1] = "/" /\ str[c + 2] = "/" THEN c + 3 ELSE c + 1
    BY <1>1, <1>3, <1>4, UserIs
  <2>2. CASE u = c + 3 /\ str[c + 1] = "/" /\ str[c + 2] = "/"
    <3>1. c + 2 <= Len(str)
      BY <1>1, <1>2, <2>2
    <3> QED
      BY <2>1, <2>2, <3>1
  <2>3. CASE u = c + 1
    <3>1. u \in u..(p - 1)
      BY <1>2
    <3>2. str[c + 1] # "/"
      BY <1>2, <2>3, <3>1
    <3> QED
      BY <2>1, <2>3, <3>2
  <2> QED
    BY <1>2, <2>2, <2>3
<1>6. PathAt(str) = p
  <2>1. PICK f : f = FindFirst(str, u, {"/"})
    OBVIOUS
  <2>2. \/ f = 0 /\ \A k \in u..Len(str) : str[k] # "/"
        \/ f \in u..Len(str) /\ str[f] = "/" /\ \A k \in u..(f - 1) : str[k] # "/"
    <3>1. PICK cs : cs = {"/"}
      OBVIOUS
    <3>2. f = FindFirst(str, u, cs)
      BY <2>1, <3>1
    <3>3. \/ f = 0 /\ \A k \in u..Len(str) : str[k] \notin cs
          \/ f \in u..Len(str) /\ str[f] \in cs /\ \A k \in u..(f - 1) : str[k] \notin cs
      BY <3>2, FirstIs
    <3> QED
      BY <3>1, <3>3
  <2>3. PathAt(str) = IF f = 0 THEN l + 1 ELSE f
    BY <1>1, <1>5, <2>1 DEF PathAt
  <2>4. CASE p <= l
    <3>1. p \in u..Len(str) /\ str[p] = "/"
      BY <1>1, <1>2, <2>4
    <3>2. f # 0 /\ ~(f < p) /\ ~(f > p)
      BY <1>1, <1>2, <2>2, <3>1
    <3> QED
      BY <2>2, <2>3, <3>2
  <2>5. CASE p = l + 1
    <3>1. f = 0
      BY <1>1, <1>2, <2>2, <2>5
    <3> QED
      BY <2>3, <2>5, <3>1
  <2> QED
    BY <1>1, <1>2, <2>4, <2>5
<1>7. HostAt(str) = h
  <2>1. PICK cs, f : cs = {"@", "/"} /\ f = FindFirst(str, u, cs)
    OBVIOUS
  <2>2. \/ f = 0 /\ \A k \in u..Len(str) : str[k] \notin cs
        \/ f \in u..Len(str) /\ str[f] \in cs /\ \A k \in u..(f - 1) : str[k] \notin cs
    BY <2>1, FirstIs
  <2>3. \/ f = 0 /\ \A k \in u..l : str[k] # "@" /\ str[k] # "/"
        \/ f \in u..l /\ (str[f] = "@" \/ str[f] = "/") /\ \A k \in u..(f - 1) : str[k] # "@" /\ str[k] # "/"
    BY <1>1, <2>1, <2>2
  <2>4. HostAt(str) = IF f # 0 /\ str[f] = "@" THEN f + 1 ELSE u
    BY <1>5, <2>1 DEF HostAt
  <2>5. CASE h = u /\ \A k \in u..(p - 1) : str[k] # "@"
    <3>1. ASSUME f # 0, str[f] = "@" PROVE FALSE
      <4>1. f \in u..l /\ \A k \in u..(f - 1) : str[k] # "/"
        BY <2>3, <3>1
      <4>2. ~(f < p)
        BY <2>5, <3>1, <4>1
      <4>3. p <= l /\ str[p] = "/" /\ p # f
        BY <1>1, <1>2, <3>1, <4>1, <4>2
      <4>4. p \in u..(f - 1)
        BY <1>2, <4>1, <4>2, <4>3
      <4> QED
        BY <4>1, <4>3, <4>4
    <3> QED
      BY <2>4, <2>5, <3>1
  <2>6. CASE h > u /\ str[h - 1] = "@" /\ \A k \in u..(h - 2) : str[k] # "@"
    <3>1. PICK g \in Nat : g = h - 1 /\ g \in u..l /\ h = g + 1 /\ str[g] = "@" /\ \A k \in u..(g - 1) : str[k] # "@"
      <4>1. h - 1 \in Nat /\ h - 1 \in u..l /\ h = (h - 1) + 1 /\ (h - 1) - 1 = h - 2
        BY <1>1, <1>2, <2>6
      <4> QED
        BY <2>6, <4>1
    <3>2. \A k \in u..(g - 1) : str[k] # "/"
      <4>1. \A k \in u..(g - 1) : k \in u..(p - 1)
        BY <1>2, <3>1
      <4> QED
        BY <1>2, <4>1
    <3>3. f # 0 /\ ~(f < g) /\ ~(f > g)
      <4>1. ASSUME f # 0, f < g PROVE FALSE
        <5>1. f \in u..(g - 1)
          BY <2>3, <3>1, <4>1
        <5> QED
          BY <2>3, <3>1, <3>2, <4>1, <5>1
      <4> QED
        BY <2>3, <3>1, <4>1
    <3>4. f = g
      BY <2>3, <3>1, <3>3
    <3> QED
      BY <2>4, <3>1, <3>4
  <2> QED
    BY <1>2, <2>5, <2>6
<1> QED
  BY <1>4, <1>5, <1>6, <1>7

\* The first place of one character from position u on.
FirstOne(str, u, d, f) ==
  \/ f = 0 /\ \A k \in u..Len(str) : str[k] # d
  \/ f \in u..Len(str) /\ str[f] = d /\ \A k \in u..(f - 1) : str[k] # d

\* The positions of "/", "?", and "#" and what is made of them.
LEMMA TailFrom ==
  ASSUME NEW str \in Seq(Tokens), UserAt(str) \in Nat \ {0}
  PROVE  \E s, q, f : /\ FirstOne(str, UserAt(str), "/", s) /\ PathAt(str) = IF s = 0 THEN Len(str) + 1 ELSE s
                      /\ FirstOne(str, UserAt(str), "?", q) /\ FirstOne(str, UserAt(str), "#", f)
                      /\ EndAt(str) = IF f = 0 THEN Len(str) + 1 ELSE f
                      /\ StopAt(str) = IF q = 0 \/ q > EndAt(str) THEN EndAt(str) ELSE q
<1>1. PICK u \in Nat \ {0} : u = UserAt(str)
  OBVIOUS
<1>2. PICK a, b, c : a = {"/"} /\ b = {"?"} /\ c = {"#"}
  OBVIOUS
<1>3. PICK s, q, f : s = FindFirst(str, u, a) /\ q = FindFirst(str, u, b) /\ f = FindFirst(str, u, c)
  OBVIOUS
<1>4. FirstOne(str, u, "/", s)
  <2>1. \/ s = 0 /\ \A k \in u..Len(str) : str[k] \notin a
        \/ s \in u..Len(str) /\ str[s] \in a /\ \A k \in u..(s - 1) : str[k] \notin a
    BY <1>3, FirstIs
  <2> QED
    BY <1>2, <2>1 DEF FirstOne
<1>5. FirstOne(str, u, "?", q)
  <2>1. \/ q = 0 /\ \A k \in u..Len(str) : str[k] \notin b
        \/ q \in u..Len(str) /\ str[q] \in b /\ \A k \in u..(q - 1) : str[k] \notin b
    BY <1>3, FirstIs
  <2> QED
    BY <1>2, <2>1 DEF FirstOne
<1>6. FirstOne(str, u, "#", f)
  <2>1. \/ f = 0 /\ \A k \in u..Len(str) : str[k] \notin c
        \/ f \in u..Len(str) /\ str[f] \in c /\ \A k \in u..(f - 1) : str[k] \notin c
    BY <1>3, FirstIs
  <2> QED
    BY <1>2, <2>1 DEF FirstOne
<1>7. /\ PathAt(str) = IF s = 0 THEN Len(str) + 1 ELSE s
      /\ EndAt(str) = IF f = 0 THEN Len(str) + 1 ELSE f
      /\ StopAt(str) = IF q = 0 \/ q > EndAt(str) THEN EndAt(str) ELSE q
  BY <1>1, <1>2, <1>3 DEF PathAt, EndAt, StopAt
<1> QED
  BY <1>1, <1>4, <1>5, <1>6, <1>7

\* A URL with these parts is parsed into them.
LEMMA ParseOf ==
  ASSUME NEW str \in Seq(Tokens), NEW c \in Nat \ {0}, NEW u \in Nat \ {0}, NEW h \in Nat \ {0},
         NEW p \in Nat \ {0}, NEW st \in Nat \ {0}, NEW en \in Nat \ {0},
         Hosted(str, c, u, h, p), Behind(str, p, st, en)
  PROVE  ParseURL(str) = PartsOf(str, u, h, p, st, en)
<1>1. PICK l \in Nat : l = Len(str)
  OBVIOUS
<1>2. /\ p <= st /\ st <= en /\ en <= l + 1
      /\ p <= l => str[p] = "/"
      /\ \A k \in p..(st - 1) : str[k] # "?" /\ str[k] # "#"
      /\ \A k \in st..(en - 1) : str[k] # "#"
      /\ st < en => str[st] = "?"
      /\ en <= l => str[en] = "#"
  BY <1>1 DEF Behind
<1>3. /\ c < u /\ u <= h /\ h < p /\ str[c] = ":"
      /\ \A k \in u..(p - 1) : str[k] # "?" /\ str[k] # "#"
  BY DEF Hosted
<1>4. ColonAt(str) = c /\ UserAt(str) = u /\ HostAt(str) = h /\ PathAt(str) = p
  BY <1>1, <1>2, HeadFound
<1>5. PICK q, f : /\ FirstOne(str, u, "?", q) /\ FirstOne(str, u, "#", f)
                  /\ EndAt(str) = IF f = 0 THEN Len(str) + 1 ELSE f
                  /\ StopAt(str) = IF q = 0 \/ q > EndAt(str) THEN EndAt(str) ELSE q
  BY <1>4, TailFrom
<1>6. \/ q = 0 /\ \A k \in u..l : str[k] # "?"
      \/ q \in u..l /\ str[q] = "?" /\ \A k \in u..(q - 1) : str[k] # "?"
  BY <1>1, <1>5 DEF FirstOne
<1>7. \/ f = 0 /\ \A k \in u..l : str[k] # "#"
      \/ f \in u..l /\ str[f] = "#" /\ \A k \in u..(f - 1) : str[k] # "#"
  BY <1>1, <1>5 DEF FirstOne
<1>8. \A k \in u..(en - 1) : str[k] # "#"
  <2>1. ASSUME NEW k \in u..(en - 1) PROVE str[k] # "#"
    <3>1. k \in u..(p - 1) \/ k \in p..(st - 1) \/ k \in st..(en - 1)
      BY <1>2
    <3> QED
      BY <1>2, <1>3, <3>1
  <2> QED
    BY <2>1
<1>9. \A k \in u..(st - 1) : str[k] # "?"
  <2>1. ASSUME NEW k \in u..(st - 1) PROVE str[k] # "?"
    <3>1. k \in u..(p - 1) \/ k \in p..(st - 1)
      BY <1>2
    <3> QED
      BY <1>2, <1>3, <3>1
  <2> QED
    BY <2>1
<1>10. u < en /\ u < st
  BY <1>2, <1>3
<1>11. EndAt(str) = en
  <2>1. CASE en <= l
    <3>1. en \in u..l /\ str[en] = "#"
      BY <1>2, <1>10, <2>1
    <3>2. f # 0 /\ ~(f < en) /\ ~(f > en)
      BY <1>7, <1>8, <1>10, <3>1
    <3> QED
      BY <1>5, <1>7, <3>2
  <2>2. CASE en = l + 1
    <3>1. f = 0
      BY <1>7, <1>8, <2>2
    <3> QED
      BY <1>1, <1>5, <2>2, <3>1
  <2> QED
    BY <1>2, <2>1, <2>2
<1>12. StopAt(str) = st
  <2>1. CASE st < en
    <3>1. st \in u..l /\ str[st] = "?"
      BY <1>2, <1>10, <2>1
    <3>2. q # 0 /\ ~(q < st) /\ ~(q > st)
      BY <1>6, <1>9, <1>10, <3>1
    <3>3. q = st
      BY <1>6, <3>2
    <3> QED
      BY <1>5, <1>11, <2>1, <3>2, <3>3
  <2>2. CASE st = en
    <3>1. q = 0 \/ q > en
      <4> SUFFICES ASSUME q # 0, ~(q > en) PROVE FALSE
        BY <1>6
      <4>1. q \in u..l /\ str[q] = "?" /\ q <= en
        BY <1>6
      <4>2. ~(q < en)
        BY <1>9, <2>2, <4>1
      <4>3. q = en /\ en <= l
        BY <4>1, <4>2
      <4> QED
        BY <1>2, <4>1, <4>3
    <3> QED
      BY <1>5, <1>11, <2>2, <3>1
  <2> QED
    BY <1>2, <2>1, <2>2
<1>13. ~(ColonAt(str) = 0 \/ str[ColonAt(str)] # ":" \/ StopAt(str) < PathAt(str))
  BY <1>2, <1>3, <1>4, <1>12
<1> QED
  BY <1>4, <1>11, <1>12, <1>13, ParseFrom

\* A URL that parses has a colon, and these positions.
LEMMA ParseGives ==
  ASSUME NEW str \in Seq(Tokens), ParseURL(str).ok, ParseURL(str).host # <<>>
  PROVE  \E c \in Nat \ {0}, u \in Nat \ {0}, h \in Nat \ {0}, p \in Nat \ {0}, st \in Nat \ {0}, en \in Nat \ {0} :
           /\ Hosted(str, c, u, h, p) /\ Behind(str, p, st, en)
           /\ ParseURL(str) = PartsOf(str, u, h, p, st, en)
<1>1. PICK l \in Nat : l = Len(str)
  OBVIOUS
<1>2. PICK c, u, h, p, st, en :
        c = ColonAt(str) /\ u = UserAt(str) /\ h = HostAt(str) /\ p = PathAt(str) /\ st = StopAt(str) /\ en = EndAt(str)
  OBVIOUS
<1>3. c # 0 /\ str[c] = ":" /\ ~(st < p) /\ ParseURL(str) = PartsOf(str, u, h, p, st, en)
  BY <1>2, ParseFrom DEF NotParsed
<1>4. c \in 1..l /\ \A k \in 1..(c - 1) : str[k] # ":" /\ str[k] # "/" /\ str[k] # "?" /\ str[k] # "#"
  BY <1>1, <1>2, <1>3, ColonIs
<1>5. u = IF c + 2 <= Len(str) /\ str[c + 1] = "/" /\ str[c + 2] = "/" THEN c + 3 ELSE c + 1
  BY <1>1, <1>2, <1>4, UserIs
<1>6. u \in Nat \ {0} /\ c < u /\ ((u = c + 3 /\ str[c + 1] = "/" /\ str[c + 2] = "/") \/ u = c + 1)
  BY <1>4, <1>5
<1>7. PICK s, q, f : /\ FirstOne(str, u, "/", s) /\ p = IF s = 0 THEN Len(str) + 1 ELSE s
                     /\ FirstOne(str, u, "?", q) /\ FirstOne(str, u, "#", f)
                     /\ en = IF f = 0 THEN Len(str) + 1 ELSE f
                     /\ st = IF q = 0 \/ q > en THEN en ELSE q
  BY <1>2, <1>6, TailFrom
<1>8. \/ s = 0 /\ \A k \in u..l : str[k] # "/"
      \/ s \in u..l /\ str[s] = "/" /\ \A k \in u..(s - 1) : str[k] # "/"
  BY <1>1, <1>7 DEF FirstOne
<1>9. \/ q = 0 /\ \A k \in u..l : str[k] # "?"
      \/ q \in u..l /\ str[q] = "?" /\ \A k \in u..(q - 1) : str[k] # "?"
  BY <1>1, <1>7 DEF FirstOne
<1>10. \/ f = 0 /\ \A k \in u..l : str[k] # "#"
       \/ f \in u..l /\ str[f] = "#" /\ \A k \in u..(f - 1) : str[k] # "#"
  BY <1>1, <1>7 DEF FirstOne
<1>11. /\ p \in Nat \ {0} /\ p <= l + 1 /\ (p <= l => str[p] = "/" /\ u <= p)
       /\ \A k \in u..(p - 1) : str[k] # "/"
  BY <1>1, <1>6, <1>7, <1>8
<1>12. /\ en \in Nat \ {0} /\ en <= l + 1 /\ (en <= l => str[en] = "#")
       /\ \A k \in u..(en - 1) : str[k] # "#"
  BY <1>1, <1>6, <1>7, <1>10
<1>13. /\ st \in Nat \ {0} /\ st <= en /\ (st < en => str[st] = "?")
       /\ \A k \in u..(st - 1) : str[k] # "?"
  <2>1. CASE q = 0 \/ q > en
    <3>1. st = en
      BY <1>7, <2>1
    <3>2. ASSUME NEW k \in u..(en - 1) PROVE str[k] # "?"
      <4>1. k \in u..l
        BY <1>6, <1>12
      <4>2. CASE q = 0
        BY <1>6, <1>9, <4>1, <4>2
      <4>3. CASE q # 0
        <5>1. q > en /\ q \in u..l /\ \A j \in u..(q - 1) : str[j] # "?"
          BY <1>6, <1>9, <2>1, <4>3
        <5>2. k \in u..(q - 1)
          BY <1>12, <4>1, <5>1
        <5> QED
          BY <5>1, <5>2
      <4> QED
        BY <4>2, <4>3
    <3> QED
      BY <1>12, <3>1, <3>2
  <2>2. CASE ~(q = 0 \/ q > en)
    <3>1. st = q
      BY <1>7, <2>2
    <3> QED
      BY <1>6, <1>9, <1>12, <2>2, <3>1
  <2> QED
    BY <2>1, <2>2
<1>14. p <= st
  BY <1>3, <1>11, <1>13
<1>15. h < p /\ h \in Nat
  <2>1. h \in Nat
    <3>1. PICK cs, g : cs = {"@", "/"} /\ g = FindFirst(str, u, cs)
      OBVIOUS
    <3>2. g = 0 \/ g \in u..Len(str)
      BY <1>6, <3>1, FirstIs
    <3>3. h = IF g # 0 /\ str[g] = "@" THEN g + 1 ELSE u
      BY <1>2, <3>1 DEF HostAt
    <3> QED
      BY <1>6, <3>2, <3>3
  <2>2. SUFFICES ASSUME ~(h < p) PROVE FALSE
    BY <2>1
  <2>3. ParseURL(str).host = Lower(SubSeq(str, h, p - 1))
    BY <1>3 DEF PartsOf
  <2>4. PICK t : t = SubSeq(str, h, p - 1)
    OBVIOUS
  <2>5. t = <<>>
    BY <1>11, <2>1, <2>2, <2>4
  <2>6. Lower(t) = <<>>
    BY <2>5 DEF Lower
  <2> QED
    BY <2>3, <2>4, <2>6
<1>16. /\ u <= h
       /\ \/ h = u /\ \A k \in u..(p - 1) : str[k] # "@"
          \/ h > u /\ str[h - 1] = "@" /\ \A k \in u..(h - 2) : str[k] # "@"
  <2>1. PICK cs, g : cs = {"@", "/"} /\ g = FindFirst(str, u, cs)
    OBVIOUS
  <2>2. \/ g = 0 /\ \A k \in u..Len(str) : str[k] \notin cs
        \/ g \in u..Len(str) /\ str[g] \in cs /\ \A k \in u..(g - 1) : str[k] \notin cs
    <3>1. u \in Nat \ {0}
      BY <1>6
    <3>2. g = FindFirst(str, u, cs)
      BY <2>1
    <3> HIDE <2>1
    <3> QED
      BY <3>1, <3>2, FirstIs
  <2>3. \/ g = 0 /\ \A k \in u..l : str[k] # "@" /\ str[k] # "/"
        \/ g \in u..l /\ (str[g] = "@" \/ str[g] = "/") /\ \A k \in u..(g - 1) : str[k] # "@" /\ str[k] # "/"
    BY <1>1, <2>1, <2>2
  <2>4. h = IF g # 0 /\ str[g] = "@" THEN g + 1 ELSE u
    BY <1>2, <2>1 DEF HostAt
  <2>5. CASE g # 0 /\ str[g] = "@"
    <3>1. h = g + 1 /\ g \in u..l /\ \A k \in u..(g - 1) : str[k] # "@"
      BY <2>3, <2>4, <2>5
    <3>2. h - 1 = g /\ h - 2 = g - 1 /\ u <= h /\ h > u
      BY <1>6, <3>1
    <3> QED
      BY <2>5, <3>1, <3>2
  <2>6. CASE g # 0 /\ str[g] # "@"
    <3>1. h = u /\ g \in u..l /\ str[g] = "/" /\ \A k \in u..(g - 1) : str[k] # "@"
      BY <2>3, <2>4, <2>6
    <3>2. p <= g
      BY <1>11, <3>1
    <3> QED
      BY <1>6, <1>11, <3>1, <3>2
  <2>7. CASE g = 0
    <3>1. h = u /\ \A k \in u..l : str[k] # "@"
      BY <1>6, <2>3, <2>4, <2>7
    <3> QED
      BY <1>6, <1>11, <3>1
  <2> QED
    BY <2>5, <2>6, <2>7
<1>17. h \in Nat \ {0} /\ c \in Nat \ {0}
  BY <1>4, <1>6, <1>15, <1>16
<1>18. \A k \in u..(p - 1) : str[k] # "/" /\ str[k] # "?" /\ str[k] # "#"
  BY <1>6, <1>11, <1>12, <1>13, <1>14
<1>19. Hosted(str, c, u, h, p)
  BY <1>1, <1>3, <1>4, <1>6, <1>11, <1>15, <1>16, <1>18 DEF Hosted
<1>20. Behind(str, p, st, en)
  <2>1. u <= p
    BY <1>6, <1>11, <1>15, <1>16
  <2>2. \A k \in p..(st - 1) : str[k] # "?" /\ str[k] # "#"
    BY <1>6, <1>11, <1>12, <1>13, <2>1
  <2>3. \A k \in st..(en - 1) : str[k] # "#"
    BY <1>6, <1>11, <1>12, <1>13, <1>14, <2>1
  <2> QED
    BY <1>1, <1>11, <1>12, <1>13, <1>14, <2>2, <2>3 DEF Behind
<1> QED
  BY <1>3, <1>6, <1>11, <1>12, <1>13, <1>17, <1>19, <1>20

\* The sequence x stands in v behind position a.
LiesAt(v, a, x) == a + Len(x) <= Len(v) /\ \A k \in 1..Len(x) : v[a + k] = x[k]

\* Its first and its last place.
Extent(a, x, i, j) == i = a + 1 /\ j = a + Len(x)

\* It is the part of v between them.
LEMMA LiesPart ==
  ASSUME NEW v \in Seq(Tokens), NEW x \in Seq(Tokens), NEW a \in Nat, LiesAt(v, a, x),
         NEW i, NEW j, Extent(a, x, i, j)
  PROVE  SubSeq(v, i, j) = x
<1>1. PICK n \in Nat : n = Len(x)
  OBVIOUS
<1>1a. i = a + 1 /\ j = a + Len(x)
  BY DEF Extent
<1>2. i \in Nat \ {0} /\ j \in Nat /\ i <= j + 1 /\ j <= Len(v)
  BY <1>1, <1>1a DEF LiesAt
<1>3. PICK t : t = SubSeq(v, i, j)
  OBVIOUS
<1>4. t \in Seq(Tokens) /\ Len(t) = (j + 1) - i /\ \A k \in 1..((j + 1) - i) : t[k] = v[(i - 1) + k]
  BY <1>2, <1>3, PartIs
<1>5. (j + 1) - i = n /\ i - 1 = a
  BY <1>1, <1>1a
<1>6. \A k \in 1..n : v[a + k] = x[k]
  BY <1>1 DEF LiesAt
<1>7. Len(t) = Len(x) /\ \A k \in 1..Len(t) : t[k] = x[k]
  BY <1>1, <1>4, <1>5, <1>6
<1>8. t = x
  BY <1>4, <1>7, SameSeq
<1> QED
  BY <1>3, <1>8

\* What lies in t lies in v.
Keeps(t, v) == \A a \in Nat, y \in Seq(Tokens) : LiesAt(t, a, y) => LiesAt(v, a, y)

\* What lies in a sequence stays there when something is put behind it.
LEMMA LiesJoined ==
  ASSUME NEW t \in Seq(Tokens), NEW x \in Seq(Tokens), NEW v, v = t \o x
  PROVE  v \in Seq(Tokens) /\ Len(v) = Len(t) + Len(x) /\ LiesAt(v, Len(t), x) /\ Keeps(t, v)
<1>1. PICK m \in Nat, n \in Nat : m = Len(t) /\ n = Len(x)
  OBVIOUS
<1>2. v \in Seq(Tokens) /\ Len(v) = m + n
  BY <1>1, Concatenation
<1>2a. \A i \in 1..m : v[i] = t[i]
  BY <1>1, Concatenation
<1>2b. \A j \in 1..n : v[m + j] = x[j]
  BY <1>1, Concatenation
<1>3. LiesAt(v, Len(t), x)
  BY <1>1, <1>2, <1>2b DEF LiesAt
<1>4. ASSUME NEW a \in Nat, NEW y \in Seq(Tokens), LiesAt(t, a, y) PROVE LiesAt(v, a, y)
  <2>1. PICK k \in Nat : k = Len(y) /\ a + k <= m /\ \A i \in 1..k : t[a + i] = y[i]
    BY <1>1, <1>4 DEF LiesAt
  <2>2. ASSUME NEW i \in 1..k PROVE v[a + i] = y[i]
    <3>1. a + i \in 1..m
      BY <2>1
    <3> QED
      BY <1>2a, <2>1, <3>1
  <2> QED
    BY <1>2, <2>1, <2>2 DEF LiesAt
<1> QED
  BY <1>1, <1>2, <1>3, <1>4 DEF Keeps

\* The six parts of a URL lie behind each other.
SixParts(v, a, b, c, d, e, f) ==
  /\ v \in Seq(Tokens)
  /\ Len(v) = Len(a) + Len(b) + Len(c) + Len(d) + Len(e) + Len(f)
  /\ LiesAt(v, 0, a) /\ LiesAt(v, Len(a), b) /\ LiesAt(v, Len(a) + Len(b), c)
  /\ LiesAt(v, Len(a) + Len(b) + Len(c), d)
  /\ LiesAt(v, Len(a) + Len(b) + Len(c) + Len(d), e)
  /\ LiesAt(v, Len(a) + Len(b) + Len(c) + Len(d) + Len(e), f)

\* Joined, they lie one behind the other.
LEMMA SixJoined ==
  ASSUME NEW a \in Seq(Tokens), NEW b \in Seq(Tokens), NEW c \in Seq(Tokens),
         NEW d \in Seq(Tokens), NEW e \in Seq(Tokens), NEW f \in Seq(Tokens)
  PROVE  SixParts(a \o b \o c \o d \o e \o f, a, b, c, d, e, f)
<1>1. PICK v2, v3, v4, v5, v6 :
        v2 = a \o b /\ v3 = v2 \o c /\ v4 = v3 \o d /\ v5 = v4 \o e /\ v6 = v5 \o f
  OBVIOUS
<1>2. LiesAt(a, 0, a)
  BY DEF LiesAt
<1>3. /\ v2 \in Seq(Tokens) /\ Len(v2) = Len(a) + Len(b) /\ LiesAt(v2, Len(a), b)
      /\ LiesAt(v2, 0, a)
  <2>1. v2 \in Seq(Tokens) /\ Len(v2) = Len(a) + Len(b) /\ LiesAt(v2, Len(a), b) /\ Keeps(a, v2)
    <3>1. a \in Seq(Tokens) /\ v2 = a \o b
      BY <1>1, <1>2
    <3> QED
      BY <3>1, LiesJoined
  <2>2. 0 \in Nat
    BY <1>2
  <2> QED
    BY <1>2, <2>1, <2>2 DEF Keeps
<1>4. /\ v3 \in Seq(Tokens) /\ Len(v3) = Len(v2) + Len(c) /\ LiesAt(v3, Len(v2), c)
      /\ LiesAt(v3, 0, a) /\ LiesAt(v3, Len(a), b)
  <2>1. v3 \in Seq(Tokens) /\ Len(v3) = Len(v2) + Len(c) /\ LiesAt(v3, Len(v2), c) /\ Keeps(v2, v3)
    <3>1. v2 \in Seq(Tokens) /\ v3 = v2 \o c
      BY <1>1, <1>3
    <3> QED
      BY <3>1, LiesJoined
  <2>2. 0 \in Nat /\ Len(a) \in Nat
    BY <1>2, <1>3
  <2> QED
    BY <1>3, <2>1, <2>2 DEF Keeps
<1>5. /\ v4 \in Seq(Tokens) /\ Len(v4) = Len(v3) + Len(d) /\ LiesAt(v4, Len(v3), d)
      /\ LiesAt(v4, 0, a) /\ LiesAt(v4, Len(a), b) /\ LiesAt(v4, Len(v2), c)
  <2>1. v4 \in Seq(Tokens) /\ Len(v4) = Len(v3) + Len(d) /\ LiesAt(v4, Len(v3), d) /\ Keeps(v3, v4)
    <3>1. v3 \in Seq(Tokens) /\ v4 = v3 \o d
      BY <1>1, <1>4
    <3> QED
      BY <3>1, LiesJoined
  <2>2. 0 \in Nat /\ Len(a) \in Nat /\ Len(v2) \in Nat
    BY <1>2, <1>3, <1>4
  <2> QED
    BY <1>4, <2>1, <2>2 DEF Keeps
<1>6. /\ v5 \in Seq(Tokens) /\ Len(v5) = Len(v4) + Len(e) /\ LiesAt(v5, Len(v4), e)
      /\ LiesAt(v5, 0, a) /\ LiesAt(v5, Len(a), b) /\ LiesAt(v5, Len(v2), c) /\ LiesAt(v5, Len(v3), d)
  <2>1. v5 \in Seq(Tokens) /\ Len(v5) = Len(v4) + Len(e) /\ LiesAt(v5, Len(v4), e) /\ Keeps(v4, v5)
    <3>1. v4 \in Seq(Tokens) /\ v5 = v4 \o e
      BY <1>1, <1>5
    <3> QED
      BY <3>1, LiesJoined
  <2>2. 0 \in Nat /\ Len(a) \in Nat /\ Len(v2) \in Nat /\ Len(v3) \in Nat
    BY <1>2, <1>3, <1>4, <1>5
  <2> QED
    BY <1>5, <2>1, <2>2 DEF Keeps
<1>7. /\ v6 \in Seq(Tokens) /\ Len(v6) = Len(v5) + Len(f) /\ LiesAt(v6, Len(v5), f)
      /\ LiesAt(v6, 0, a) /\ LiesAt(v6, Len(a), b) /\ LiesAt(v6, Len(v2), c) /\ LiesAt(v6, Len(v3), d) /\ LiesAt(v6, Len(v4), e)
  <2>1. v6 \in Seq(Tokens) /\ Len(v6) = Len(v5) + Len(f) /\ LiesAt(v6, Len(v5), f) /\ Keeps(v5, v6)
    <3>1. v5 \in Seq(Tokens) /\ v6 = v5 \o f
      BY <1>1, <1>6
    <3> QED
      BY <3>1, LiesJoined
  <2>2. 0 \in Nat /\ Len(a) \in Nat /\ Len(v2) \in Nat /\ Len(v3) \in Nat /\ Len(v4) \in Nat
    BY <1>2, <1>3, <1>4, <1>5, <1>6
  <2> QED
    BY <1>6, <2>1, <2>2 DEF Keeps
<1>8. SixParts(v6, a, b, c, d, e, f)
  BY <1>3, <1>4, <1>5, <1>6, <1>7 DEF SixParts
<1> QED
  BY <1>1, <1>8

\* What tolower does to a string.
LEMMA LowerIs ==
  ASSUME NEW s \in Seq(Tokens)
  PROVE  /\ Lower(s) \in Seq(Tokens) /\ Len(Lower(s)) = Len(s)
         /\ \A k \in 1..Len(s) : Lower(s)[k] = LowerCase[s[k]]
         /\ Lower(Lower(s)) = Lower(s)
<1>1. PICK n \in Nat : n = Len(s) /\ DOMAIN s = 1..n
  OBVIOUS
<1>2. \A k \in 1..n : s[k] \in Tokens /\ LowerCase[s[k]] \in Tokens /\ LowerCase[LowerCase[s[k]]] = LowerCase[s[k]]
  <2>1. \A k \in 1..n : s[k] \in Tokens
    BY <1>1
  <2> QED
    BY <2>1, UrlAssumption
<1>3. PICK t : t = [k \in 1..n |-> LowerCase[s[k]]]
  OBVIOUS
<1>4. Lower(s) = t
  BY <1>1, <1>3 DEF Lower
<1>5. t \in Seq(Tokens) /\ Len(t) = n /\ DOMAIN t = 1..n
  <2>1. t \in [1..n -> Tokens]
    BY <1>2, <1>3
  <2> QED
    BY <2>1
<1>6. Lower(t) = [k \in 1..n |-> LowerCase[t[k]]]
  BY <1>5 DEF Lower
<1>7. \A k \in 1..n : LowerCase[t[k]] = t[k]
  BY <1>2, <1>3
<1>8. Lower(t) = t
  <2>1. t = [k \in 1..n |-> t[k]]
    BY <1>3
  <2>2. Lower(t) = [k \in 1..n |-> t[k]]
    BY <1>6, <1>7
  <2> QED
    BY <2>1, <2>2
<1> QED
  BY <1>1, <1>3, <1>4, <1>5, <1>8

\* Both strings have the same delimiters in their first n places.
SameDelims(v, str, n) ==
  \A k \in 1..n : /\ v[k] = ":" <=> str[k] = ":"
                  /\ v[k] = "/" <=> str[k] = "/"
                  /\ v[k] = "?" <=> str[k] = "?"
                  /\ v[k] = "#" <=> str[k] = "#"
                  /\ v[k] = "@" <=> str[k] = "@"

\* Strings with the same delimiters up to the path have their hosts in the same place.
LEMMA HostedSame ==
  ASSUME NEW str, NEW v, NEW c \in Nat \ {0}, NEW u \in Nat \ {0}, NEW h \in Nat \ {0}, NEW p \in Nat \ {0},
         Hosted(str, c, u, h, p), NEW n, n = p - 1, SameDelims(v, str, n), Len(v) \in Nat, p <= Len(v) + 1
  PROVE  Hosted(v, c, u, h, p)
<1>1. /\ c < u /\ u <= h /\ h < p /\ str[c] = ":"
      /\ \A k \in 1..(c - 1) : str[k] # ":" /\ str[k] # "/" /\ str[k] # "?" /\ str[k] # "#"
      /\ (u = c + 3 /\ str[c + 1] = "/" /\ str[c + 2] = "/") \/ u = c + 1
      /\ \A k \in u..(p - 1) : str[k] # "/" /\ str[k] # "?" /\ str[k] # "#"
      /\ \/ h = u /\ \A k \in u..(p - 1) : str[k] # "@"
         \/ h > u /\ str[h - 1] = "@" /\ \A k \in u..(h - 2) : str[k] # "@"
  BY DEF Hosted
<1>2. n \in Nat /\ \A k \in 1..n : /\ v[k] = ":" <=> str[k] = ":"
                                   /\ v[k] = "/" <=> str[k] = "/"
                                   /\ v[k] = "?" <=> str[k] = "?"
                                   /\ v[k] = "#" <=> str[k] = "#"
                                   /\ v[k] = "@" <=> str[k] = "@"
  BY DEF SameDelims
<1>3. v[c] = ":" /\ \A k \in 1..(c - 1) : v[k] # ":" /\ v[k] # "/" /\ v[k] # "?" /\ v[k] # "#"
  <2>1. c \in 1..n /\ \A k \in 1..(c - 1) : k \in 1..n
    BY <1>1
  <2> QED
    BY <1>1, <1>2, <2>1
<1>4. (u = c + 3 /\ v[c + 1] = "/" /\ v[c + 2] = "/") \/ u = c + 1
  <2>1. CASE u = c + 3 /\ str[c + 1] = "/" /\ str[c + 2] = "/"
    <3>1. c + 1 \in 1..n /\ c + 2 \in 1..n
      BY <1>1, <2>1
    <3> QED
      BY <1>2, <2>1, <3>1
  <2> QED
    BY <1>1, <2>1
<1>5. \A k \in u..(p - 1) : v[k] # "/" /\ v[k] # "?" /\ v[k] # "#" /\ (str[k] # "@" => v[k] # "@")
  <2>1. \A k \in u..(p - 1) : k \in 1..n
    BY <1>1
  <2> QED
    BY <1>1, <1>2, <2>1
<1>6. \/ h = u /\ \A k \in u..(p - 1) : v[k] # "@"
      \/ h > u /\ v[h - 1] = "@" /\ \A k \in u..(h - 2) : v[k] # "@"
  <2>1. CASE h = u /\ \A k \in u..(p - 1) : str[k] # "@"
    BY <1>5, <2>1
  <2>2. CASE h > u /\ str[h - 1] = "@" /\ \A k \in u..(h - 2) : str[k] # "@"
    <3>1. h - 1 \in 1..n
      BY <1>1, <2>2
    <3>2. \A k \in u..(h - 2) : k \in 1..n
      BY <1>1
    <3> QED
      BY <1>2, <2>2, <3>1, <3>2
  <2> QED
    BY <1>1, <2>1, <2>2
<1> QED
  BY <1>1, <1>3, <1>4, <1>5, <1>6 DEF Hosted

\* Scheme, user and host of a URL between these positions.
HeadOf(str, u, h, p, x, y, z) ==
  x = Lower(SubSeq(str, 1, u - 1)) /\ y = SubSeq(str, u, h - 1) /\ z = Lower(SubSeq(str, h, p - 1))

\* The types and lengths of scheme, user and host, of which the first and the last are
\* lower case.
HeadType(u, h, p, x, y, z) ==
  /\ x \in Seq(Tokens) /\ y \in Seq(Tokens) /\ z \in Seq(Tokens)
  /\ Len(x) = u - 1 /\ Len(y) = h - u /\ Len(z) = p - h
  /\ Lower(x) = x /\ Lower(z) = z /\ z # <<>>

\* The delimiters of LowerCase are those of the string.
LEMMA LowerDelims ==
  ASSUME NEW a \in Tokens
  PROVE  /\ LowerCase[a] = ":" <=> a = ":"
         /\ LowerCase[a] = "/" <=> a = "/"
         /\ LowerCase[a] = "?" <=> a = "?"
         /\ LowerCase[a] = "#" <=> a = "#"
         /\ LowerCase[a] = "@" <=> a = "@"
<1>1. ":" \in Delimiters /\ "/" \in Delimiters /\ "?" \in Delimiters /\ "#" \in Delimiters /\ "@" \in Delimiters
  BY DEF Delimiters
<1>2. \A d \in Delimiters : LowerCase[a] = d <=> a = d
  BY UrlAssumption
<1> QED
  BY <1>1, <1>2

\* The head of a URL, where it is put in another one.
LEMMA HeadIs ==
  ASSUME NEW str \in Seq(Tokens), NEW u \in Nat \ {0}, NEW h \in Nat \ {0}, NEW p \in Nat \ {0},
         u <= h, h < p, p <= Len(str) + 1, NEW x, NEW y, NEW z, HeadOf(str, u, h, p, x, y, z)
  PROVE  /\ HeadType(u, h, p, x, y, z)
         /\ \A v : LiesAt(v, 0, x) /\ LiesAt(v, Len(x), y) /\ LiesAt(v, Len(x) + Len(y), z) =>
                     SameDelims(v, str, p - 1)
<1>1. PICK l \in Nat : l = Len(str)
  OBVIOUS
<1>2. PICK a, b : a = SubSeq(str, 1, u - 1) /\ b = SubSeq(str, h, p - 1)
  OBVIOUS
<1>3. x = Lower(a) /\ z = Lower(b) /\ y = SubSeq(str, u, h - 1)
  BY <1>2 DEF HeadOf
<1>4. a \in Seq(Tokens) /\ Len(a) = u - 1 /\ \A k \in 1..(u - 1) : a[k] = str[k]
  <2>1. PICK m \in Nat : m = u - 1 /\ m <= Len(str)
    <3>1. u - 1 \in Nat /\ u - 1 <= Len(str)
      BY <1>1
    <3> QED
      BY <3>1
  <2>2. a = SubSeq(str, 1, m)
    BY <1>2, <2>1
  <2>3. a \in Seq(Tokens) /\ Len(a) = m /\ \A k \in 1..m : a[k] = str[k]
    BY <2>1, <2>2, FrontIs
  <2> QED
    BY <2>1, <2>3
<1>5. y \in Seq(Tokens) /\ Len(y) = h - u /\ \A k \in 1..(h - u) : y[k] = str[(u - 1) + k]
  <2>1. PICK m \in Nat : m = h - 1 /\ m <= Len(str) /\ u <= m + 1 /\ (m + 1) - u = h - u
    <3>1. h - 1 \in Nat /\ h - 1 <= Len(str) /\ u <= (h - 1) + 1 /\ ((h - 1) + 1) - u = h - u
      BY <1>1
    <3> QED
      BY <3>1
  <2>2. y = SubSeq(str, u, m) /\ m <= Len(str) /\ u <= m + 1
    BY <1>3, <2>1
  <2>3. y \in Seq(Tokens) /\ Len(y) = (m + 1) - u /\ \A k \in 1..((m + 1) - u) : y[k] = str[(u - 1) + k]
    BY <2>2, PartIs
  <2> QED
    BY <2>1, <2>3
<1>6. b \in Seq(Tokens) /\ Len(b) = p - h /\ \A k \in 1..(p - h) : b[k] = str[(h - 1) + k]
  <2>1. PICK m \in Nat : m = p - 1 /\ m <= Len(str) /\ h <= m + 1 /\ (m + 1) - h = p - h
    <3>1. p - 1 \in Nat /\ p - 1 <= Len(str) /\ h <= (p - 1) + 1 /\ ((p - 1) + 1) - h = p - h
      BY <1>1
    <3> QED
      BY <3>1
  <2>2. b = SubSeq(str, h, m) /\ m <= Len(str) /\ h <= m + 1
    BY <1>2, <2>1
  <2>3. b \in Seq(Tokens) /\ Len(b) = (m + 1) - h /\ \A k \in 1..((m + 1) - h) : b[k] = str[(h - 1) + k]
    BY <2>2, PartIs
  <2> QED
    BY <2>1, <2>3
<1>7. x \in Seq(Tokens) /\ Len(x) = u - 1 /\ Lower(x) = x /\ \A k \in 1..(u - 1) : x[k] = LowerCase[str[k]]
  <2>1. PICK n \in Nat : n = Len(a) /\ n = u - 1
    BY <1>4
  <2>2. x \in Seq(Tokens) /\ Len(x) = Len(a) /\ Lower(x) = x /\ \A k \in 1..Len(a) : x[k] = LowerCase[a[k]]
    BY <1>3, <1>4, LowerIs
  <2>3. \A k \in 1..n : x[k] = LowerCase[a[k]] /\ a[k] = str[k]
    BY <1>4, <2>1, <2>2
  <2> QED
    BY <2>1, <2>2, <2>3
<1>8. z \in Seq(Tokens) /\ Len(z) = p - h /\ Lower(z) = z /\ \A k \in 1..(p - h) : z[k] = LowerCase[str[(h - 1) + k]]
  <2>1. PICK n \in Nat : n = Len(b) /\ n = p - h
    BY <1>6
  <2>2. z \in Seq(Tokens) /\ Len(z) = Len(b) /\ Lower(z) = z /\ \A k \in 1..Len(b) : z[k] = LowerCase[b[k]]
    BY <1>3, <1>6, LowerIs
  <2>3. \A k \in 1..n : z[k] = LowerCase[b[k]] /\ b[k] = str[(h - 1) + k]
    BY <1>6, <2>1, <2>2
  <2> QED
    BY <2>1, <2>2, <2>3
<1>9. z # <<>>
  <2>1. Len(z) # 0
    BY <1>8
  <2> QED
    BY <1>8, <2>1, EmptyQueue
<1>10. HeadType(u, h, p, x, y, z)
  BY <1>5, <1>7, <1>8, <1>9 DEF HeadType
<1>11. ASSUME NEW v, LiesAt(v, 0, x), LiesAt(v, Len(x), y), LiesAt(v, Len(x) + Len(y), z)
       PROVE  SameDelims(v, str, p - 1)
  <2>1. \A k \in 1..(u - 1) : v[k] = LowerCase[str[k]]
    <3>1. \A k \in 1..(u - 1) : v[0 + k] = x[k]
      BY <1>7, <1>11 DEF LiesAt
    <3>2. \A k \in 1..(u - 1) : 0 + k = k
      OBVIOUS
    <3> QED
      BY <1>7, <3>1, <3>2
  <2>2. \A k \in u..(h - 1) : v[k] = str[k]
    <3>1. \A k \in 1..(h - u) : v[(u - 1) + k] = y[k]
      BY <1>5, <1>7, <1>11 DEF LiesAt
    <3>2. ASSUME NEW k \in u..(h - 1) PROVE v[k] = str[k]
      <4>1. PICK i \in 1..(h - u) : (u - 1) + i = k
        <5>1. k - (u - 1) \in 1..(h - u) /\ (u - 1) + (k - (u - 1)) = k
          OBVIOUS
        <5> QED
          BY <5>1
      <4>2. v[(u - 1) + i] = y[i] /\ y[i] = str[(u - 1) + i]
        BY <1>5, <3>1
      <4> QED
        BY <4>1, <4>2
    <3> QED
      BY <3>2
  <2>3. \A k \in h..(p - 1) : v[k] = LowerCase[str[k]]
    <3>1. \A k \in 1..(p - h) : v[(h - 1) + k] = z[k]
      <4>1. Len(x) + Len(y) = h - 1
        BY <1>5, <1>7
      <4>2. LiesAt(v, h - 1, z)
        BY <1>11, <4>1
      <4> QED
        BY <1>8, <4>2 DEF LiesAt
    <3>2. ASSUME NEW k \in h..(p - 1) PROVE v[k] = LowerCase[str[k]]
      <4>1. PICK i \in 1..(p - h) : (h - 1) + i = k
        <5>1. k - (h - 1) \in 1..(p - h) /\ (h - 1) + (k - (h - 1)) = k
          OBVIOUS
        <5> QED
          BY <5>1
      <4>2. v[(h - 1) + i] = z[i] /\ z[i] = LowerCase[str[(h - 1) + i]]
        BY <1>8, <3>1
      <4> QED
        BY <4>1, <4>2
    <3> QED
      BY <3>2
  <2>4. ASSUME NEW k \in 1..(p - 1)
        PROVE  /\ v[k] = ":" <=> str[k] = ":"
               /\ v[k] = "/" <=> str[k] = "/"
               /\ v[k] = "?" <=> str[k] = "?"
               /\ v[k] = "#" <=> str[k] = "#"
               /\ v[k] = "@" <=> str[k] = "@"
    <3>1. k \in 1..(u - 1) \/ k \in u..(h - 1) \/ k \in h..(p - 1)
      OBVIOUS
    <3>2. v[k] = LowerCase[str[k]] \/ v[k] = str[k]
      BY <2>1, <2>2, <2>3, <3>1
    <3>3. str[k] \in Tokens
      <4>1. k \in 1..l
        BY <1>1
      <4> QED
        BY <1>1, <4>1
    <3>4. PICK a1 \in Tokens, b1 \in {v[k]} : a1 = str[k]
      BY <3>3
    <3>5. /\ LowerCase[a1] = ":" <=> a1 = ":"
          /\ LowerCase[a1] = "/" <=> a1 = "/"
          /\ LowerCase[a1] = "?" <=> a1 = "?"
          /\ LowerCase[a1] = "#" <=> a1 = "#"
          /\ LowerCase[a1] = "@" <=> a1 = "@"
      BY LowerDelims
    <3> QED
      BY <3>2, <3>4, <3>5
  <2> QED
    BY <2>4 DEF SameDelims
<1> QED
  BY <1>10, <1>11

\* What path, query and fragment of a URL look like.
Shaped(p, q, f) ==
  /\ p \in Seq(PathTokens) /\ q \in Seq(Tokens) /\ f \in Seq(Tokens)
  /\ p = <<>> => q = <<>> /\ f = <<>>
  /\ p # <<>> => p[1] = "/"
  /\ q # <<>> => q[1] = "?"
  /\ \A k \in 1..Len(q) : q[k] # "#"
  /\ f # <<>> => f[1] = "#"

\* Where they lie behind a host, the positions behind it are those of the parts.
LEMMA TailFits ==
  ASSUME NEW v \in Seq(Tokens), NEW a \in Nat, NEW b \in Nat, NEW c \in Nat, NEW p, NEW q, NEW f, Shaped(p, q, f),
         LiesAt(v, a, p), LiesAt(v, b, q), LiesAt(v, c, f),
         b = a + Len(p), c = b + Len(q), Len(v) = c + Len(f)
  PROVE  Behind(v, a + 1, b + 1, c + 1)
<1>1. /\ p \in Seq(PathTokens) /\ q \in Seq(Tokens) /\ f \in Seq(Tokens)
      /\ p = <<>> => q = <<>> /\ f = <<>>
      /\ p # <<>> => p[1] = "/"
      /\ q # <<>> => q[1] = "?"
      /\ \A k \in 1..Len(q) : q[k] # "#"
      /\ f # <<>> => f[1] = "#"
  BY DEF Shaped
<1>2. PICK i \in Nat, j \in Nat, k \in Nat : i = Len(p) /\ j = Len(q) /\ k = Len(f)
  BY <1>1
<1>3. b = a + i /\ c = b + j /\ Len(v) = c + k
  BY <1>2
<1>4. (p = <<>> <=> i = 0) /\ (q = <<>> <=> j = 0) /\ (f = <<>> <=> k = 0)
  BY <1>1, <1>2, EmptyQueue
<1>5. \A n \in 1..i : v[a + n] = p[n] /\ p[n] \in PathTokens
  BY <1>1, <1>2 DEF LiesAt
<1>6. \A n \in 1..j : v[b + n] = q[n] /\ q[n] # "#"
  BY <1>1, <1>2 DEF LiesAt
<1>7. \A n \in 1..k : v[c + n] = f[n]
  BY <1>2 DEF LiesAt
<1>8. a + 1 <= Len(v) => v[a + 1] = "/"
  <2> SUFFICES ASSUME a + 1 <= Len(v) PROVE v[a + 1] = "/"
    OBVIOUS
  <2>1. i # 0
    BY <1>1, <1>3, <1>4
  <2>2. 1 \in 1..i
    BY <2>1
  <2> QED
    BY <1>1, <1>4, <1>5, <2>1, <2>2
<1>9. \A n \in (a + 1)..((b + 1) - 1) : v[n] # "?" /\ v[n] # "#"
  <2>1. ASSUME NEW n \in (a + 1)..((b + 1) - 1) PROVE v[n] # "?" /\ v[n] # "#"
    <3>1. n - a \in 1..i /\ a + (n - a) = n
      BY <1>3
    <3>2. v[n] \in PathTokens
      BY <1>5, <3>1
    <3> QED
      BY <3>2 DEF PathTokens, Names
  <2> QED
    BY <2>1
<1>10. \A n \in (b + 1)..((c + 1) - 1) : v[n] # "#"
  <2>1. ASSUME NEW n \in (b + 1)..((c + 1) - 1) PROVE v[n] # "#"
    <3>1. n - b \in 1..j /\ b + (n - b) = n
      BY <1>3
    <3> QED
      BY <1>6, <3>1
  <2> QED
    BY <2>1
<1>11. b + 1 < c + 1 => v[b + 1] = "?"
  <2> SUFFICES ASSUME b + 1 < c + 1 PROVE v[b + 1] = "?"
    OBVIOUS
  <2>1. j # 0 /\ 1 \in 1..j
    BY <1>3
  <2> QED
    BY <1>1, <1>4, <1>6, <2>1
<1>12. c + 1 <= Len(v) => v[c + 1] = "#"
  <2> SUFFICES ASSUME c + 1 <= Len(v) PROVE v[c + 1] = "#"
    OBVIOUS
  <2>1. k # 0 /\ 1 \in 1..k
    BY <1>3
  <2> QED
    BY <1>1, <1>4, <1>7, <2>1
<1>13. a + 1 <= b + 1 /\ b + 1 <= c + 1 /\ c + 1 <= Len(v) + 1
  BY <1>3
<1> QED
  BY <1>8, <1>9, <1>10, <1>11, <1>12, <1>13 DEF Behind

\* A URL with the head of r and other parts behind it.
Rebuilt(r, p, q, f) == r.scheme \o r.user \o r.host \o p \o q \o f

\* The parts it is parsed into.
WithTail(r, p, q, f) ==
  [ok |-> TRUE, scheme |-> r.scheme, user |-> r.user, host |-> r.host, path |-> p, query |-> q, fragment |-> f]

\* A URL that is put together from the head of another one is parsed into these parts.
LEMMA Composed ==
  ASSUME NEW str \in Seq(Tokens), NEW r, r = ParseURL(str), r.ok, r.host # <<>>,
         NEW p, NEW q, NEW f, Shaped(p, q, f), NEW v, v = Rebuilt(r, p, q, f)
  PROVE  v \in Seq(Tokens) /\ ParseURL(v) = WithTail(r, p, q, f)
<1>1. PICK c \in Nat \ {0}, u \in Nat \ {0}, h \in Nat \ {0}, pp \in Nat \ {0}, st \in Nat \ {0}, en \in Nat \ {0} :
        /\ Hosted(str, c, u, h, pp) /\ Behind(str, pp, st, en)
        /\ ParseURL(str) = PartsOf(str, u, h, pp, st, en)
  BY ParseGives
<1>2. PICK x, y, z : x = r.scheme /\ y = r.user /\ z = r.host
  OBVIOUS
<1>3. HeadOf(str, u, h, pp, x, y, z)
  BY <1>1, <1>2 DEF PartsOf, HeadOf
<1>4. u <= h /\ h < pp /\ pp <= Len(str) + 1
  BY <1>1 DEF Hosted
<1>5. /\ HeadType(u, h, pp, x, y, z)
      /\ \A w : LiesAt(w, 0, x) /\ LiesAt(w, Len(x), y) /\ LiesAt(w, Len(x) + Len(y), z) =>
                     SameDelims(w, str, pp - 1)
  BY <1>3, <1>4, HeadIs
<1>6. /\ x \in Seq(Tokens) /\ y \in Seq(Tokens) /\ z \in Seq(Tokens)
      /\ Len(x) = u - 1 /\ Len(y) = h - u /\ Len(z) = pp - h
      /\ Lower(x) = x /\ Lower(z) = z
  BY <1>5 DEF HeadType
<1>7. p \in Seq(Tokens) /\ q \in Seq(Tokens) /\ f \in Seq(Tokens)
  <2>1. PathTokens \subseteq Tokens
    BY UrlAssumption DEF PathTokens, Names, Delimiters
  <2> QED
    BY <2>1 DEF Shaped
<1>8. v = x \o y \o z \o p \o q \o f
  BY <1>2 DEF Rebuilt
<1>9. SixParts(v, x, y, z, p, q, f)
  BY <1>6, <1>7, <1>8, SixJoined
<1>10. PICK a \in Nat, b \in Nat, d \in Nat : a = pp - 1 /\ b = a + Len(p) /\ d = b + Len(q)
  <2>1. pp - 1 \in Nat /\ (pp - 1) + Len(p) \in Nat /\ (pp - 1) + Len(p) + Len(q) \in Nat
    BY <1>7
  <2> QED
    BY <2>1
<1>11. /\ Len(x) \in Nat /\ Len(y) \in Nat /\ Len(z) \in Nat /\ Len(p) \in Nat /\ Len(q) \in Nat /\ Len(f) \in Nat
       /\ Len(x) + Len(y) = h - 1 /\ Len(x) + Len(y) + Len(z) = a
       /\ Len(x) + Len(y) + Len(z) + Len(p) = b /\ Len(x) + Len(y) + Len(z) + Len(p) + Len(q) = d
  BY <1>6, <1>7, <1>10
<1>12. /\ v \in Seq(Tokens) /\ Len(v) = d + Len(f)
       /\ LiesAt(v, 0, x) /\ LiesAt(v, Len(x), y) /\ LiesAt(v, Len(x) + Len(y), z)
       /\ LiesAt(v, a, p) /\ LiesAt(v, b, q) /\ LiesAt(v, d, f)
  BY <1>9, <1>11 DEF SixParts
<1>13. Behind(v, a + 1, b + 1, d + 1)
  BY <1>10, <1>12, TailFits
<1>14. SameDelims(v, str, a)
  BY <1>5, <1>10, <1>12
<1>15. Hosted(v, c, u, h, pp)
  <2>0. PICK i \in Nat, j \in Nat, k \in Nat : i = Len(p) /\ j = Len(q) /\ k = Len(f)
    BY <1>11
  <2>1. Len(v) \in Nat /\ pp <= Len(v) + 1
    <3>1. Len(v) = d + k /\ d = b + j /\ b = a + i /\ a = pp - 1
      BY <1>10, <1>12, <2>0
    <3> QED
      BY <3>1
  <2>2. c \in Nat \ {0} /\ u \in Nat \ {0} /\ h \in Nat \ {0} /\ pp \in Nat \ {0} /\ Hosted(str, c, u, h, pp)
    BY <1>1
  <2>3. a = pp - 1 /\ SameDelims(v, str, a)
    BY <1>10, <1>14
  <2> QED
    BY <2>1, <2>2, <2>3, HostedSame
<1>16. PICK s1 \in Nat \ {0}, e1 \in Nat \ {0} : s1 = b + 1 /\ e1 = d + 1 /\ pp = a + 1
  BY <1>10
<1>17. ParseURL(v) = PartsOf(v, u, h, pp, s1, e1)
  <2>1. Behind(v, pp, s1, e1)
    BY <1>13, <1>16
  <2> QED
    BY <1>12, <1>15, <2>1, ParseOf, SMTT(30)
<1>18. SubSeq(v, 1, u - 1) = x
  <2>1. PICK o \in Nat : o = 0
    BY <1>11
  <2>2. PICK i, j : i = 1 /\ j = u - 1
    OBVIOUS
  <2>3. Extent(o, x, i, j)
    BY <1>6, <2>1, <2>2 DEF Extent
  <2>4. LiesAt(v, o, x)
    BY <1>11, <1>12, <2>1
  <2>5. SubSeq(v, i, j) = x
    <3>1. v \in Seq(Tokens) /\ x \in Seq(Tokens)
      BY <1>6, <1>7, <1>12
    <3> HIDE <2>1, <2>2
    <3> QED
      BY <2>3, <2>4, <3>1, LiesPart
  <2> QED
    BY <2>2, <2>5
<1>19. SubSeq(v, u, h - 1) = y
  <2>1. PICK o \in Nat : o = Len(x)
    BY <1>11
  <2>2. PICK i, j : i = u /\ j = h - 1
    OBVIOUS
  <2>3. Extent(o, y, i, j)
    BY <1>6, <2>1, <2>2 DEF Extent
  <2>4. LiesAt(v, o, y)
    BY <1>11, <1>12, <2>1
  <2>5. SubSeq(v, i, j) = y
    <3>1. v \in Seq(Tokens) /\ y \in Seq(Tokens)
      BY <1>6, <1>7, <1>12
    <3> HIDE <2>1, <2>2
    <3> QED
      BY <2>3, <2>4, <3>1, LiesPart
  <2> QED
    BY <2>2, <2>5
<1>20. SubSeq(v, h, pp - 1) = z
  <2>1. PICK o \in Nat : o = Len(x) + Len(y)
    BY <1>11
  <2>2. PICK i, j : i = h /\ j = pp - 1
    OBVIOUS
  <2>3. Extent(o, z, i, j)
    BY <1>6, <2>1, <2>2 DEF Extent
  <2>4. LiesAt(v, o, z)
    BY <1>11, <1>12, <2>1
  <2>5. SubSeq(v, i, j) = z
    <3>1. v \in Seq(Tokens) /\ z \in Seq(Tokens)
      BY <1>6, <1>7, <1>12
    <3> HIDE <2>1, <2>2
    <3> QED
      BY <2>3, <2>4, <3>1, LiesPart
  <2> QED
    BY <2>2, <2>5
<1>21. SubSeq(v, pp, s1 - 1) = p
  <2>1. PICK o \in Nat : o = a
    BY <1>11
  <2>2. PICK i, j : i = pp /\ j = s1 - 1
    OBVIOUS
  <2>3. Extent(o, p, i, j)
    BY <1>10, <1>11, <1>16, <2>1, <2>2 DEF Extent
  <2>4. LiesAt(v, o, p)
    BY <1>11, <1>12, <2>1
  <2>5. SubSeq(v, i, j) = p
    <3>1. v \in Seq(Tokens) /\ p \in Seq(Tokens)
      BY <1>6, <1>7, <1>12
    <3> HIDE <2>1, <2>2
    <3> QED
      BY <2>3, <2>4, <3>1, LiesPart
  <2> QED
    BY <2>2, <2>5
<1>22. SubSeq(v, s1, e1 - 1) = q
  <2>1. PICK o \in Nat : o = b
    BY <1>11
  <2>2. PICK i, j : i = s1 /\ j = e1 - 1
    OBVIOUS
  <2>3. Extent(o, q, i, j)
    BY <1>10, <1>11, <1>16, <2>1, <2>2 DEF Extent
  <2>4. LiesAt(v, o, q)
    BY <1>11, <1>12, <2>1
  <2>5. SubSeq(v, i, j) = q
    <3>1. v \in Seq(Tokens) /\ q \in Seq(Tokens)
      BY <1>6, <1>7, <1>12
    <3> HIDE <2>1, <2>2
    <3> QED
      BY <2>3, <2>4, <3>1, LiesPart
  <2> QED
    BY <2>2, <2>5
<1>23. SubSeq(v, e1, Len(v)) = f
  <2>1. PICK o \in Nat : o = d
    BY <1>11
  <2>2. PICK i, j : i = e1 /\ j = Len(v)
    OBVIOUS
  <2>3. Extent(o, f, i, j)
    BY <1>12, <1>16, <2>1, <2>2 DEF Extent
  <2>4. LiesAt(v, o, f)
    BY <1>11, <1>12, <2>1
  <2>5. SubSeq(v, i, j) = f
    <3>1. v \in Seq(Tokens) /\ f \in Seq(Tokens)
      BY <1>6, <1>7, <1>12
    <3> HIDE <2>1, <2>2
    <3> QED
      BY <2>3, <2>4, <3>1, LiesPart
  <2> QED
    BY <2>2, <2>5
<1>24. PartsOf(v, u, h, pp, s1, e1) = WithTail(r, p, q, f)
  BY <1>2, <1>6, <1>18, <1>19, <1>20, <1>21, <1>22, <1>23 DEF PartsOf, WithTail
<1> QED
  BY <1>12, <1>17, <1>24

\* The parts of a URL are of this shape.
LEMMA OwnTail ==
  ASSUME NEW str \in Seq(Tokens), NEW r, r = ParseURL(str), r.ok, r.host # <<>>
  PROVE  Shaped(r.path, r.query, r.fragment)
<1>1. PICK c \in Nat \ {0}, u \in Nat \ {0}, h \in Nat \ {0}, a \in Nat \ {0}, st \in Nat \ {0}, en \in Nat \ {0} :
        /\ Hosted(str, c, u, h, a) /\ Behind(str, a, st, en)
        /\ ParseURL(str) = PartsOf(str, u, h, a, st, en)
  BY ParseGives
<1>2. PICK l \in Nat : l = Len(str)
  OBVIOUS
<1>3. /\ a <= st /\ st <= en /\ en <= l + 1
      /\ a <= l => str[a] = "/"
      /\ \A k \in a..(st - 1) : str[k] # "?" /\ str[k] # "#"
      /\ \A k \in st..(en - 1) : str[k] # "#"
      /\ st < en => str[st] = "?"
      /\ en <= l => str[en] = "#"
  BY <1>1, <1>2 DEF Behind
<1>4. PICK p, q, f : p = SubSeq(str, a, st - 1) /\ q = SubSeq(str, st, en - 1) /\ f = SubSeq(str, en, l)
  OBVIOUS
<1>5. r.path = p /\ r.query = q /\ r.fragment = f
  BY <1>1, <1>2, <1>4 DEF PartsOf
<1>6. p \in Seq(Tokens) /\ Len(p) = st - a /\ \A k \in 1..(st - a) : p[k] = str[(a - 1) + k]
  <2>1. PICK m \in Nat : m = st - 1 /\ m <= Len(str) /\ a <= m + 1 /\ (m + 1) - a = st - a
    <3>1. st - 1 \in Nat /\ st - 1 <= Len(str) /\ a <= (st - 1) + 1 /\ ((st - 1) + 1) - a = st - a
      BY <1>2, <1>3
    <3> QED
      BY <3>1
  <2>2. p = SubSeq(str, a, m) /\ m <= Len(str) /\ a <= m + 1
    BY <1>4, <2>1
  <2>3. p \in Seq(Tokens) /\ Len(p) = (m + 1) - a /\ \A k \in 1..((m + 1) - a) : p[k] = str[(a - 1) + k]
    BY <2>2, PartIs
  <2> QED
    BY <2>1, <2>3
<1>7. q \in Seq(Tokens) /\ Len(q) = en - st /\ \A k \in 1..(en - st) : q[k] = str[(st - 1) + k]
  <2>1. PICK m \in Nat : m = en - 1 /\ m <= Len(str) /\ st <= m + 1 /\ (m + 1) - st = en - st
    <3>1. en - 1 \in Nat /\ en - 1 <= Len(str) /\ st <= (en - 1) + 1 /\ ((en - 1) + 1) - st = en - st
      BY <1>2, <1>3
    <3> QED
      BY <3>1
  <2>2. q = SubSeq(str, st, m) /\ m <= Len(str) /\ st <= m + 1
    BY <1>4, <2>1
  <2>3. q \in Seq(Tokens) /\ Len(q) = (m + 1) - st /\ \A k \in 1..((m + 1) - st) : q[k] = str[(st - 1) + k]
    BY <2>2, PartIs
  <2> QED
    BY <2>1, <2>3
<1>8. f \in Seq(Tokens) /\ Len(f) = (l + 1) - en /\ \A k \in 1..((l + 1) - en) : f[k] = str[(en - 1) + k]
  <2>1. l <= Len(str) /\ en <= l + 1
    BY <1>2, <1>3
  <2> QED
    BY <1>4, <2>1, PartIs
<1>9. p \in Seq(PathTokens)
  <2>1. ASSUME NEW k \in 1..(st - a) PROVE p[k] \in PathTokens
    <3>1. (a - 1) + k \in a..(st - 1) /\ (a - 1) + k \in 1..l
      BY <1>3
    <3>2. str[(a - 1) + k] \in Tokens /\ str[(a - 1) + k] # "?" /\ str[(a - 1) + k] # "#"
      BY <1>2, <1>3, <3>1
    <3> QED
      BY <1>6, <3>2 DEF PathTokens, Names
  <2>2. PICK n \in Nat : n = st - a
    BY <1>3
  <2>3. Len(p) = n /\ \A k \in 1..n : p[k] \in PathTokens
    BY <1>6, <2>1, <2>2
  <2> QED
    BY <1>6, <2>3
<1>10. (p = <<>> <=> st = a) /\ (q = <<>> <=> en = st) /\ (f = <<>> <=> en = l + 1)
  <2>1. (p = <<>> <=> Len(p) = 0) /\ (q = <<>> <=> Len(q) = 0) /\ (f = <<>> <=> Len(f) = 0)
    BY <1>6, <1>7, <1>8, EmptyQueue
  <2> QED
    BY <1>3, <1>6, <1>7, <1>8, <2>1
<1>11. p = <<>> => q = <<>> /\ f = <<>>
  <2> SUFFICES ASSUME st = a PROVE en = st /\ en = l + 1
    BY <1>10
  <2>1. ~(st < en)
    BY <1>2, <1>3
  <2>2. ~(en <= l)
    BY <1>3, <2>1
  <2> QED
    BY <1>3, <2>1, <2>2
<1>12. p # <<>> => p[1] = "/"
  <2> SUFFICES ASSUME st # a PROVE p[1] = "/"
    BY <1>10
  <2>1. 1 \in 1..(st - a) /\ (a - 1) + 1 = a /\ a <= l
    BY <1>3
  <2> QED
    BY <1>3, <1>6, <2>1
<1>13. q # <<>> => q[1] = "?"
  <2> SUFFICES ASSUME en # st PROVE q[1] = "?"
    BY <1>10
  <2>1. 1 \in 1..(en - st) /\ (st - 1) + 1 = st /\ st < en
    BY <1>3
  <2> QED
    BY <1>3, <1>7, <2>1
<1>14. \A k \in 1..Len(q) : q[k] # "#"
  <2>1. ASSUME NEW k \in 1..(en - st) PROVE q[k] # "#"
    <3>1. (st - 1) + k \in st..(en - 1)
      BY <1>3
    <3> QED
      BY <1>3, <1>7, <3>1
  <2> QED
    BY <1>7, <2>1
<1>15. f # <<>> => f[1] = "#"
  <2> SUFFICES ASSUME en # l + 1 PROVE f[1] = "#"
    BY <1>10
  <2>1. 1 \in 1..((l + 1) - en) /\ (en - 1) + 1 = en /\ en <= l
    BY <1>3
  <2> QED
    BY <1>3, <1>8, <2>1
<1> QED
  BY <1>5, <1>7, <1>8, <1>9, <1>11, <1>12, <1>13, <1>14, <1>15 DEF Shaped

\* A URL with a host that NormalizeURL accepts has a normal form that stays as it is when
\* it is normalised again, with the host of the URL and the path that its segments say.
THEOREM Normalised ==
  ASSUME NEW str \in Seq(Tokens), NEW r, r = ParseURL(str), r.ok, r.host # <<>>,
         NEW n, n = NormalizeURL(str), n.ok
  PROVE  /\ NormalizeURL(n.url) = [ok |-> TRUE, url |-> n.url]
         /\ ParseURL(n.url).path = NormalPath(r.path) /\ ParseURL(n.url).host = r.host
<1>1. Shaped(r.path, r.query, r.fragment)
  BY OwnTail
<1>2. PICK p, q, f, d : p = r.path /\ q = r.query /\ f = r.fragment /\ d = RemoveDotSegments(p)
  OBVIOUS
<1>3. HasPageExt(p) /\ n.url = Rebuilt(r, d, q, f)
  BY <1>2 DEF NormalizeURL, Rebuilt
<1>4. p \in Seq(PathTokens) /\ (p # <<>> => p[1] = "/")
  BY <1>1, <1>2 DEF Shaped
<1>5. /\ d = NormalPath(p) /\ RemoveDotSegments(d) = d
      /\ d \in Seq(PathTokens) /\ (p # <<>> => d # <<>> /\ d[1] = "/") /\ (p = <<>> => d = <<>>)
  BY <1>2, <1>4, DotsRemoved DEF Settled
<1>6. HasPageExt(d)
  BY <1>2, <1>3, <1>4, ExtKept
<1>7. Shaped(d, q, f)
  BY <1>1, <1>2, <1>5 DEF Shaped
<1>8. PICK v : v = n.url /\ v = Rebuilt(r, d, q, f)
  BY <1>3
<1>9. ParseURL(v) = WithTail(r, d, q, f)
  BY <1>7, <1>8, Composed
<1>10. PICK t : t = ParseURL(v)
  OBVIOUS
<1>11. /\ t.ok /\ t.scheme = r.scheme /\ t.user = r.user /\ t.host = r.host
       /\ t.path = d /\ t.query = q /\ t.fragment = f
  BY <1>9, <1>10 DEF WithTail
<1>12. NormalizeURL(v) = [ok |-> TRUE, url |-> Rebuilt(t, RemoveDotSegments(d), q, f)]
  BY <1>6, <1>10, <1>11 DEF NormalizeURL, Rebuilt
<1>13. Rebuilt(t, RemoveDotSegments(d), q, f) = v
  BY <1>5, <1>8, <1>11 DEF Rebuilt
<1> QED
  BY <1>2, <1>5, <1>8, <1>10, <1>11, <1>12, <1>13

\* v is a with b behind it.
Joined(v, a, b) == v = a \o b

\* It makes no difference in which order three strings are joined.
LEMMA JoinedTwice ==
  ASSUME NEW a \in Seq(Tokens), NEW b \in Seq(Tokens), NEW c \in Seq(Tokens),
         NEW x, Joined(x, a, b), NEW y, Joined(y, b, c), NEW v, Joined(v, x, c), NEW w, Joined(w, a, y)
  PROVE  v = w
<1>1. PICK i \in Nat, j \in Nat, k \in Nat : i = Len(a) /\ j = Len(b) /\ k = Len(c)
  OBVIOUS
<1>0. x = a \o b /\ y = b \o c /\ v = x \o c /\ w = a \o y
  BY DEF Joined
<1>2. x \in Seq(Tokens) /\ Len(x) = i + j /\ \A n \in 1..i : x[n] = a[n]
  BY <1>0, <1>1, Concatenation
<1>3. \A n \in 1..j : x[i + n] = b[n]
  BY <1>0, <1>1, Concatenation
<1>4. y \in Seq(Tokens) /\ Len(y) = j + k /\ \A n \in 1..j : y[n] = b[n]
  BY <1>0, <1>1, Concatenation
<1>5. \A n \in 1..k : y[j + n] = c[n]
  BY <1>0, <1>1, Concatenation
<1>6. v \in Seq(Tokens) /\ Len(v) = (i + j) + k /\ \A n \in 1..(i + j) : v[n] = x[n]
  BY <1>0, <1>1, <1>2, Concatenation
<1>7. \A n \in 1..k : v[(i + j) + n] = c[n]
  BY <1>0, <1>1, <1>2, Concatenation
<1>8. w \in Seq(Tokens) /\ Len(w) = i + (j + k) /\ \A n \in 1..i : w[n] = a[n]
  BY <1>0, <1>1, <1>4, Concatenation
<1>9. \A n \in 1..(j + k) : w[i + n] = y[n]
  BY <1>0, <1>1, <1>4, Concatenation
<1>10. ASSUME NEW n \in 1..((i + j) + k) PROVE v[n] = w[n]
  <2>1. CASE n \in 1..i
    <3>1. n \in 1..(i + j)
      BY <2>1
    <3> QED
      BY <1>2, <1>6, <1>8, <2>1, <3>1
  <2>2. CASE n \in (i + 1)..(i + j)
    <3>1. PICK m \in 1..j : n = i + m
      <4>1. n - i \in 1..j /\ n = i + (n - i)
        BY <2>2
      <4> QED
        BY <4>1
    <3>2. v[n] = x[n] /\ x[i + m] = b[m] /\ y[m] = b[m] /\ w[i + m] = y[m]
      <4>1. n \in 1..(i + j) /\ m \in 1..(j + k)
        BY <2>2, <3>1
      <4> QED
        BY <1>3, <1>4, <1>6, <1>9, <3>1, <4>1
    <3> QED
      BY <3>1, <3>2
  <2>3. CASE n \in ((i + j) + 1)..((i + j) + k)
    <3>1. PICK m \in 1..k : n = (i + j) + m
      <4>1. n - (i + j) \in 1..k /\ n = (i + j) + (n - (i + j))
        BY <2>3
      <4> QED
        BY <4>1
    <3>2. PICK o \in 1..(j + k) : o = j + m /\ i + o = n
      <4>1. j + m \in 1..(j + k) /\ i + (j + m) = n
        BY <3>1
      <4> QED
        BY <4>1
    <3>3. v[(i + j) + m] = c[m] /\ y[j + m] = c[m] /\ w[i + o] = y[o]
      BY <1>5, <1>7, <1>9
    <3> QED
      BY <3>1, <3>2, <3>3
  <2>4. n \in 1..i \/ n \in (i + 1)..(i + j) \/ n \in ((i + j) + 1)..((i + j) + k)
    OBVIOUS
  <2> QED
    BY <2>1, <2>2, <2>3, <2>4
<1>11. Len(v) = Len(w) /\ \A n \in 1..Len(v) : v[n] = w[n]
  BY <1>6, <1>8, <1>10
<1> QED
  BY <1>6, <1>8, <1>11, SameSeq

\* A link up to its query.
UpToQuery(rel) ==
  LET query == FindFirst(rel, 1, {"?"}) IN IF query = 0 THEN rel ELSE SubSeq(rel, 1, query - 1)

\* The path of a link and its query.
QueryCut(rel, a, q) ==
  /\ a \in Seq(PathTokens) /\ q \in Seq(Tokens) /\ a = UpToQuery(rel) /\ rel = a \o q
  /\ (rel # <<>> /\ rel[1] = "/") <=> (a # <<>> /\ a[1] = "/")
  /\ q # <<>> => q[1] = "?"
  /\ \A k \in 1..Len(q) : q[k] # "#"

\* A link without fragment is a path and a query.
LEMMA CutAtQuery ==
  ASSUME NEW rel \in Seq(Tokens), \A k \in 1..Len(rel) : rel[k] # "#"
  PROVE  \E a, q : QueryCut(rel, a, q)
<1>1. PICK l \in Nat : l = Len(rel)
  OBVIOUS
<1>2. PICK cs, f : cs = {"?"} /\ f = FindFirst(rel, 1, cs)
  OBVIOUS
<1>3. \/ f = 0 /\ \A k \in 1..Len(rel) : rel[k] \notin cs
      \/ f \in 1..Len(rel) /\ rel[f] \in cs /\ \A k \in 1..(f - 1) : rel[k] \notin cs
  <2>1. 1 \in Nat \ {0}
    OBVIOUS
  <2>2. f = FindFirst(rel, 1, cs)
    BY <1>2
  <2> HIDE <1>2
  <2> QED
    BY <2>1, <2>2, FirstIs
<1>4. \/ f = 0 /\ \A k \in 1..l : rel[k] # "?"
      \/ f \in 1..l /\ rel[f] = "?" /\ \A k \in 1..(f - 1) : rel[k] # "?"
  BY <1>1, <1>2, <1>3
<1>5. UpToQuery(rel) = IF f = 0 THEN rel ELSE SubSeq(rel, 1, f - 1)
  BY <1>2 DEF UpToQuery
<1>6. PICK m \in Nat : m = (IF f = 0 THEN l ELSE f - 1) /\ m <= l /\ (m < l => rel[m + 1] = "?") /\ \A k \in 1..m : rel[k] # "?"
  <2>1. CASE f = 0
    <3>1. l <= l /\ ~(l < l) /\ l \in Nat
      OBVIOUS
    <3> QED
      BY <1>4, <2>1, <3>1
  <2>2. CASE f # 0
    <3>1. f - 1 \in Nat /\ f - 1 <= l /\ (f - 1) + 1 = f
      BY <1>4, <2>2
    <3> QED
      BY <1>4, <2>2, <3>1
  <2> QED
    BY <2>1, <2>2
<1>7. PICK a, q : a = SubSeq(rel, 1, m) /\ q = SubSeq(rel, m + 1, l)
  OBVIOUS
<1>8. a = UpToQuery(rel)
  BY <1>1, <1>5, <1>6, <1>7
<1>9. a \in Seq(Tokens) /\ Len(a) = m /\ \A k \in 1..m : a[k] = rel[k]
  <2>1. m <= Len(rel)
    BY <1>1, <1>6
  <2> QED
    BY <1>7, <2>1, FrontIs
<1>10. q \in Seq(Tokens) /\ Len(q) = l - m /\ \A k \in 1..(l - m) : q[k] = rel[m + k]
  <2>1. PICK i \in Nat \ {0} : i = m + 1 /\ i <= l + 1 /\ l <= Len(rel)
    <3>1. m + 1 \in Nat \ {0} /\ m + 1 <= l + 1
      BY <1>6
    <3> QED
      BY <1>1, <3>1
  <2>2. q = SubSeq(rel, i, l) /\ i <= l + 1 /\ l <= Len(rel)
    BY <1>7, <2>1
  <2>3. q \in Seq(Tokens) /\ Len(q) = (l + 1) - i /\ \A k \in 1..((l + 1) - i) : q[k] = rel[(i - 1) + k]
    BY <2>2, PartIs
  <2>4. (l + 1) - i = l - m /\ i - 1 = m
    BY <2>1
  <2> QED
    BY <2>3, <2>4
<1>11. a \in Seq(PathTokens)
  <2>1. \A k \in 1..m : a[k] \in PathTokens
    <3>1. ASSUME NEW k \in 1..m PROVE a[k] \in PathTokens
      <4>1. k \in 1..l
        BY <1>6
      <4>2. rel[k] \in Tokens /\ rel[k] # "?" /\ rel[k] # "#"
        BY <1>1, <1>6, <4>1
      <4> QED
        BY <1>9, <4>2 DEF PathTokens, Names
    <3> QED
      BY <3>1
  <2> QED
    BY <1>9, <2>1
<1>12. rel = a \o q
  <2>1. PICK t : t = a \o q
    OBVIOUS
  <2>2. t \in Seq(Tokens) /\ Len(t) = l /\ \A k \in 1..m : t[k] = a[k]
    <3>1. t \in Seq(Tokens) /\ Len(t) = Len(a) + Len(q) /\ \A k \in 1..Len(a) : t[k] = a[k]
      BY <1>9, <1>10, <2>1, Concatenation, ZenonT(30)
    <3> QED
      BY <1>6, <1>9, <1>10, <3>1
  <2>3. \A k \in 1..(l - m) : t[m + k] = q[k]
    <3>1. \A k \in 1..Len(q) : t[Len(a) + k] = q[k]
      BY <1>9, <1>10, <2>1, Concatenation
    <3> QED
      BY <1>9, <1>10, <3>1
  <2>4. ASSUME NEW n \in 1..l PROVE t[n] = rel[n]
    <3>1. CASE n \in 1..m
      BY <1>9, <2>2, <3>1
    <3>2. CASE n \in (m + 1)..l
      <4>1. PICK k \in 1..(l - m) : n = m + k
        <5>1. n - m \in 1..(l - m) /\ n = m + (n - m)
          BY <1>6, <3>2
        <5> QED
          BY <5>1
      <4> QED
        BY <1>10, <2>3, <4>1
    <3>3. n \in 1..m \/ n \in (m + 1)..l
      BY <1>6
    <3> QED
      BY <3>1, <3>2, <3>3
  <2>5. Len(t) = Len(rel) /\ \A k \in 1..Len(t) : t[k] = rel[k]
    BY <1>1, <2>2, <2>4
  <2>6. t = rel
    BY <2>2, <2>5, SameSeq
  <2> QED
    BY <2>1, <2>6
<1>13. (rel # <<>> /\ rel[1] = "/") <=> (a # <<>> /\ a[1] = "/")
  <2>1. (rel = <<>> <=> l = 0) /\ (a = <<>> <=> m = 0)
    BY <1>1, <1>9, EmptyQueue
  <2>2. CASE m = 0
    <3>1. l # 0 => rel[1] = "?"
      BY <1>6, <2>2
    <3> QED
      BY <2>1, <2>2, <3>1
  <2>3. CASE m # 0
    <3>1. l # 0 /\ a[1] = rel[1]
      <4>1. 1 \in 1..m
        BY <2>3
      <4> QED
        BY <1>6, <1>9, <4>1
    <3> QED
      BY <2>1, <2>3, <3>1
  <2> QED
    BY <2>2, <2>3
<1>14. q # <<>> => q[1] = "?"
  <2> SUFFICES ASSUME q # <<>> PROVE q[1] = "?"
    OBVIOUS
  <2>1. l - m # 0
    BY <1>10, EmptyQueue
  <2>2. 1 \in 1..(l - m) /\ m < l
    BY <1>6, <2>1
  <2> QED
    BY <1>6, <1>10, <2>2
<1>15. \A k \in 1..Len(q) : q[k] # "#"
  <2>1. ASSUME NEW k \in 1..(l - m) PROVE q[k] # "#"
    <3>1. m + k \in 1..l
      BY <1>6
    <3> QED
      BY <1>1, <1>10, <3>1
  <2> QED
    BY <1>10, <2>1
<1>16. QueryCut(rel, a, q)
  BY <1>8, <1>10, <1>11, <1>12, <1>13, <1>14, <1>15 DEF QueryCut
<1> QED
  BY <1>16

\* What FixupRelativeURL puts between the host of the page and a link that ends before its
\* query: the directory of the page's path, unless the link begins with a slash.
Directory(path, a) ==
  LET slash == FindLast(path, "/")
      dir   == IF slash > 1 THEN SubSeq(path, 1, slash - 1) ELSE <<>>
  IN  IF a # <<>> /\ a[1] = "/" THEN <<>> ELSE Append(dir, "/")

\* Together they are the path that the link means, which begins with a slash.
LEMMA Merged ==
  ASSUME NEW path \in Seq(PathTokens), path # <<>> => path[1] = "/", NEW a \in Seq(PathTokens),
         NEW d, d = Directory(path, a), NEW p, p = d \o a
  PROVE  /\ d \in Seq(PathTokens) /\ p \in Seq(PathTokens)
         /\ p # <<>> /\ p[1] = "/" /\ p = MergedPath(path, a)
<1>1. "/" \in PathTokens
  BY UrlAssumption DEF PathTokens, Names, Delimiters
<1>2. PICK l \in Nat : l = Len(path)
  OBVIOUS
<1>3. CASE a # <<>> /\ a[1] = "/"
  <2>1. d = <<>> /\ d \in Seq(PathTokens)
    BY <1>3 DEF Directory
  <2>2. p = a
    BY <2>1
  <2> QED
    BY <1>3, <2>1, <2>2 DEF MergedPath
<1>4. CASE ~(a # <<>> /\ a[1] = "/")
  <2>1. PICK f : f = FindLast(path, "/")
    OBVIOUS
  <2>2. \/ f = 0 /\ \A k \in 1..Len(path) : path[k] # "/"
        \/ f \in 1..Len(path) /\ path[f] = "/" /\ \A k \in (f + 1)..Len(path) : path[k] # "/"
    BY <2>1, LastIs
  <2>3. d = Append(IF f > 1 THEN SubSeq(path, 1, f - 1) ELSE <<>>, "/")
    BY <1>4, <2>1 DEF Directory
  <2>4. MergedPath(path, a) = IF path = <<>> THEN <<"/">> \o a ELSE SubSeq(path, 1, f) \o a
    BY <1>4, <2>1 DEF MergedPath
  <2>5. CASE path = <<>>
    <3>1. l = 0
      BY <1>2, <2>5, EmptyQueue
    <3>2. f = 0
      BY <1>2, <2>2, <3>1
    <3>3. d = <<"/">>
      BY <2>3, <3>2
    <3>4. d \in Seq(PathTokens) /\ Len(d) = 1 /\ d[1] = "/"
      BY <1>1, <3>3
    <3>5. p \in Seq(PathTokens) /\ Len(p) = Len(d) + Len(a) /\ \A k \in 1..Len(d) : p[k] = d[k]
      BY <3>4, Concatenation
    <3>6. Len(p) # 0 /\ p[1] = "/"
      BY <3>4, <3>5
    <3> QED
      BY <2>4, <2>5, <3>3, <3>4, <3>5, <3>6, EmptyQueue
  <2>6. CASE path # <<>>
    <3>1. l # 0
      BY <1>2, <2>6, EmptyQueue
    <3>2. f \in 1..l /\ path[f] = "/" /\ path[1] = "/"
      <4>1. 1 \in 1..l /\ path[1] = "/"
        BY <2>6, <3>1
      <4> QED
        BY <1>2, <2>2, <4>1
    <3>3. d = SubSeq(path, 1, f)
      <4>1. f \in 1..Len(path)
        BY <1>2, <3>2
      <4>2. Append(SubSeq(path, 1, f - 1), path[f]) = SubSeq(path, 1, f)
        BY <4>1, PrefixAppend
      <4>3. CASE f > 1
        BY <2>3, <3>2, <4>2, <4>3
      <4>4. CASE f = 1
        <5>1. SubSeq(path, 1, f - 1) = <<>>
          <6>0. f - 1 \in Nat /\ f - 1 = 0
            BY <4>4
          <6>1. PICK z \in Nat : z = 0 /\ z = f - 1
            BY <6>0
          <6>4. PICK s : s = SubSeq(path, 1, z)
            OBVIOUS
          <6>2. z <= Len(path)
            BY <6>1
          <6>3. s \in Seq(PathTokens) /\ Len(s) = z
            BY <6>2, <6>4, FrontIs
          <6> QED
            BY <6>1, <6>3, <6>4, EmptyQueue
        <5>2. d = Append(<<>>, "/")
          BY <2>3, <4>4
        <5> QED
          BY <3>2, <4>2, <5>1, <5>2
      <4>5. f > 1 \/ f = 1
        BY <3>2
      <4> QED
        BY <4>3, <4>4, <4>5
    <3>4. d \in Seq(PathTokens) /\ Len(d) = f /\ \A i \in 1..f : d[i] = path[i]
      <4>1. f \in Nat /\ f <= Len(path)
        BY <1>2, <3>2
      <4> QED
        BY <3>3, <4>1, FrontIs
    <3>5. p \in Seq(PathTokens) /\ Len(p) = Len(d) + Len(a) /\ \A k \in 1..Len(d) : p[k] = d[k]
      BY <3>4, Concatenation
    <3>6. Len(p) # 0 /\ p[1] = "/"
      <4>1. 1 \in 1..f /\ Len(a) \in Nat
        BY <3>2
      <4> QED
        BY <3>2, <3>4, <3>5, <4>1
    <3> QED
      BY <2>4, <2>6, <3>3, <3>4, <3>5, <3>6, EmptyQueue
  <2> QED
    BY <2>5, <2>6
<1> QED
  BY <1>3, <1>4

\* The absolute URL of a link without fragment has the host of the page, and the path that
\* the link means there.
LEMMA Fixed ==
  ASSUME NEW base \in Seq(Tokens), NEW r, r = ParseURL(base), r.ok, r.host # <<>>,
         NEW rel \in Seq(Tokens), \A k \in 1..Len(rel) : rel[k] # "#",
         NEW v, v = FixupRelativeURL(base, rel), NEW t, t = ParseURL(v)
  PROVE  /\ v \in Seq(Tokens) /\ t.ok /\ t.host = r.host
         /\ t.path = MergedPath(r.path, UpToQuery(rel))
<1>1. PICK a, q : QueryCut(rel, a, q)
  BY CutAtQuery
<1>2. /\ a \in Seq(PathTokens) /\ q \in Seq(Tokens) /\ a = UpToQuery(rel) /\ rel = a \o q
      /\ (rel # <<>> /\ rel[1] = "/") <=> (a # <<>> /\ a[1] = "/")
      /\ (q # <<>> => q[1] = "?") /\ \A k \in 1..Len(q) : q[k] # "#"
  BY <1>1 DEF QueryCut
<1>3. Shaped(r.path, r.query, r.fragment)
  BY OwnTail
<1>4. PICK path : path = r.path
  OBVIOUS
<1>5. path \in Seq(PathTokens) /\ (path # <<>> => path[1] = "/")
  BY <1>3, <1>4 DEF Shaped
<1>6. PICK d, p : d = Directory(path, a) /\ p = d \o a
  OBVIOUS
<1>7. /\ d \in Seq(PathTokens) /\ p \in Seq(PathTokens)
      /\ p # <<>> /\ p[1] = "/" /\ p = MergedPath(path, a)
  BY <1>2, <1>5, <1>6, Merged
<1>8. PICK f \in Seq(Tokens) : f = <<>> /\ Len(f) = 0
  <2>1. <<>> \in Seq(Tokens)
    OBVIOUS
  <2>2. Len(<<>>) = 0
    OBVIOUS
  <2> QED
    BY <2>1, <2>2
<1>9. Shaped(p, q, f)
  BY <1>2, <1>7, <1>8 DEF Shaped
<1>10. PICK x, y, z : x = r.scheme /\ y = r.user /\ z = r.host
  OBVIOUS
<1>11. x \in Seq(Tokens) /\ y \in Seq(Tokens) /\ z \in Seq(Tokens)
  <2>1. PICK c \in Nat \ {0}, u \in Nat \ {0}, h \in Nat \ {0}, pp \in Nat \ {0}, st \in Nat \ {0}, en \in Nat \ {0} :
          /\ Hosted(base, c, u, h, pp) /\ Behind(base, pp, st, en)
          /\ ParseURL(base) = PartsOf(base, u, h, pp, st, en)
    BY ParseGives
  <2>2. HeadOf(base, u, h, pp, x, y, z)
    BY <1>10, <2>1 DEF PartsOf, HeadOf
  <2>3. u <= h /\ h < pp /\ pp <= Len(base) + 1
    BY <2>1 DEF Hosted
  <2>4. HeadType(u, h, pp, x, y, z)
    BY <2>2, <2>3, HeadIs
  <2> QED
    BY <2>4 DEF HeadType
<1>12. PICK s : s = x \o y \o z /\ s \in Seq(Tokens)
  <2>1. x \o y \in Seq(Tokens)
    BY <1>11, Concatenation
  <2>2. x \o y \o z \in Seq(Tokens)
    BY <1>11, <2>1, Concatenation
  <2> QED
    BY <2>2
<1>13. PathTokens \subseteq Tokens
  BY UrlAssumption DEF PathTokens, Names, Delimiters
<1>14. a \in Seq(Tokens) /\ d \in Seq(Tokens) /\ p \in Seq(Tokens)
  BY <1>2, <1>7, <1>13
<1>15. v = (s \o d) \o rel
  <2>1. d = IF rel # <<>> /\ rel[1] = "/" THEN <<>>
            ELSE Append(IF FindLast(path, "/") > 1 THEN SubSeq(path, 1, FindLast(path, "/") - 1) ELSE <<>>, "/")
    BY <1>2, <1>6 DEF Directory
  <2>2. v = s \o (IF rel # <<>> /\ rel[1] = "/" THEN <<>>
            ELSE Append(IF FindLast(path, "/") > 1 THEN SubSeq(path, 1, FindLast(path, "/") - 1) ELSE <<>>, "/")) \o rel
    BY <1>4, <1>10, <1>12 DEF FixupRelativeURL
  <2> QED
    BY <2>1, <2>2
<1>16. PICK sd : sd = s \o d /\ sd \in Seq(Tokens)
  BY <1>12, <1>14, Concatenation
<1>17. PICK sda : sda = sd \o a /\ sda \in Seq(Tokens)
  BY <1>14, <1>16, Concatenation
<1>18. v = sda \o q
  <2>1. PICK w, b : w = sda \o q /\ b = a \o q
    OBVIOUS
  <2>2. v = sd \o b
    BY <1>2, <1>15, <1>16, <2>1
  <2>3. Joined(sda, sd, a) /\ Joined(b, a, q) /\ Joined(w, sda, q) /\ Joined(v, sd, b)
    BY <1>17, <2>1, <2>2 DEF Joined
  <2>5. sd \in Seq(Tokens) /\ a \in Seq(Tokens) /\ q \in Seq(Tokens)
    BY <1>2, <1>14, <1>16
  <2>4. w = v
    BY ONLY <2>3, <2>5, JoinedTwice
  <2> QED
    BY <2>1, <2>4
<1>19. sda = s \o p
  <2>1. PICK w : w = s \o p
    OBVIOUS
  <2>2. Joined(sd, s, d) /\ Joined(p, d, a) /\ Joined(sda, sd, a) /\ Joined(w, s, p)
    BY <1>6, <1>16, <1>17, <2>1 DEF Joined
  <2>4. s \in Seq(Tokens) /\ d \in Seq(Tokens) /\ a \in Seq(Tokens)
    BY <1>12, <1>14
  <2>3. sda = w
    BY ONLY <2>2, <2>4, JoinedTwice
  <2> QED
    BY <2>1, <2>3
<1>20. v = Rebuilt(r, p, q, f)
  <2>1. v = x \o y \o z \o p \o q
    BY <1>12, <1>18, <1>19
  <2>2. v \in Seq(Tokens)
    <3>1. sda \in Seq(Tokens) /\ q \in Seq(Tokens)
      BY <1>2, <1>17
    <3>2. sda \o q \in Seq(Tokens)
      BY <3>1, Concatenation
    <3> QED
      BY <1>18, <3>2
  <2>3. v \o f = v
    BY <1>8, <2>2
  <2> QED
    BY <1>10, <2>1, <2>3 DEF Rebuilt
<1>21. v \in Seq(Tokens) /\ ParseURL(v) = WithTail(r, p, q, f)
  BY <1>9, <1>20, Composed
<1>22. t.ok /\ t.host = r.host /\ t.path = p
  BY <1>21 DEF WithTail
<1> QED
  BY <1>2, <1>4, <1>7, <1>21, <1>22

\* The URL of an anchor lies on the page, and has no fragment.
LinkSpan(doc, a) ==
  /\ a.first \in Nat \ {0} /\ a.end \in Nat /\ a.first <= a.end /\ a.end <= Len(doc)
  /\ \A k \in a.first..(a.end - 1) : doc[k] # "#"

\* So does that of an anchor that is not passed over.
LEMMA GoodAnchor ==
  ASSUME NEW doc \in Seq(Tokens), NEW i \in 1..(Len(doc) + 1), NEW a, a = Anchor(doc, i),
         a.exists, ~BadLink(doc, a)
  PROVE  LinkSpan(doc, a)
<1>1. PICK lnk, href : /\ lnk = FindText(doc, i, <<"<", "a">>)
                       /\ href = FindText(doc, lnk, <<"href", "=">>)
  OBVIOUS
<1>2. PICK quoted, first :
        /\ quoted = (href + 2 <= Len(doc) /\ doc[href + 2] \in Quotes)
        /\ first = IF quoted THEN href + 3 ELSE href + 2
  OBVIOUS
<1>3. PICK cs, ds : cs = (IF quoted THEN {doc[href + 2]} ELSE {">"}) /\ ds = {"#"}
  OBVIOUS
<1>4. PICK close, hash : close = FindFirst(doc, first, cs) /\ hash = FindFirst(doc, first, ds)
  OBVIOUS
<1>5. a = IF lnk = 0 \/ href = 0 THEN [exists |-> FALSE]
          ELSE [exists |-> TRUE, href |-> href, first |-> first,
                tag |-> FindFirst(doc, lnk, {">"}),
                end |-> IF hash # 0 /\ hash < close THEN hash ELSE close]
  BY <1>1, <1>2, <1>3, <1>4 DEF Anchor
<1>6. lnk # 0 /\ href # 0
  <2>1. CASE lnk = 0 \/ href = 0
    <3>1. a = [exists |-> FALSE]
      BY <1>5, <2>1
    <3> QED
      BY <3>1
  <2> QED
    BY <2>1
<1>7. a.first = first /\ a.end = IF hash # 0 /\ hash < close THEN hash ELSE close
  BY <1>5, <1>6
<1>8. lnk \in i..Len(doc) /\ lnk \in Nat \ {0}
  <2>1. i \in Nat \ {0}
    OBVIOUS
  <2>2. lnk \in {0} \cup i..Len(doc)
    BY <1>1, <2>1, FindTextIs
  <2> QED
    BY <1>6, <2>1, <2>2
<1>9. href \in lnk..Len(doc) /\ href \in Nat \ {0}
  <2>1. href \in {0} \cup lnk..Len(doc)
    BY <1>1, <1>8, FindTextIs
  <2> QED
    BY <1>6, <1>8, <2>1
<1>10. first \in Nat \ {0}
  <2>1. first = href + 3 \/ first = href + 2
    BY <1>2
  <2> QED
    BY <1>9, <2>1
<1>11. PICK l \in Nat : l = Len(doc)
  OBVIOUS
<1>12. close = 0 \/ close \in first..l
  BY <1>4, <1>10, <1>11, FindFirstIs
<1>13. \/ hash = 0 /\ \A k \in first..l : doc[k] \notin ds
       \/ hash \in first..l /\ doc[hash] \in ds /\ \A k \in first..(hash - 1) : doc[k] \notin ds
  <2>1. hash = FindFirst(doc, first, ds)
    BY <1>4
  <2> HIDE <1>3
  <2> QED
    BY <1>10, <1>11, <2>1, FirstIs
<1>14. a.end # 0
  BY DEF BadLink
<1>15. CASE hash # 0 /\ hash < close
  <2>1. hash \in first..l /\ \A k \in first..(hash - 1) : doc[k] \notin ds
    BY <1>13, <1>15
  <2> QED
    BY <1>3, <1>7, <1>10, <1>11, <1>15, <2>1 DEF LinkSpan
<1>16. CASE ~(hash # 0 /\ hash < close)
  <2>1. close \in first..l /\ a.end = close
    BY <1>7, <1>12, <1>14, <1>16
  <2>2. CASE hash = 0
    <3>1. \A k \in first..l : doc[k] \notin ds
      BY <1>10, <1>13, <2>2
    <3>2. \A k \in first..(close - 1) : k \in first..l
      BY <1>10, <2>1
    <3> QED
      BY <1>3, <1>7, <1>10, <1>11, <2>1, <3>1, <3>2 DEF LinkSpan
  <2>3. CASE hash # 0
    <3>1. hash \in first..l /\ \A k \in first..(hash - 1) : doc[k] \notin ds
      BY <1>13, <2>3
    <3>2. \A k \in first..(close - 1) : k \in first..(hash - 1)
      BY <1>10, <1>16, <2>1, <2>3, <3>1
    <3> QED
      BY <1>3, <1>7, <1>10, <1>11, <2>1, <3>1, <3>2 DEF LinkSpan
  <2> QED
    BY <2>2, <2>3
<1> QED
  BY <1>15, <1>16

\* And that of a link the loop returns.
LEMMA GoodLinkIs ==
  ASSUME NEW doc \in Seq(Tokens), NEW start \in 1..(Len(doc) + 1),
         NEW r, r = NextLink(doc, start), r.exists
  PROVE  LinkSpan(doc, r)
<1>1. PICK n \in Nat : n = Len(doc) + 1
  OBVIOUS
<1>2. PICK f : \A i \in 1..n :
           /\ NextLink(doc, i) = f[i]
           /\ ~(Anchor(doc, i).exists /\ BadLink(doc, Anchor(doc, i))) => f[i] = Anchor(doc, i)
           /\ Anchor(doc, i).exists /\ BadLink(doc, Anchor(doc, i)) =>
                f[i] = f[i + 2] /\ i + 2 \in (i + 1)..n
  <2>1. PICK f : \A i \in 1..(Len(doc) + 1) :
           /\ NextLink(doc, i) = f[i]
           /\ ~(Anchor(doc, i).exists /\ BadLink(doc, Anchor(doc, i))) => f[i] = Anchor(doc, i)
           /\ Anchor(doc, i).exists /\ BadLink(doc, Anchor(doc, i)) =>
                f[i] = f[i + 2] /\ i + 2 \in (i + 1)..(Len(doc) + 1)
    BY NextLinkLeads
  <2> QED
    BY <1>1, <2>1
<1> DEFINE G == {i \in 1..n : f[i].exists => LinkSpan(doc, f[i])}
<1>3. ASSUME NEW i \in 1..n, \A j \in (i + 1)..n : j \in G PROVE i \in G
  <2> SUFFICES ASSUME f[i].exists PROVE LinkSpan(doc, f[i])
    OBVIOUS
  <2>1. PICK l : l = Anchor(doc, i)
    OBVIOUS
  <2>2. CASE l.exists /\ BadLink(doc, l)
    <3>1. f[i] = f[i + 2] /\ i + 2 \in (i + 1)..n
      BY <1>2, <2>1, <2>2
    <3> QED
      BY <1>3, <3>1
  <2>3. CASE ~(l.exists /\ BadLink(doc, l))
    <3>1. f[i] = l /\ l.exists /\ ~BadLink(doc, l)
      BY <1>2, <2>1, <2>3
    <3> QED
      BY <1>1, <2>1, <3>1, GoodAnchor
  <2> QED
    BY <2>2, <2>3
<1>4. start \in G
  <2>1. start \in 1..n
    BY <1>1
  <2> HIDE DEF G
  <2> QED
    BY <1>1, <1>3, <2>1, DownInduction
<1> QED
  BY <1>1, <1>2, <1>4

\* The URL itself.
LEMMA LinkText ==
  ASSUME NEW doc \in Seq(Tokens), NEW a, LinkSpan(doc, a), NEW link, link = SubSeq(doc, a.first, a.end - 1)
  PROVE  /\ link \in Seq(Tokens) /\ Len(link) = a.end - a.first
         /\ \A k \in 1..(a.end - a.first) : link[k] = doc[(a.first - 1) + k] /\ link[k] # "#"
<1>1. /\ a.first \in Nat \ {0} /\ a.end \in Nat /\ a.first <= a.end /\ a.end <= Len(doc)
      /\ \A k \in a.first..(a.end - 1) : doc[k] # "#"
  BY DEF LinkSpan
<1>2. PICK i \in Nat \ {0} : i = a.first
  BY <1>1
<1>3. PICK n \in Nat : n = a.end - 1 /\ i <= n + 1 /\ n <= Len(doc) /\ (n + 1) - i = a.end - i
  <2>1. a.end - 1 \in Nat /\ i <= (a.end - 1) + 1 /\ a.end - 1 <= Len(doc) /\ ((a.end - 1) + 1) - i = a.end - i
    BY <1>1, <1>2
  <2> QED
    BY <2>1
<1>4. link = SubSeq(doc, i, n) /\ i <= n + 1 /\ n <= Len(doc)
  BY <1>2, <1>3
<1>5. link \in Seq(Tokens) /\ Len(link) = (n + 1) - i /\ \A k \in 1..((n + 1) - i) : link[k] = doc[(i - 1) + k]
  <2>1. doc \in Seq(Tokens) /\ i \in Nat \ {0} /\ n \in Nat
    OBVIOUS
  <2> QED
    BY ONLY <1>4, <2>1, PartIs
<1>6. \A k \in 1..((n + 1) - i) : (i - 1) + k \in i..n
  BY <1>3
<1> QED
  BY <1>1, <1>2, <1>3, <1>5, <1>6

\* A relative URL has no scheme, so that it cannot be parsed.
LEMMA NoScheme ==
  ASSUME NEW doc \in Seq(Tokens), NEW a, LinkSpan(doc, a), Relative(doc, a),
         NEW link, link = SubSeq(doc, a.first, a.end - 1)
  PROVE  ~ParseURL(link).ok
<1> SUFFICES ASSUME ParseURL(link).ok PROVE FALSE
  OBVIOUS
<1>1. /\ link \in Seq(Tokens) /\ Len(link) = a.end - a.first
      /\ \A k \in 1..(a.end - a.first) : link[k] = doc[(a.first - 1) + k]
  BY LinkText
<1>2. a.first \in Nat \ {0} /\ a.end \in Nat /\ a.first <= a.end /\ a.end <= Len(doc)
  BY DEF LinkSpan
<1>3. PICK i \in Nat \ {0}, e \in Nat, l \in Nat : i = a.first /\ e = a.end /\ l = Len(doc)
  BY <1>2
<1>4. PICK cs : cs = {":", "/", "?", "#"}
  OBVIOUS
<1>5. PICK c, s : c = FindFirst(link, 1, cs) /\ s = FindFirst(doc, i, cs)
  OBVIOUS
<1>6. c # 0 /\ link[c] = ":"
  BY <1>4, <1>5 DEF ParseURL, NotParsed
<1>7. ~(s # 0 /\ doc[s] = ":")
  BY <1>3, <1>4, <1>5 DEF Relative
<1>8. \/ c = 0 /\ \A k \in 1..Len(link) : link[k] \notin cs
      \/ c \in 1..Len(link) /\ link[c] \in cs /\ \A k \in 1..(c - 1) : link[k] \notin cs
  <2>1. c = FindFirst(link, 1, cs)
    BY <1>5
  <2>2. 1 \in Nat \ {0} /\ link \in Seq(Tokens)
    BY <1>1
  <2> QED
    BY ONLY <2>1, <2>2, FirstIs
<1>9. \/ s = 0 /\ \A k \in i..Len(doc) : doc[k] \notin cs
      \/ s \in i..Len(doc) /\ doc[s] \in cs /\ \A k \in i..(s - 1) : doc[k] \notin cs
  <2>1. s = FindFirst(doc, i, cs)
    BY <1>5
  <2> HIDE <1>4
  <2> QED
    BY <2>1, FirstIs
<1>10. c \in 1..(e - i) /\ \A k \in 1..(c - 1) : link[k] \notin cs
  BY <1>1, <1>3, <1>6, <1>8
<1>11. PICK p \in Nat : p = (i - 1) + c /\ p \in i..l /\ p < e
  <2>1. (i - 1) + c \in Nat /\ (i - 1) + c \in i..l /\ (i - 1) + c < e
    BY <1>2, <1>3, <1>10
  <2> QED
    BY <2>1
<1>12. doc[p] = ":" /\ doc[p] \in cs
  BY <1>1, <1>3, <1>4, <1>6, <1>10, <1>11
<1>13. s \in i..l /\ doc[s] \in cs /\ \A k \in i..(s - 1) : doc[k] \notin cs
  <2>1. ~(\A k \in i..Len(doc) : doc[k] \notin cs)
    BY <1>3, <1>11, <1>12
  <2> QED
    BY <1>3, <1>9, <2>1
<1>14. ~(p < s)
  <2> SUFFICES ASSUME p < s PROVE FALSE
    OBVIOUS
  <2>1. p \in i..(s - 1)
    BY <1>11, <1>13
  <2> QED
    BY <1>12, <1>13, <2>1
<1>15. ~(s < p)
  <2> SUFFICES ASSUME s < p PROVE FALSE
    OBVIOUS
  <2>1. PICK k \in 1..(c - 1) : (i - 1) + k = s
    <3>1. s - (i - 1) \in 1..(c - 1) /\ (i - 1) + (s - (i - 1)) = s
      BY <1>10, <1>11, <1>13
    <3> QED
      BY <3>1
  <2>2. k \in 1..(e - i)
    BY <1>10, <2>1
  <2>3. link[k] = doc[s]
    BY <1>1, <1>3, <2>1, <2>2
  <2> QED
    BY <1>10, <1>13, <2>1, <2>3
<1>16. s = p
  BY <1>11, <1>13, <1>14, <1>15
<1> QED
  BY <1>7, <1>11, <1>12, <1>13, <1>16

\* What is said of a link that was handed over for a page at u.
IsNormal(doc, u, l) ==
  LET link == SubSeq(doc, l.first, l.end - 1)
      whole == ParseURL(link)
      base == IF whole.ok THEN whole ELSE ParseURL(u)
      result == ParseURL(l.normal.url)
  IN  l.normal.ok /\ base.host # <<>> =>
        /\ NormalizeURL(l.normal.url) = [ok |-> TRUE, url |-> l.normal.url]
        /\ result.path = NormalPath(IF whole.ok THEN whole.path ELSE MergedPath(base.path, UpToQuery(link)))
        /\ result.host = base.host

\* UrlsNormal says it of every link.
LEMMA AllNormal == UrlsNormal <=> \A n \in DOMAIN links : IsNormal(html, url, links[n])
BY DEF UrlsNormal, IsNormal, UpToQuery

\* The URL that is made of an anchor on a page at u.
Resulting(doc, u, a) ==
  LET rel == SubSeq(doc, a.first, a.end - 1)
  IN  IF Relative(doc, a) THEN FixupRelativeURL(u, rel) ELSE rel

\* The link that is handed over for an anchor is as it is said.
LEMMA LinkNormal ==
  ASSUME NEW doc \in Seq(Tokens), NEW u \in Seq(Tokens), NEW a, LinkSpan(doc, a),
         Relative(doc, a) => ParseURL(u).ok,
         NEW l, l.first = a.first, l.end = a.end, l.normal = NormalizeURL(Resulting(doc, u, a))
  PROVE  IsNormal(doc, u, l)
<1>1. PICK link, whole, n : /\ link = SubSeq(doc, a.first, a.end - 1) /\ whole = ParseURL(link)
                            /\ n = NormalizeURL(Resulting(doc, u, a))
  OBVIOUS
<1>2. link \in Seq(Tokens) /\ \A k \in 1..Len(link) : link[k] # "#"
  <2>1. /\ link \in Seq(Tokens) /\ Len(link) = a.end - a.first
        /\ \A k \in 1..(a.end - a.first) : link[k] = doc[(a.first - 1) + k] /\ link[k] # "#"
    <3>1. link = SubSeq(doc, a.first, a.end - 1)
      BY <1>1
    <3>2. doc \in Seq(Tokens) /\ LinkSpan(doc, a)
      OBVIOUS
    <3> QED
      BY ONLY <3>1, <3>2, LinkText, ZenonT(30)
  <2> QED
    BY <2>1
<1>3. CASE Relative(doc, a)
  <2>1. PICK base, v : base = ParseURL(u) /\ v = FixupRelativeURL(u, link)
    OBVIOUS
  <2>2. ~whole.ok
    BY <1>1, <1>3, NoScheme
  <2>3. n = NormalizeURL(v)
    BY <1>1, <1>3, <2>1 DEF Resulting
  <2>4. SUFFICES ASSUME n.ok, base.host # <<>>
                 PROVE  /\ NormalizeURL(n.url) = [ok |-> TRUE, url |-> n.url]
                        /\ ParseURL(n.url).path = NormalPath(MergedPath(base.path, UpToQuery(link)))
                        /\ ParseURL(n.url).host = base.host
    BY <1>1, <2>1, <2>2 DEF IsNormal
  <2>5. base.ok
    BY <1>3, <2>1
  <2>6. PICK t : t = ParseURL(v)
    OBVIOUS
  <2>7. v \in Seq(Tokens) /\ t.ok /\ t.host = base.host /\ t.path = MergedPath(base.path, UpToQuery(link))
    BY <1>2, <2>1, <2>4, <2>5, <2>6, Fixed
  <2>8. t.host # <<>>
    BY <2>4, <2>7
  <2>9. /\ NormalizeURL(n.url) = [ok |-> TRUE, url |-> n.url]
        /\ ParseURL(n.url).path = NormalPath(t.path) /\ ParseURL(n.url).host = t.host
    BY <2>3, <2>4, <2>6, <2>7, <2>8, Normalised
  <2> QED
    BY <2>7, <2>9
<1>4. CASE ~Relative(doc, a)
  <2>1. n = NormalizeURL(link)
    BY <1>1, <1>4 DEF Resulting
  <2>2. CASE whole.ok
    <3>1. SUFFICES ASSUME n.ok, whole.host # <<>>
                   PROVE  /\ NormalizeURL(n.url) = [ok |-> TRUE, url |-> n.url]
                          /\ ParseURL(n.url).path = NormalPath(whole.path)
                          /\ ParseURL(n.url).host = whole.host
      BY <1>1, <2>2 DEF IsNormal
    <3> QED
      <4>1. link \in Seq(Tokens) /\ whole = ParseURL(link) /\ whole.ok /\ whole.host # <<>>
        BY <1>1, <1>2, <2>2, <3>1
      <4>2. n = NormalizeURL(link) /\ n.ok
        BY <2>1, <3>1
      <4> QED
        BY ONLY <4>1, <4>2, Normalised
  <2>3. CASE ~whole.ok
    <3>1. ~n.ok
      <4>1. n = [ok |-> FALSE, url |-> link]
        BY <1>1, <2>1, <2>3 DEF NormalizeURL
      <4> QED
        BY <4>1
    <3> QED
      BY <1>1, <3>1 DEF IsNormal
  <2> QED
    BY <2>2, <2>3
<1> QED
  BY <1>3, <1>4

\* What holds of the page's URL and of the links in every state.
UrlsInv == url \in Seq(Tokens) /\ UrlsNormal

\* webpage_getNextURL adds a link of which it holds.
LEMMA GetNextURLNormalises ==
  ASSUME WordsInv, LinksInv, HandedInv, UrlsInv, GetNextURL
  PROVE  UrlsInv'
<1>1. /\ phase \in {"page", "links"} /\ url' = url
      /\ html \in Seq(Tokens) /\ pos \in 0..Len(html)
  BY DEF GetNextURL, LinksInv, server
<1>2. phase = "page" => pos = 0 /\ links = <<>>
  BY DEF WordsInv, HandedInv
<1>3. phase = "links" => html' = html
  BY DEF GetNextURL, HandedInv
<1>4. PICK doc, p, ls, u : doc = html' /\ p = pos /\ ls = links /\ u = url
  OBVIOUS
<1>5. doc \in Seq(Tokens) /\ p + 1 \in 1..(Len(doc) + 1) /\ u \in Seq(Tokens)
  <2>1. CASE phase = "page"
    <3>1. html' = RemoveWhitespace(html)
      BY <1>2, <2>1 DEF GetNextURL
    <3>2. html' \in Seq(Tokens)
      BY <1>1, <3>1, SelectedType DEF RemoveWhitespace
    <3> QED
      BY <1>2, <1>4, <2>1, <3>2 DEF UrlsInv
  <2>2. CASE phase = "links"
    BY <1>1, <1>3, <1>4, <2>2 DEF UrlsInv
  <2> QED
    BY <1>1, <2>1, <2>2
<1>6. \A n \in DOMAIN ls : IsNormal(doc, u, ls[n])
  <2>1. CASE phase = "page"
    <3>1. ls = <<>> /\ DOMAIN ls = {}
      BY <1>2, <1>4, <2>1
    <3> QED
      BY <3>1
  <2>2. CASE phase = "links"
    <3>1. \A n \in DOMAIN links : IsNormal(html, url, links[n])
      BY AllNormal DEF UrlsInv
    <3> QED
      BY <1>3, <1>4, <2>2, <3>1
  <2> QED
    BY <1>1, <2>1, <2>2
<1>7. PICK a : a = NextLink(doc, p + 1)
  OBVIOUS
<1>8. PICK l : l = [first |-> a.first, end |-> a.end, normal |-> NormalizeURL(Resulting(doc, u, a))]
  OBVIOUS
<1>9. \/ a.exists /\ (Relative(doc, a) => ParseURL(u).ok) /\ links' = Append(ls, l)
      \/ links' = ls
  BY <1>4, <1>7, <1>8 DEF GetNextURL, Resulting
<1>10. \A n \in DOMAIN links' : IsNormal(doc, u, links'[n])
  <2>1. CASE links' = ls
    BY <1>6, <2>1
  <2>2. CASE a.exists /\ (Relative(doc, a) => ParseURL(u).ok) /\ links' = Append(ls, l)
    <3>1. LinkSpan(doc, a)
      BY <1>5, <1>7, <2>2, GoodLinkIs
    <3>2. l.first = a.first /\ l.end = a.end /\ l.normal = NormalizeURL(Resulting(doc, u, a))
      BY <1>8
    <3>3. IsNormal(doc, u, l)
      BY <1>5, <2>2, <3>1, <3>2, LinkNormal
    <3>4. PICK T : ls \in Seq(T) /\ l \in T
      <4>1. PICK S : ls \in Seq(S)
        BY <1>4 DEF HandedInv
      <4>2. ls \in Seq(S \cup {l}) /\ l \in S \cup {l}
        BY <4>1
      <4> QED
        BY <4>2
    <3>5. PICK m : m = Append(ls, l)
      OBVIOUS
    <3>6. Len(m) = Len(ls) + 1 /\ m[Len(ls) + 1] = l /\ DOMAIN m = 1..Len(m) /\ DOMAIN ls = 1..Len(ls)
      BY <3>4, <3>5
    <3>7. \A i \in 1..Len(ls) : m[i] = ls[i]
      BY <3>4, <3>5
    <3>8. PICK k \in Nat : k = Len(ls)
      BY <3>4
    <3>9. ASSUME NEW n \in 1..(k + 1) PROVE IsNormal(doc, u, m[n])
      <4>1. CASE n = k + 1
        BY <3>3, <3>6, <3>8, <4>1
      <4>2. CASE n # k + 1
        <5>1. n \in 1..k
          BY <4>2
        <5> QED
          BY <1>6, <3>6, <3>7, <3>8, <5>1
      <4> QED
        BY <4>1, <4>2
    <3> QED
      BY <2>2, <3>5, <3>6, <3>8, <3>9
  <2> QED
    BY <1>9, <2>1, <2>2
<1>11. UrlsNormal'
  BY <1>1, <1>4, <1>10 DEF UrlsNormal, IsNormal, UpToQuery
<1> QED
  BY <1>1, <1>11 DEF UrlsInv

\* No other action touches the URL of the page, and there are links on a page only.
LEMMA UrlsKeep ==
  ASSUME WordsInv, LinksInv, HandedInv, UrlsInv, [Next]_vars
  PROVE  UrlsInv'
<1>1. CASE GetNextURL
  BY <1>1, GetNextURLNormalises
<1>2. CASE \/ \E n \in 1..Len(content) : WriteMemoryCallback(n)
           \/ TryFails \/ LastTryFails \/ FetchSucceeds \/ OtherFetch
           \/ AllocMessage \/ LengthOfMessage \/ CopyMessage \/ GetNextWord
  <2>1. phase \notin {"links", "nolink"} /\ links' = links /\ url' = url
    BY <1>2 DEF WriteMemoryCallback, TryFails, LastTryFails, FetchSucceeds, OtherFetch, AllocMessage,
                LengthOfMessage, CopyMessage, GetNextWord, server
  <2>2. links' = <<>>
    BY <2>1 DEF HandedInv
  <2>3. UrlsNormal'
    BY <2>2 DEF UrlsNormal
  <2> QED
    BY <2>1, <2>3 DEF UrlsInv
<1>3. CASE UNCHANGED vars
  <2>1. links' = links /\ html' = html /\ url' = url
    BY <1>3 DEF vars, server
  <2> QED
    BY <2>1 DEF UrlsInv, UrlsNormal
<1> QED
  BY <1>1, <1>2, <1>3 DEF Next

\* A link that webpage_getNextURL hands over and NormalizeURL accepts is in normal form,
\* which stays as it is however often it is normalised again, with the host of the page or
\* its own; and its path is the one that the segments of the page's URL and of the link
\* say, dots taken as steps.
THEOREM UrlsAreNormal == Spec => []UrlsNormal
<1>1. Init => UrlsInv
  <2> SUFFICES ASSUME Init PROVE UrlsInv
    OBVIOUS
  <2>1. links = <<>> /\ url \in Seq(Tokens)
    BY WebpageAssumption DEF Init
  <2> QED
    BY <2>1 DEF UrlsInv, UrlsNormal
<1>2. WordsInv /\ LinksInv /\ HandedInv /\ UrlsInv /\ [Next]_vars => UrlsInv'
  BY UrlsKeep
<1>3. UrlsInv => UrlsNormal
  BY DEF UrlsInv
<1> QED
  BY <1>1, <1>2, <1>3, ScannerInvariant, HandedInvariant, PTL DEF Spec

=============================================================================
