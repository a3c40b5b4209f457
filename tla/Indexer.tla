------------------------------- MODULE Indexer ------------------------------
(***************************************************************************)
(* indexer/indexer.c: main loads the pages 1, 2, ... from the page         *)
(* directory until one does not load, adds every word of theirs to the     *)
(* index and saves it.  The directory belongs to the environment.          *)
(***************************************************************************)
EXTENDS PageIO, Index, Scan

CONSTANTS
  Norm,    \* NormalizeWord: a function on the words it accepts
  Stumps,  \* the strings that words begin with: a set for every normal form
  Powers   \* the powers of the base that numbers are written in

VARIABLES
  pagedir,       \* the page files, a function on their ids
  phase,         \* "off", "load", "read", "words", "end" or "save"
  id, page, pos, \* the variables of main
  stream_count,
  idx,
  part,          \* pageload: the file that was opened, the one that the last read has
                 \* found in its place, and the html so far
  read,          \* history: the files of the pages loaded
  mixed,         \* history: the html of those among them that are mixed of several files
  lost,          \* history: an allocation has failed without notice
  file,          \* the index file, or NoIndex
  written        \* history: what file was made of, and whether it is all there

locals == <<id, page, pos, stream_count, idx, part, read, mixed, lost>>
vars == <<pagedir, phase, locals, file, written>>

None == [i \in {} |-> <<>>]

NothingWritten == [idx |-> <<>>, read |-> <<>>, mixed |-> None, lost |-> FALSE, whole |-> FALSE]

Init ==
  /\ phase = "off" /\ file = NoIndex /\ written = NothingWritten
  /\ id = 1 /\ page = NoPage /\ pos = 0 /\ stream_count = 0 /\ idx = <<>>
  /\ part = NoPage /\ read = <<>> /\ mixed = None /\ lost = FALSE

-----------------------------------------------------------------------------
\* The process ends, and its variables with it.
Exit ==
  /\ phase' = "off"
  /\ id' = 1 /\ page' = NoPage /\ pos' = 0 /\ stream_count' = 0 /\ idx' = <<>>
  /\ part' = NoPage /\ read' = <<>> /\ mixed' = None /\ lost' = FALSE

Start ==
  /\ phase = "off"
  /\ phase' = "load"
  /\ UNCHANGED <<pagedir, locals, file, written>>

\* What pageload returns for an id if nothing fails and the file stays as it is.
Loaded(i) == IF i \in DOMAIN pagedir THEN PageLoad(pagedir[i]) ELSE NoPage

\* pageload returns a page, of file f.
PageReturned(p, f) ==
  /\ phase' = "words"
  /\ page' = p /\ pos' = 0
  /\ part' = NoPage /\ read' = Append(read, f)
  /\ UNCHANGED <<pagedir, id, stream_count, idx, lost, file, written>>

LoadPage ==
  /\ phase = "load" /\ Loaded(id) # NoPage
  /\ PageReturned(Loaded(id), pagedir[id])
  /\ UNCHANGED mixed

\* The first of several reads gets the header and a part of the html.
ReadPart ==
  /\ phase = "load" /\ id \in DOMAIN pagedir /\ Len(pagedir[id].header) = 3
  /\ phase' = "read"
  /\ LET html == SkipSpace(pagedir[id].html)
     IN  \E n \in 0..Len(html) :
           /\ n < pagedir[id].header[3]
           /\ part' = [file |-> pagedir[id], now |-> pagedir[id], html |-> SubSeq(html, 1, n)]
  /\ UNCHANGED <<pagedir, id, page, pos, stream_count, idx, read, mixed, lost, file, written>>

\* Html s followed by some of t, maybe with a word between them that is made of the
\* beginning of one and the end of another.
Mix(s, seam, t, m, n) == s \o seam \o SubSeq(t, m, n)

Mixes(s, t) ==
  {h \in {Mix(s, seam, t, m, n) :
           m \in 1..(Len(t) + 1), n \in 0..Len(t),
           seam \in {<<>>} \cup {<<w>> : w \in Letters}} : WordsApart(h)}

\* The next read finds that the file has been replaced.
ReadMore ==
  /\ phase = "read" /\ id \in DOMAIN pagedir /\ pagedir[id] # part.now
  /\ \E html \in Mixes(part.html, pagedir[id].html) :
       /\ Len(html) <= part.file.header[3]
       /\ part' = [part EXCEPT !.html = html, !.now = pagedir[id]]
  /\ UNCHANGED <<pagedir, phase, id, page, pos, stream_count, idx, read, mixed, lost, file, written>>

\* The reads end with the page of the file that was opened,
EndRead ==
  /\ phase = "read" /\ part.now = part.file
  /\ id \in DOMAIN pagedir /\ pagedir[id] = part.now /\ Loaded(id) # NoPage
  /\ PageReturned(Loaded(id), part.file)
  /\ UNCHANGED mixed

\* or with one that has its header, and html of other files, too.
EndReadMixed ==
  /\ phase = "read" /\ part.now # part.file /\ Len(part.html) = part.file.header[3]
  /\ LET html == CString(part.html)
     IN  /\ PageReturned([url |-> part.file.header[1], depth |-> part.file.header[2],
                         html |-> html], part.file)
         /\ mixed' = [i \in DOMAIN mixed \cup {id} |-> IF i = id THEN html ELSE mixed[i]]

EndOfPages ==
  /\ phase' = "end" /\ part' = NoPage
  /\ UNCHANGED <<pagedir, id, page, pos, stream_count, idx, read, mixed, lost, file, written>>

\* The first id that does not load ends the loop: there is no file, or what was read of it
\* is too short.
NoPageLoads ==
  /\ \/ phase \in {"load", "read"} /\ Loaded(id) = NoPage
     \/ phase = "read" /\ (part.now # part.file \/ pagedir[id] # part.now)
  /\ EndOfPages

\* So does one whose file does not open or that finds no memory, which nobody notices.
PageLoadFails ==
  /\ phase \in {"load", "read"} /\ id \in DOMAIN pagedir
  /\ EndOfPages

\* What webpage_getNextWord finds, and the word of it.
Found == FindWord(page.html, pos + 1)
Word == page.html[Found.first]

\* Faulty variant: every page has the id of the next one.
NextWordLate ==
  /\ phase = "words" /\ Found.kind = "found"
  /\ pos' = Found.last
  /\ IF Word \in DOMAIN Norm
     THEN /\ idx' = AddPosting(idx, Norm[Word], id + 1, 1)
          /\ stream_count' = stream_count + 1
     ELSE UNCHANGED <<idx, stream_count>>
  /\ UNCHANGED <<pagedir, phase, id, page, part, read, mixed, lost, file, written>>

\* The next word of the page, if it is one, is added to the index and counted.
NextWord ==
  /\ phase = "words" /\ Found.kind = "found"
  /\ pos' = Found.last
  /\ IF Word \in DOMAIN Norm
     THEN /\ idx' = AddPosting(idx, Norm[Word], id, 1)
          /\ stream_count' = stream_count + 1
     ELSE UNCHANGED <<idx, stream_count>>
  /\ UNCHANGED <<pagedir, phase, id, page, part, read, mixed, lost, file, written>>

\* index_add_posting finds no memory, which is ignored.
NextWordLost ==
  /\ phase = "words" /\ Found.kind = "found" /\ Word \in DOMAIN Norm
  /\ \A i \in WordAt(idx, Norm[Word]) : DocAt(idx[i].postings, id) = {}
  /\ pos' = Found.last
  /\ idx' \in {idx, WithEntry(idx, Norm[Word])}
  /\ stream_count' = stream_count + 1
  /\ lost' = TRUE
  /\ UNCHANGED <<pagedir, phase, id, page, part, read, mixed, file, written>>

NextPage ==
  /\ phase' = "load" /\ id' = id + 1 /\ page' = NoPage
  /\ UNCHANGED <<pagedir, pos, stream_count, idx, part, read, mixed, file, written>>

EndOfPage ==
  /\ phase = "words" /\ Found.kind = "end"
  /\ NextPage
  /\ UNCHANGED lost

\* webpage_getNextWord finds no memory, which ends the page.
EndOfPageLost ==
  /\ phase = "words" /\ Found.kind = "found"
  /\ NextPage
  /\ lost' = TRUE

\* A tag that is not closed ends the process.
Crash ==
  /\ phase = "words" /\ Found.kind = "crash"
  /\ Exit
  /\ UNCHANGED <<pagedir, file, written>>

-----------------------------------------------------------------------------
\* indexsave opens the file.
OpenIndex ==
  /\ phase = "end"
  /\ phase' = "save"
  /\ file' = <<>>
  /\ written' = [idx |-> idx, read |-> read, mixed |-> mixed, lost |-> lost, whole |-> FALSE]
  /\ UNCHANGED <<pagedir, locals>>

\* fopen fails: the file stays what it is, which is ignored.
OpenIndexFails ==
  /\ phase = "end"
  /\ Exit
  /\ UNCHANGED <<pagedir, file, written>>

\* The lines reach the file at the end; what a reader may see of them before is what a
\* write that fails leaves, too.
WriteIndex ==
  /\ phase = "save"
  /\ file' = Lines(idx) /\ written' = [written EXCEPT !.whole = TRUE]
  /\ Exit
  /\ UNCHANGED pagedir

\* A write fails, which is ignored, or the process is killed.
WriteIndexFails ==
  /\ phase = "save"
  /\ file' \in TornFile(idx, Stumps, Powers)
  /\ Exit
  /\ UNCHANGED <<pagedir, written>>

Kill ==
  /\ phase \in {"load", "read", "words", "end"}
  /\ Exit
  /\ UNCHANGED <<pagedir, file, written>>

Next ==
  \/ Start \/ LoadPage \/ ReadPart \/ ReadMore \/ EndRead \/ EndReadMixed \/ NoPageLoads
  \/ PageLoadFails \/ NextWord \/ NextWordLost \/ EndOfPage \/ EndOfPageLost \/ Crash
  \/ OpenIndex \/ OpenIndexFails \/ WriteIndex \/ WriteIndexFails \/ Kill

Spec == Init /\ [][Next]_vars

=============================================================================
