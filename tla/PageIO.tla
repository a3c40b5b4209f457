-------------------------------- MODULE PageIO ------------------------------
(***************************************************************************)
(* Page files: what utils/pageio.c writes for a page, what is left when    *)
(* the write stops, and what is read back.  The html of a page is a        *)
(* sequence of words, parts of tags, white space and null characters,      *)
(* each of length 1.                                                       *)
(***************************************************************************)
EXTENDS Integers, Sequences, SequencesExt

CONSTANTS
  Space,     \* a white space character in the html
  Nul,       \* a null character in the html
  UrlStump,  \* the first characters of a URL
  NoPage     \* pageload returns NULL

\* The header lines that are there, of url, depth and html_len, and the html.
File(page) == [header |-> <<page.url, page.depth, Len(page.html)>>, html |-> page.html]

EmptyFile == [header |-> <<>>, html |-> <<>>]

\* What a pagesave that ran out of disk leaves behind; it does not notice.
TornFiles(page) ==
  {[header |-> h, html |-> <<>>] :
     h \in {<<UrlStump>>} \cup {SubSeq(File(page).header, 1, n) : n \in 0..2}}
    \cup {[File(page) EXCEPT !.html = SubSeq(@, 1, n)] : n \in 0..(Len(page.html) - 1)}

\* The html from position i on that is not white space.
SkipSpace(html) ==
  LET first == {i \in DOMAIN html : html[i] # Space /\ \A j \in 1..(i - 1) : html[j] = Space}
  IN  IF first = {} THEN <<>> ELSE SubSeq(html, CHOOSE i \in first : TRUE, Len(html))

\* The string that a char * is: it ends at a null character.
CString(html) ==
  LET nul == {i \in DOMAIN html : html[i] = Nul /\ \A j \in 1..(i - 1) : html[j] # Nul}
  IN  IF nul = {} THEN html ELSE SubSeq(html, 1, (CHOOSE i \in nul : TRUE) - 1)

\* Faulty variant: a file that is too short is taken as it is.
PageLoadShort(file) ==
  IF Len(file.header) < 3 THEN NoPage
  ELSE [url |-> file.header[1], depth |-> file.header[2], html |-> CString(SkipSpace(file.html))]

\* pageload of a file that opens.  The line feed in the format of fscanf skips any white
\* space after the number, that at the start of the html included.
PageLoad(file) ==
  IF Len(file.header) < 3 \/ Len(SkipSpace(file.html)) < file.header[3] THEN NoPage
  ELSE [url   |-> file.header[1],
        depth |-> file.header[2],
        html  |-> CString(SubSeq(SkipSpace(file.html), 1, file.header[3]))]

=============================================================================
