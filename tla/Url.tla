-------------------------------- MODULE Url ---------------------------------
(***************************************************************************)
(* URLs as tse/webpage.c parses, normalises and resolves them.  A string   *)
(* is a sequence of tokens: the characters the code looks for, and names   *)
(* that stand for any other text.  Positions count from 1, and 0 is NULL.  *)
(***************************************************************************)
EXTENDS Integers, Sequences, SequencesExt, Selection

CONSTANTS
  LowerCase,  \* tolower, on every token
  Exts        \* the names that begin with one of EXTS

Tokens == DOMAIN LowerCase

\* What ends a part of a URL.
Delimiters == {":", "/", "?", "#", "@"}

ASSUME UrlAssumption ==
  /\ LowerCase \in [Tokens -> Tokens] /\ Delimiters \subseteq Tokens
  /\ \A c \in Tokens : LowerCase[LowerCase[c]] = LowerCase[c]
  /\ \A c \in Tokens, d \in Delimiters : LowerCase[c] = d <=> c = d
  /\ Exts \subseteq Tokens

\* strpbrk, and strchr for a set of one: the first position from i on of one of cs.
FindFirst(s, i, cs) == SelectInSubSeq(s, i, Len(s), LAMBDA c : c \in cs)

\* strrchr
FindLast(s, c) == SelectLastInSeq(s, LAMBDA d : d = c)

\* strncmp: text stands at position i.
StandsAt(s, i, text) ==
  i + Len(text) <= Len(s) + 1 /\ SubSeq(s, i, i + Len(text) - 1) = text

Lower(s) == [i \in DOMAIN s |-> LowerCase[s[i]]]

-----------------------------------------------------------------------------
NotParsed == [ok |-> FALSE]

\* The host begins after "scheme:", "//" and "user@", whatever there is of them, and
\* ends at the first slash.  A query that begins before this slash makes the length of
\* the path negative, and its allocation fails.
ParseURL(str) ==
  LET colon == FindFirst(str, 1, {":", "/", "?", "#"})
      user  == IF StandsAt(str, colon + 1, <<"/", "/">>) THEN colon + 3 ELSE colon + 1
      at    == FindFirst(str, user, {"@", "/"})
      host  == IF at # 0 /\ str[at] = "@" THEN at + 1 ELSE user
      slash == FindFirst(str, user, {"/"})
      path  == IF slash = 0 THEN Len(str) + 1 ELSE slash
      query == FindFirst(str, user, {"?"})
      frag  == FindFirst(str, user, {"#"})
      end   == IF frag = 0 THEN Len(str) + 1 ELSE frag
      stop  == IF query = 0 \/ query > end THEN end ELSE query
  IN  IF colon = 0 \/ str[colon] # ":" \/ stop < path THEN NotParsed
      ELSE [ok       |-> TRUE,
            scheme   |-> Lower(SubSeq(str, 1, user - 1)),
            user     |-> SubSeq(str, user, host - 1),
            host     |-> Lower(SubSeq(str, host, path - 1)),
            path     |-> SubSeq(str, path, stop - 1),
            query    |-> SubSeq(str, stop, end - 1),
            fragment |-> SubSeq(str, end, Len(str))]

\* The output without its last segment and the slash before it.
DropLastSegment(out) == SubSeq(out, 1, FindLast(out, "/") - 1)

\* Faulty variant: ".." leaves the segment before it.
NextSegmentKeeping(buffers) ==
  LET in  == buffers.in
      out == buffers.out
      from(n) == SubSeq(in, n, Len(in))
      begins(prefix) == StandsAt(in, 1, prefix)
      next == FindFirst(in, 2, {"/"})
      end == IF next = 0 THEN Len(in) ELSE next - 1
      Left(rest, done) == [in |-> rest, out |-> done]
  IN  CASE in = <<>>                        -> buffers
        [] begins(<<".", "/">>)             -> Left(from(3), out)
        [] begins(<<".", ".", "/">>)        -> Left(from(4), out)
        [] begins(<<"/", ".", "/">>)        -> Left(from(3), out)
        [] in = <<"/", ".">>                -> Left(<<"/">>, out)
        [] begins(<<"/", ".", ".", "/">>)   -> Left(from(4), out)
        [] in = <<"/", ".", ".">>           -> Left(<<"/">>, out)
        [] in \in {<<".">>, <<".", ".">>}   -> Left(<<>>, out)
        [] OTHER -> Left(from(end + 1), out \o SubSeq(in, 1, end))

\* A turn of the loop of RemoveDotSegments on what is left of the input and the output:
\* RFC 3986, 5.2.4, rule by rule.
NextSegment(buffers) ==
  LET in  == buffers.in
      out == buffers.out
      from(n) == SubSeq(in, n, Len(in))
      begins(prefix) == StandsAt(in, 1, prefix)
      next == FindFirst(in, 2, {"/"})
      end == IF next = 0 THEN Len(in) ELSE next - 1
      Left(rest, done) == [in |-> rest, out |-> done]
  IN  CASE in = <<>>                        -> buffers
        [] begins(<<".", "/">>)             -> Left(from(3), out)
        [] begins(<<".", ".", "/">>)        -> Left(from(4), out)
        [] begins(<<"/", ".", "/">>)        -> Left(from(3), out)
        [] in = <<"/", ".">>                -> Left(<<"/">>, out)
        [] begins(<<"/", ".", ".", "/">>)   -> Left(from(4), DropLastSegment(out))
        [] in = <<"/", ".", ".">>           -> Left(<<"/">>, DropLastSegment(out))
        [] in \in {<<".">>, <<".", ".">>}   -> Left(<<>>, out)
        [] OTHER -> Left(from(end + 1), out \o SubSeq(in, 1, end))

\* Each turn shortens the input, so that it is used up after as many turns as it is long.
RemoveDotSegments(input) ==
  LET loop[n \in Nat] ==
        IF n = 0 THEN [in |-> input, out |-> <<>>] ELSE NextSegment(loop[n - 1])
  IN  loop[Len(input)].out

\* A path with a dot in its last segment needs an extension that is in the table.
HasPageExt(path) ==
  LET dot == FindLast(path, ".")
      slash == FindLast(path, "/")
  IN  slash # 0 /\ dot > slash /\ dot < Len(path) => path[dot + 1] \in Exts

\* NormalizeURL returns ok and leaves url in its argument.
NormalizeURL(url) ==
  LET tmp == ParseURL(url)
  IN  IF ~tmp.ok \/ (tmp.ok /\ ~HasPageExt(tmp.path)) THEN [ok |-> FALSE, url |-> url]
      ELSE [ok  |-> TRUE,
            url |-> tmp.scheme \o tmp.user \o tmp.host \o RemoveDotSegments(tmp.path)
                      \o tmp.query \o tmp.fragment]

\* The absolute URL of rel on a page at base, which has to parse.
FixupRelativeURL(base, rel) ==
  LET tmp   == ParseURL(base)
      slash == FindLast(tmp.path, "/")
      dir   == IF slash > 1 THEN SubSeq(tmp.path, 1, slash - 1) ELSE <<>>
  IN  tmp.scheme \o tmp.user \o tmp.host
        \o (IF rel # <<>> /\ rel[1] = "/" THEN <<>> ELSE Append(dir, "/")) \o rel

-----------------------------------------------------------------------------
(***************************************************************************)
(* Reference definitions, by segments.                                     *)
(***************************************************************************)
\* The segments of a path that begins with a slash.
Segments(path) ==
  LET slashes == {i \in DOMAIN path : path[i] = "/"}
      cuts == Selected([i \in 1..(Len(path) + 1) |-> i], slashes \cup {Len(path) + 1})
  IN  [n \in 1..(Len(cuts) - 1) |-> SubSeq(path, cuts[n] + 1, cuts[n + 1] - 1)]

Path(segments) == FlattenSeq([n \in DOMAIN segments |-> <<"/">> \o segments[n]])

Dots == {<<".">>, <<".", ".">>}

\* The segments without ".", and with ".." taken as a step back.
Walk(segments) ==
  LET stack[n \in 0..Len(segments)] ==
        IF n = 0 THEN <<>>
        ELSE IF segments[n] \notin Dots THEN Append(stack[n - 1], segments[n])
        ELSE IF segments[n] = <<".">> \/ stack[n - 1] = <<>> THEN stack[n - 1]
        ELSE Front(stack[n - 1])
  IN  stack[Len(segments)]

\* Where the segments lead; a path that ends in dots ends in a slash.
Resolved(segments) ==
  IF segments # <<>> /\ Last(segments) \in Dots THEN Append(Walk(segments), <<>>) ELSE Walk(segments)

NormalPath(path) == Path(Resolved(Segments(path)))

\* The path that rel means on a page with path base.
MergedPath(base, rel) ==
  IF rel # <<>> /\ rel[1] = "/" THEN rel
  ELSE IF base = <<>> THEN <<"/">> \o rel
  ELSE SubSeq(base, 1, FindLast(base, "/")) \o rel

=============================================================================
