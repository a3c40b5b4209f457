----------------------------- MODULE MCWebpage ------------------------------
(***************************************************************************)
(* Pages of up to four pieces: anchors of both kinds, tags, parts of them, *)
(* and text; pages that begin with a quoted "href=" or a bare name; pages  *)
(* with one link, over all paths of dots, slashes and names up to a        *)
(* length, at several URLs; and contents that arrive in parts.             *)
(***************************************************************************)
EXTENDS Webpage

CONSTANTS MaxPieces, MaxPath

Text == {"a", "w", "W", "http", "html", "href"}
MCLetters == Text
MCQuotes == {"'", "Q"}
MCLowerCase ==
  [c \in Text \cup MCQuotes \cup {":", "/", ".", "?", "#", "@", "<", ">", "=", " ", "junk"} |->
     IF c = "W" THEN "w" ELSE c]

Site == <<"http", ":", "/", "/", "W">>

Pieces ==
  {<<"<", "a", " ", "href", "=">>, <<"<", "a", "href", "=", "Q", "w", "Q", ">">>,
   <<"<", "a", ">">>, <<"<", "w", " ", "href", "=", "w", ">">>, <<"<">>, <<">">>, <<"Q">>, <<"'">>, <<"w">>, <<"#", "w">>, <<":">>,
   Site \o <<"/", "w">>}

MCPages ==
  {[url |-> Site, html |-> FlattenSeq(s)] : s \in UNION {[1..n -> Pieces] : n \in 1..MaxPieces}}
    \cup
  {[url |-> Site, html |-> tag \o p \o q] :
     tag \in {<<"<", "a", "Q", "href", "=", "Q", ">">>, <<"<", "a", "href", "=", "http", ">">>},
     p \in Pieces, q \in Pieces}
    \cup
  {[url |-> Site \o dir, html |-> <<"<", "a", "href", "=">> \o site \o path \o <<">">>] :
     dir \in {<<>>, <<"/", "w">>, <<"/", "w", "/", ".", "html">>, <<"/", ".", ".", "/", "w", "/", "?", "w">>},
     site \in {<<>>, Site, <<"http", ":", "/", "/", "w", "@", "W">>, <<"http", ":">>},
     path \in UNION {[1..n -> {".", "/", "w"}] : n \in 0..MaxPath}}
    \cup
  {[url |-> <<"w">>, html |-> <<"<", "a", "href", "=", "w", ".", "html", "?", "w", ">">>],
   [url |-> Site, html |-> <<"<", "a", "href", "=", "w", ".", "html", "?", "w", ">">>]}

MCMessages == {<<"W">>, <<"w", " ", "W">>}

MCContents == {<<>>, <<"w">>, <<"w", " ", ":">>}

=============================================================================
