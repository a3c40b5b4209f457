------------------------------- MODULE MCTse --------------------------------
(***************************************************************************)
(* Pages of up to four tokens: words in two spellings, one the beginning   *)
(* of the other, in a tag and out of it; a tag that a null character       *)
(* leaves open, white space at the start, and nothing at all.              *)
(***************************************************************************)
EXTENDS Tse

CONSTANTS cat, Cat, cats

MCPage(u, h) == [url |-> u, depth |-> 0, html |-> h]

One   == MCPage("one", <<cat, Space, cats>>)
Two   == MCPage("two", <<"<", cat, ">", Cat>>)
Three == MCPage("three", <<cats, "<", Nul, ">">>)
Four  == MCPage("four", <<Space, cats>>)
Five  == MCPage("five", <<>>)

MCSites == {{One, Two}, {Two, Four}, {Three, Five}, {Four, One}}

MCNorm == [w \in {cat, Cat, cats} |-> IF w = Cat THEN cat ELSE w]

\* The three letters that cats begins with are a word.
MCStumps == [w \in {cat, cats} |-> IF w = cats THEN {cat} ELSE {}]

MCQueries == {<<cat, cats, Or, cat>>}

=============================================================================
