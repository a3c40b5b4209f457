------------------------------- MODULE MCWeb -------------------------------
(***************************************************************************)
(* Two small webs for the crawlers.  Both have cycles, a page with two     *)
(* spellings ("A" is normalised to "a") and an external page ("x").        *)
(***************************************************************************)

MCNormalised == {"s", "a", "b", "c", "d", "e"}

\* The site: a page of every depth up to 2.
SiteUrls == {"s", "a", "A", "b", "c", "x"}

SiteLinks == [u \in SiteUrls |->
  CASE u = "s" -> <<"A", "x", "b">>
    [] u \in {"a", "A"} -> <<"b", "s">>
    [] u = "b" -> <<"A", "c">>
    [] OTHER -> <<>>]

\* The detour: "d" is two links away through "a" and three through "b", and "e"
\* is within three links only through "a".
DetourUrls == SiteUrls \cup {"d", "e"}

DetourLinks == [u \in DetourUrls |->
  CASE u = "s" -> <<"A", "x", "b">>
    [] u \in {"a", "A"} -> <<"d", "s", "b">>
    [] u = "b" -> <<"a", "c">>
    [] u = "c" -> <<"d", "A">>
    [] u = "d" -> <<"e", "s">>
    [] u = "e" -> <<"c">>
    [] OTHER -> <<>>]

SiteNorm == [u \in SiteUrls |-> IF u = "A" THEN "a" ELSE u]
DetourNorm == [u \in DetourUrls |-> IF u = "A" THEN "a" ELSE u]

SiteInternal == MCNormalised \cap SiteUrls
DetourInternal == MCNormalised
=============================================================================
