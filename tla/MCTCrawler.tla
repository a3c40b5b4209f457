----------------------------- MODULE MCTCrawler -----------------------------
(***************************************************************************)
(* The multi-threaded crawler on the webs of MCWeb.                        *)
(***************************************************************************)
EXTENDS TCrawler, MCWeb
=============================================================================
