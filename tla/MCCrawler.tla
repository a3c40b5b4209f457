----------------------------- MODULE MCCrawler ------------------------------
(***************************************************************************)
(* The sequential crawler on the webs of MCWeb.                            *)
(***************************************************************************)
EXTENDS Crawler, MCWeb
=============================================================================
