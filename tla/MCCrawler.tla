----------------------------- MODULE MCCrawler -----------------------------
(* The crawler with a few addresses, one handler and one callback.         *)
EXTENDS Crawler, TLC
=============================================================================
