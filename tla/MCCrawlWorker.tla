--------------------------- MODULE MCCrawlWorker ----------------------------
(* Small instances of a crawler process with two coroutines at a time; v1  *)
(* and v2 are what a page may hold, v2 with noindex.                       *)
EXTENDS CrawlWorker, TLC

CONSTANTS a, b, s1, s2, s3, v1, v2

MCSymmetry == Permutations({s1, s2, s3})
=============================================================================
