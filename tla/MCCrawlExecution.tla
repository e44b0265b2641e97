-------------------------- MODULE MCCrawlExecution --------------------------
(* Crawls of a site that has lost page p2, and has it back for the second of them. *)
EXTENDS CrawlExecution

CONSTANTS a, b, p1, p2

GrowingSite == [j \in Jobs |-> IF j = a THEN {p1} ELSE {p1, p2}]
=============================================================================
