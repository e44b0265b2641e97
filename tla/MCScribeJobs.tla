----------------------------- MODULE MCScribeJobs -----------------------------
(* Two containers that overlap, each with one worker and its own requests. *)
EXTENDS ScribeJobs

CONSTANTS blue, green, wb, wg, qb, qg

MCHomeOf == [t \in Workers \union Callers |-> IF t \in {wb, qb} THEN blue ELSE green]
===============================================================================
