--------------------------- MODULE MCReplacePoints ---------------------------
(* A version with three chunks, re-ingested as a version with one: a whole write *)
(* of each, and two enrichments of the first batch of the old version.           *)
EXTENDS ReplacePoints, TLC
CONSTANTS old, new, ingest, reingest, batch1, batch2

MCChunksOf == (old :> {0, 1, 2}) @@ (new :> {0})
MCVersionOf == [w \in Calls |-> IF w = reingest THEN new ELSE old]
MCOffsetOf == [w \in Calls |-> 0]
\* The two batches are alike.
Symmetry == Permutations({batch1, batch2})
==============================================================================
