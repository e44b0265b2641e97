--------------------------- MODULE MCConnectorSync ---------------------------
(* An ordinary connector with two rows, a crawled one with one, and an engine *)
(* with a single slot.                                                        *)
EXTENDS ConnectorSync

CONSTANTS r3, drive, site       \* r3 is the run of the other connector

MCConnectorOf == [r \in Runs |-> IF r = r3 THEN site ELSE drive]
==============================================================================
