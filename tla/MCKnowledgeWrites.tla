------------------------- MODULE MCKnowledgeWrites -------------------------
(* Instance of KnowledgeWrites for TLC: an upload that changes or is sent again, too long
   for enrichment or not, a connector's document that changes, and a page of neither kind
   that loses its text. *)
EXTENDS KnowledgeWrites
CONSTANTS i1, i2, v1, v2, long, bare, w1
Changes == [i \in Ingests |-> IF i = i1 THEN v1 ELSE v2]
Repeats(v) == [i \in Ingests |-> v]
Loses == [i \in Ingests |-> IF i = i1 THEN v1 ELSE bare]
MCDocuments == {[origin |-> "upload", says |-> Changes], [origin |-> "upload", says |-> Repeats(v1)],
                [origin |-> "upload", says |-> Repeats(long)],
                [origin |-> "connector", says |-> Changes], [origin |-> "page", says |-> Loses]}
=============================================================================
