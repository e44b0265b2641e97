---------------------------- MODULE MCInlineSync ----------------------------
(* Consecutive runs of one connector with two documents.                     *)
EXTENDS InlineSync, TLC

CONSTANT main

MCConnectorOf == [r \in Runs |-> main]
MCSourceOf == [d \in Docs |-> main]
MCAdapters == {[c \in Connectors |-> k] : k \in Kinds}
DocSymmetry == Permutations(Docs)
=============================================================================
