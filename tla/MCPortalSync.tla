---------------------------- MODULE MCPortalSync ----------------------------
(* Two runs of one connector, started from the portal or by a schedule. *)
EXTENDS PortalSync, TLC

CONSTANT conn

MCConnectorOf == [r \in Runs |-> conn]
RunSymmetry == Permutations(Runs) \union Permutations(Users)
=============================================================================
