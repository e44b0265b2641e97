--------------------------- MODULE MCProvisioning ---------------------------
(* Instance of Provisioning for TLC: two tasks at once, a team more than there are faults. *)
EXTENDS Provisioning
CONSTANTS t1, t2, m1, m2, m3
=============================================================================
