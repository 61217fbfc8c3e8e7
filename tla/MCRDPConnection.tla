-------------------------- MODULE MCRDPConnection --------------------------
(* RDPConnection with two sizes.                                           *)
EXTENDS RDPConnection

CONSTANTS small, large
MCSizes == {small, large}
=============================================================================
