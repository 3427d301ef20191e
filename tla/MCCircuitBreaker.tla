--------------------------- MODULE MCCircuitBreaker ---------------------------
(***************************************************************************)
(* Three calls at once, alike but for their names; two where liveness is   *)
(* checked, without symmetry.                                              *)
(***************************************************************************)
EXTENDS CircuitBreaker, TLC

CONSTANTS s1, s2, s3

Servers == {s1, s2, s3}
TwoServers == {s1, s2}
Alike == Permutations(Servers)
=============================================================================
