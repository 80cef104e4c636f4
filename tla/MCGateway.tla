------------------------------ MODULE MCGateway ------------------------------
(* A small instance of Gateway for TLC. *)
EXTENDS Gateway

CONSTANTS r1, r2, a1, a2, o1, k1, k2
==============================================================================
