------------------------------- MODULE MCRSM -------------------------------
(* Servers and requests are interchangeable.                               *)
EXTENDS RSM, TLC

Symmetry == Permutations(Server) \cup Permutations(Request)
=============================================================================
