------------------------------ MODULE MCKVRaft ------------------------------
(* KVRaft for TLC: clerks are alike. *)
EXTENDS KVRaft, TLC

Symmetry == Permutations(Client)
=============================================================================
