---------------------------- MODULE MCClientPool ----------------------------
(* Instances of ClientPool for TLC. *)
EXTENDS ClientPool, TLC

Symm == Permutations(Requests) \cup Permutations(Clients)
==============================================================================
