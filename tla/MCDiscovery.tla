---------------------------- MODULE MCDiscovery ----------------------------
(* Discovery on a small instance: the clients are interchangeable.               *)
EXTENDS Discovery, TLC

Requests == Permutations(Clients)
=============================================================================
