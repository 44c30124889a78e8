---------------------------- MODULE MCConnection ----------------------------
(* Instances of Connection for TLC; operations are interchangeable. *)
EXTENDS Connection, TLC

Operations == Permutations(Threads)
=============================================================================
