---------------------------- MODULE MCLocalFile ----------------------------
(* Values for TLC: two files that a first request brings whole, a url, and *)
(* a file longer than the caches together.                                 *)
EXTENDS LocalFile, TLC

MCLength == (1 :> 1) @@ (2 :> 1) @@ (4 :> 5)
=============================================================================
