--------------------------- MODULE MCCastSession ---------------------------
(***************************************************************************)
(* Instances of CastSession for TLC; callers are interchangeable.          *)
(***************************************************************************)
EXTENDS CastSession, TLC

AnyCaller == Permutations(Callers)
=============================================================================
