---------------------------- MODULE MCFreshness ----------------------------
(* Freshness for TLC: two tracks that may be exchanged. *)
EXTENDS Freshness, TLC

CONSTANTS t1, t2

MCTrack == {t1, t2}
Symmetry == Permutations(MCTrack)
=============================================================================
