------------------------- MODULE MCStudioVariations -------------------------
(* StudioVariations for TLC: requests and candidates that may be exchanged. *)
EXTENDS StudioVariations, TLC

CONSTANTS r1, r2, v1, v2

MCRequest == {r1, r2}
MCVariation == {v1, v2}
\* Candidates of one reference look alike.
MCShape == [v \in MCVariation |-> "one reference"]
Symmetry == Permutations(MCRequest) \cup Permutations(MCVariation)
=============================================================================
