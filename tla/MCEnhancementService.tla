------------------------- MODULE MCEnhancementService -------------------------
(* Model-checking instances of EnhancementService. *)
EXTENDS EnhancementService, TLC

Symmetry == Permutations(Streams) \cup Permutations(StreamIds)
=============================================================================
