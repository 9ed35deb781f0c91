------------------------ MODULE MCCreativeOwnership ------------------------
(* Small instances of CreativeOwnership for TLC. *)
EXTENDS CreativeOwnership, TLC

Symmetry == Permutations(Object) \cup Permutations(Work)

=============================================================================
