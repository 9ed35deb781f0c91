----------------------- MODULE MCArchiveMemoryAdapter -----------------------
(* Small instances of ArchiveMemoryAdapter for TLC. *)
EXTENDS ArchiveMemoryAdapter, TLC

\* Calls, Works and results are interchangeable in the safety runs.
Symmetry ==
    Permutations(Call) \cup Permutations(Work) \cup Permutations(Result)

=============================================================================
