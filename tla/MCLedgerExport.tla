--------------------------- MODULE MCLedgerExport ---------------------------
(* Small instances of LedgerExport for TLC. *)
EXTENDS LedgerExport, TLC

Symmetry ==
    Permutations(Run) \cup Permutations(Attempt) \cup Permutations(Origin)
        \cup Permutations(File)

=============================================================================
