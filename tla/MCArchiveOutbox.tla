-------------------------- MODULE MCArchiveOutbox --------------------------
(* Small instances of ArchiveOutbox for TLC. *)
EXTENDS ArchiveOutbox, TLC

\* Actors of one kind, and records, are interchangeable in the safety runs.
Symmetry ==
    Permutations(Record) \cup Permutations(Writer) \cup Permutations(Drainer)

=============================================================================
