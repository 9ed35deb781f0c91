\* Two retained records of two sources, and one that only the mirror observes.
SPECIFICATION FairSpec
CONSTANTS
    Record = {r1, r2, r3}
    Companion = {r1}
    Count = 2
    BatchSize = 2
    MaxLosses = 2
INVARIANTS TypeOK ProofIsBacked SyncClaimsOnlyHeld
PROPERTIES Completes
