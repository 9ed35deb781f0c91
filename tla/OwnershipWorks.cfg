\* Two files that two Works may compete for; every graph of pins on them.
CONSTANTS
    Object = {o1, o2}
    Work = {w1, w2}
    Ledger = Ledger
    None = None
SPECIFICATION FairSpec
INVARIANTS TypeOK IInv OwnedIsClosure ScopeIsExclusive
PROPERTIES ExportEnds EveryStepDescends
\* An export ends.
CHECK_DEADLOCK FALSE
