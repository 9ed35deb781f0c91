\* The synchronizer alone, against writers of two Works and of an original.
CONSTANTS
    Call = {}
    Work = {w1, w2}
    Unscoped = Unscoped
    Result = {ok}
    None = None
    Original = {o1}
    MaxWrites = 2
    BatchSize = 1
SPECIFICATION FairSpec
INVARIANT CleanCycleCovers
PROPERTY EventuallyMirrored
