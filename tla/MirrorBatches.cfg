\* One call that may write two Works, and batches that are taken over in part.
CONSTANTS
    Call = {c1}
    Work = {w1, w2}
    Unscoped = Unscoped
    Result = {ok}
    None = None
    MaxWrites = 2
    Original = {}
    BatchSize = 2
SPECIFICATION Spec
SYMMETRY Symmetry
INVARIANTS TypeOK RequestsGoFirst
PROPERTY ImplementsDeliveryLog
