\* Two receipts, an attempt and an origin, a run that is written twice.
CONSTANTS
    Run = {r1}
    Attempt = {a1}
    Origin = {o1}
    File = {f1, f2}
    None = None
    MaxRevision = 2
SPECIFICATION Spec
SYMMETRY Symmetry
INVARIANTS TypeOK IInv OperationsHaveRuns ExportIsBetween
