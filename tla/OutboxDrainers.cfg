CONSTANTS
    Record = {r1, r2, r3}
    Writer = {w1}
    Drainer = {d1, d2}
    Key = {k1}
    BatchSize = 2
    MaxList = 1
    Free = Free
SPECIFICATION Spec
SYMMETRY Symmetry
INVARIANTS IInv AckedIsAccepted AckedIsPrefix DrainedIsDelivered
PROPERTY ImplementsDeliveryLog
