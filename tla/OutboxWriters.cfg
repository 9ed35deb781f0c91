CONSTANTS
    Record = {r1, r2, r3}
    Writer = {w1, w2}
    Drainer = {}
    Key = {k1}
    BatchSize = 2
    MaxList = 3
    Free = Free
SPECIFICATION Spec
SYMMETRY Symmetry
INVARIANTS TypeOK UniqueRows CountsAddUp ReturnedIsDurable
