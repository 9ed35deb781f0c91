CONSTANTS
    Record = {r1, r2}
    Writer = {w1}
    Drainer = {d1, d2}
    Key = {k1, k2}
    BatchSize = 1
    MaxList = 1
    Free = Free
SPECIFICATION FairSpec
PROPERTY EveryRowAcked
