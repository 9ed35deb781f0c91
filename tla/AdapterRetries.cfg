\* Callers that send a call up to twice, to a truthful tool and to any other.
CONSTANTS
    Call = {c1, c2}
    None = None
    MaxTries = 2
    Truthful = {c1}
SPECIFICATION Spec
INVARIANTS TypeOK PaidOnce
\* A call is over when the caller has its result or does not try again.
CHECK_DEADLOCK FALSE
