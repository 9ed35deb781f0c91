\* A tool that may fail in any way, and return what is not JSON.
CONSTANTS
    Call = {c1, c2}
    None = None
    MaxTries = 2
    Truthful = {c1}
SPECIFICATION Spec
INVARIANT ReturnedIsNotBlamed
\* A call is over when the caller has its result or does not try again.
CHECK_DEADLOCK FALSE
