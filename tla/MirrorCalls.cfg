\* Two calls next to the synchronizer; their scopes are any.
CONSTANTS
    Call = {c1, c2}
    Work = {w1}
    Unscoped = Unscoped
    Result = {ok}
    None = None
    MaxWrites = 1
    Original = {}
    BatchSize = 1
SPECIFICATION Spec
SYMMETRY Symmetry
INVARIANT EffectsAreMirrored
PROPERTY ImplementsPluginCalls
