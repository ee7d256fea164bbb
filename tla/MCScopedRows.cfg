CONSTANTS
    NoValue = NoValue
    StateKey <- MCStateKey
    Value = {v, w}
SPECIFICATION Spec
INVARIANTS
    SplitLosesNothing
    ViewAppliesDelta
