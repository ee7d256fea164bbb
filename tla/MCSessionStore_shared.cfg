CONSTANTS
    v = v
    w = w
    NoValue = NoValue
    NoRow = NoRow
    NoExpiration = NoExpiration
    Proc = {p1, p2}
    SessionID = {s1}
    App = {a1}
    User = {u1, u2}
    EventID = {e1, e2}
    DisplayName = {"n"}
    StateKey <- SharedStateKey
    Value = {v, w}
    CreateInput <- EmptyInput
    UpdateInput <- NoUpdates
    AppendDelta <- DisjointDeltas
    SuppliedTime = {0}
    MaxTime = 0
SYMMETRY Symmetry
SPECIFICATION Spec
INVARIANTS
    AppendedStateSurvives
PROPERTIES
    StoredEventFullyApplied
    ScopedStateNeverReverts
    DeletedStaysDeleted
