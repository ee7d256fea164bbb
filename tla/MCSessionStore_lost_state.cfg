CONSTANTS
    v = v
    w = w
    NoValue = NoValue
    NoRow = NoRow
    NoExpiration = NoExpiration
    Proc = {p1, p2}
    SessionID = {s1}
    App = {a1}
    User = {u1}
    EventID = {e1}
    DisplayName = {"n"}
    StateKey <- MCStateKey
    Value = {v, w}
    CreateInput <- EmptyInput
    UpdateInput <- Renames
    AppendDelta <- RaceDeltas
    SuppliedTime = {0}
    MaxTime = 0
SYMMETRY Symmetry
SPECIFICATION Spec
INVARIANTS
    AppendedStateSurvives
