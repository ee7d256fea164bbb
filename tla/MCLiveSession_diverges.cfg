CONSTANTS
    v = v
    w = w
    NoValue = NoValue
    NoRow = NoRow
    NoExpiration = NoExpiration
    NotOpen = NotOpen
    Handle = {h1}
    Runner = {r1, r2}
    SessionID = {"s1"}
    App = {a1}
    User = {u1}
    EventID = {1, 2}
    DisplayName = {""}
    StateKey <- MCStateKey
    Value = {v, w}
    CreateState <- NoState
    GetRequest <- WholeSession
    Object = {o1, o2}
    NewEvent <- Overwrites
    SetValue = {}
    DeletedKey <- NoKeys
    RepliesLost = FALSE
    Micro = 1
    MaxTime = 1
SYMMETRY Symmetry
SPECIFICATION Spec
INVARIANTS
    UpToDate
