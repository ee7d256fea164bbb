CONSTANTS
    v = v
    w = w
    NoValue = NoValue
    NoRow = NoRow
    NoExpiration = NoExpiration
    NotOpen = NotOpen
    Handle = {h1}
    Runner = {r1}
    SessionID = {"s1"}
    App = {a1}
    User = {u1}
    EventID = {1, 2, 3}
    DisplayName = {""}
    StateKey <- MCStateKey
    Value = {v, w}
    CreateState <- OneDelta
    GetRequest <- EveryRequest
    Object = {o1, o2, o3}
    NewEvent <- TwoDeltas
    SetValue = {}
    DeletedKey <- AllSessions
    RepliesLost = FALSE
    Micro = 2
    MaxTime = 2
SYMMETRY Symmetry
SPECIFICATION Spec
INVARIANTS
    UpToDate
PROPERTIES
    StoreSpec
    GetReturnsWhatWasAsked
    GetListsInOrder
