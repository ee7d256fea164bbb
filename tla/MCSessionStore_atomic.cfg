CONSTANTS
    v = v
    w = w
    NoValue = NoValue
    NoRow = NoRow
    NoExpiration = NoExpiration
    Proc = {p1, p2}
    SessionID = {s1}
    App = {a1}
    User = {u1}
    EventID = {e1}
    DisplayName = {"n"}
    StateKey <- MCStateKey
    Value = {v, w}
    CreateInput <- StatefulInput
    UpdateInput <- MixedUpdates
    AppendDelta <- OneDelta
    SuppliedTime = {}
    MaxTime = 1
SPECIFICATION FairSpec
INVARIANTS
    TypeOK
    NoOrphanEvents
PROPERTIES
    EventsWriteOnce
    AtomicSpec
    EveryCallReturns
