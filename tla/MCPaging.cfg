CONSTANTS
    n1 = n1
    n2 = n2
    NoRow = NoRow
    NoFilter = NoFilter
    Row = {k1, k2, k3}
    DisplayName = {n1, n2}
    Request <- Requests
    EventTime = {0, 2, 3, 4}
    AppendTime = {4}
    Micro = 2
    DefaultPageSize = 1
    MaxPageSize = 2
    MaxUpdates = 1
    MaxTime = 1
SYMMETRY Symmetry
SPECIFICATION Spec
INVARIANTS
    PagingTypeOK
    NothingSkipped
    NothingRepeated
PROPERTIES
    FilterWithinAMicrosecond
