CONSTANTS
    Absent = Absent
    TempKey <- MCTempKey
    Events <- EmptyObjectEvents
SPECIFICATION Spec
INVARIANTS
    RoundTripsLosslessly
