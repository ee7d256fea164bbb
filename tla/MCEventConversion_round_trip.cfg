CONSTANTS
    Absent = Absent
    TempKey <- MCTempKey
    Events <- MCEvents
SPECIFICATION Spec
INVARIANTS
    RoundTripsLosslessly
    ReadsNilForAbsent
    RefusedForWhatIsStored
PROPERTIES
    ReadAgainTheSame
