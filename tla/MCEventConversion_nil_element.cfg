CONSTANTS
    Absent = Absent
    TempKey <- MCTempKey
    Events <- NilElementEvents
SPECIFICATION Spec
INVARIANTS
    EveryAppendAnswers
