SPECIFICATION Spec
CONSTANTS
    NumDies = 2
    UserBlocks = 3
    TotalBlocks = 5
    Marks <- MCMarks
    Failing <- MCFailing
    Garbage <- MCGarbage
    NoTable = NoTable
INVARIANTS
    RemapSound
    TablesComplete
