CONSTANTS
    f1 = f1
    f2 = f2
    Files <- MCFiles
    Documents <- MCDocuments
    Sections <- MCSections
    MaxChunk = 4
    Gap = 1
    TopK = 2
    MaxEdits = 1
    MaxRuns = 3
    MaxRefused = 1
SPECIFICATION Spec
INVARIANTS Replaced QuietSearchExact NothingLost
CHECK_DEADLOCK FALSE
SYMMETRY MCSymmetry
