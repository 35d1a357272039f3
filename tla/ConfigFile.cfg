CONSTANTS
    default = default
    second = second
    Programs = {p1, p2}
    Names <- MCNames
    DefaultName = default
    Texts <- MCTexts
    Blank = blank
    Given = 2
    MaxValue = 4
SPECIFICATION Spec
INVARIANTS TypeOK WrittenLoads SoleCommandExact
CHECK_DEADLOCK FALSE
SYMMETRY MCSymmetry
