\* Three labels that change twice each way during the fetch.
SPECIFICATION Spec
CONSTANTS
    NoBoard = NoBoard
    Labels = {l1, l2, l3}
    Boards = {b1, b2}
    MaxTries = 3
    MaxPage = 2
    MaxChanges = 2
INVARIANTS
    TypeOK
    QuietLabelsExact
    LabelShifts
    RetryBudget
PROPERTIES
    FetchEnds
CHECK_DEADLOCK FALSE
