CONSTANTS
    Emails = {e1, e2}
    Ids = {1, 2, 3}
    Slots = {1, 2}
    MaxRequests = 5
    MaxRows = 3
    Pictures = {p1, p2}
    Workers = {w1, w2}
    MaxTasks = 3
    None = None
    Nothing = Nothing
SPECIFICATION Spec
SYMMETRY Symmetry
INVARIANTS
    TypeOK
    Administered
    Renewed
    OwnRows
    SelectedHasFile
CHECK_DEADLOCK FALSE
