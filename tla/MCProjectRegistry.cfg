CONSTANTS
    c1 = c1
    c2 = c2
    Calls = {c1, c2}
    Paths = {1, 2, 3}
    Marked = {1, 2, 3}
    Above <- Nested
    FolderName <- SharedName
    Statuses = {"active", "archived"}
    Positions = {0, 1, 5}
    None = None
SYMMETRY Swaps
SPECIFICATION Spec
INVARIANTS TypeOK OrderIsDense
PROPERTIES LosesOnlyWhatItNeverSaw RestKeepsItsPlace
