SPECIFICATION Spec
CONSTANTS
    RecordWords = 2
    Frames = 3
    PageSizes = {5, 6}
    MaxPages = 4
    MaxRows = 5
INVARIANTS
    HeapTypeOK
    RowsFound
    PagesWellFormed
CHECK_DEADLOCK FALSE
