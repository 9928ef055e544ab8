SPECIFICATION FairSpec
CONSTANTS
    None = None
    Products = {p, q}
    Settings = {1, 2}
    MaxRows = 2
    MaxFlight = 2
    MaxSaves = 3
INVARIANTS
    RowsShowTheirOwn
    SavedAgainIsUpdated
PROPERTY
    BulkReachesAll
