SPECIFICATION Spec
CONSTANTS
    Users = {"ana"}
    Products = {"sku"}
    Thresholds <- Watched
    Nightly = nightly
    Manuals = {manual}
    MaxQty = 2
    MaxRuns = 2
    MaxChanges = 0
    MaxFaults = 1
INVARIANTS
    TypeOK
    DuplicatesOnlyFromOverlap
    RemailOnlyAfterLostMark
    BreachIsRecorded
CHECK_DEADLOCK FALSE
