SPECIFICATION FairSpec
CONSTANTS
    Users = {"ana"}
    Products = {"sku"}
    Thresholds <- Single
    Nightly = nightly
    Manuals = {}
    MaxQty = 1
    MaxRuns = 2
    MaxChanges = 2
    MaxFaults = 1
PROPERTIES
    LifecycleSpec
    Delivered
CHECK_DEADLOCK FALSE
