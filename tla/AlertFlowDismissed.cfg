SPECIFICATION Spec
CONSTANTS
    Users = {"ana"}
    Products = {"sku"}
    Thresholds <- Single
    Nightly = nightly
    Manuals = {}
    MaxQty = 0
    MaxRuns = 2
    MaxChanges = 0
    MaxFaults = 0
PROPERTY
    NoAlertWhileDismissed
