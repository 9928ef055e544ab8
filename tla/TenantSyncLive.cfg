SPECIFICATION FairSpec
CONSTANTS
    Tenants = {t1, t2}
    Accounts = {a1, a2}
    None = None
    Nightly = nightly
    Manuals = {}
    MaxBatches = 1
    MaxRequests = 1
    MaxFaults = 1
PROPERTY
    Served
