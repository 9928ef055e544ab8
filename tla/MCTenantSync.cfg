SPECIFICATION Spec
CONSTANTS
    Tenants = {t1, t2}
    Accounts = {a1, a2}
    None = None
    Nightly = nightly
    Manuals = {manual}
    MaxBatches = 1
    MaxRequests = 2
    MaxFaults = 1
SYMMETRY Symmetry
INVARIANTS
    TypeOK
    Isolation
    LockedOutOnlyByFault
    SuccessIsOfConnected
    OneTenantPerAccount
