SPECIFICATION Spec
CONSTANTS
    Users = {u}
    Subs = {s1, s2}
    None = None
    MaxTime = 1
    MaxEvents = 4
    MaxRequests = 3
    MaxFlights = 2
SYMMETRY Symmetry
INVARIANTS
    TypeOK
    RowAgrees
    PayerHasPlan
CHECK_DEADLOCK FALSE
