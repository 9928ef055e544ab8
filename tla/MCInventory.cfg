SPECIFICATION Spec
CONSTANTS
    a = a
    b = b
    c = c
    Items = {a, b, c}
    Officeless = {c}
    Quantities <- AllQuantities
    Storable = {0, 1}
    PageSize = 1
    BatchSize = 2
    Retries = 2
    Opening <- ListedFirst
    MaxRuns = 2
    MaxDay = 1
    MaxChanges = 2
CHECK_DEADLOCK FALSE
INVARIANTS
    TypeOK
    FreshAfterSuccess
    RefusedOnlyForCause
    NeverBackwards
