SPECIFICATION Spec
CONSTANTS
    Days = 2
    HistoryDays = 2
    PageSize = 1
    OpeningStock = 5
    Warnings = {0, 1, 2, 3}
    MaxTime = 5
    MaxQuantity = 2
    MaxDocuments = 2
    MaxVoided = 1
    MaxSyncs = 2
CHECK_DEADLOCK FALSE
INVARIANTS
    ConsumptionTypeOK
    CompleteDaysRecorded
    AlertIsForecast
