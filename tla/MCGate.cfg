SPECIFICATION Spec
CONSTANTS
    a = a
    Browsers = {b1}
    Address <- OneAddress
    Keys <- LimiterKeys
    MaxRequests <- Limits
    None = None
    Window = 2
    Lifetime = 2
    RefreshBelow = 2
    StateTtl = 2
    MaxTime = 3
    MaxAdmitted = 2
    MaxSessions = 2
    MaxFlows = 2
INVARIANTS
    WindowBound
    RetryAfterHonest
    SignedInPassesCsrf
    ReturningIsHonoured
PROPERTY
    ImplementsSlidingWindow
