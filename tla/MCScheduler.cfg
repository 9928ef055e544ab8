SPECIFICATION FairSpec
CONSTANTS
    Chains = {c1, c2, c3}
    NoTimer = NoTimer
    Day = 4
    RunAt = 1
INVARIANTS
    SingleChain
    StopSilences
    DueIffOccurred
PROPERTY
    KeepsRunning
