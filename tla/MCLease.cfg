SPECIFICATION Spec
CONSTANTS
    Owner = {o1, o2}
    NoOwner = NoOwner
    TTL = 3
    KeeperTTL = 4
    Margin = 2
    RequestTimeout = 1
    PromptPrepare = FALSE
    MaxWait = 1
    MaxClock = 7
    MaxToken = 3
SYMMETRY Symmetry
INVARIANTS TokenNamesOneOwner QuickPostIsCovered
PROPERTIES WritesNeverGoBack NoEarlyTakeover ImplementsFencedLock
CHECK_DEADLOCK FALSE
