\* Blocking requests only, with timeouts, errors and a reset.
SPECIFICATION FairSpec
CONSTANTS
    Sync = {p1, p2}
    Aio = {}
    None = None
    DescMax = 3
    ReqDescs = {1, 3}
    CountMod = 1000
    MaxReqs = 2
    MaxResets = 1
    CanTimeout = TRUE
    CanFail = TRUE
    FailAtFirst = TRUE
    CanVanish = FALSE
    Overcommit = TRUE
INVARIANTS
    QueueIsInFlight
    DoneMeansMoved
    QuiescedOffline
PROPERTY EveryRequestEnds
CHECK_DEADLOCK FALSE
