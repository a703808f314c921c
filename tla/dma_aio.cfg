\* Blocking and non-blocking requests on one engine.
SPECIFICATION FairSpec
CONSTANTS
    Sync = {p1}
    Aio = {a1, a2}
    None = None
    DescMax = 4
    ReqDescs = {1, 2}
    CountMod = 1000
    MaxReqs = 3
    MaxResets = 0
    CanTimeout = TRUE
    CanFail = TRUE
    FailAtFirst = FALSE
    CanVanish = FALSE
    Overcommit = FALSE
INVARIANTS
    RunOwnsDescriptors
    OutcomeIsTrue
    EngineAttended
PROPERTY EveryRequestEnds
CHECK_DEADLOCK FALSE
