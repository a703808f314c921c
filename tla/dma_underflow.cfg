\* The transfers taken off the queue are completed by the engine.  (libxdma.c:848)
SPECIFICATION Spec
CONSTANTS
    Sync = {p1}
    Aio = {a1}
    None = None
    DescMax = 5
    ReqDescs = {2}
    CountMod = 8
    MaxReqs = 3
    MaxResets = 0
    CanTimeout = TRUE
    CanFail = TRUE
    FailAtFirst = FALSE
    CanVanish = FALSE
    Overcommit = FALSE
INVARIANT DoneMeansMoved
CHECK_DEADLOCK FALSE
