\* A channel whose source is quiet while streaming starts and stops.
SPECIFICATION Spec
CONSTANTS
    Bufs = {b1, b2, b3}
    None = None
    MinBufs = 2
    DummyFrames = 2
    MaxSyncs = 5
    MaxSessions = 2
    SyncAtSwitch = FALSE
    Surprise = FALSE
INVARIANTS
    FrameKept
    CountedOnce
PROPERTY RefinesFrameQueue
CHECK_DEADLOCK FALSE
