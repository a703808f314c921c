\* Frame syncs, streaming calls and the removal of the device at any moment.
SPECIFICATION FairSpec
CONSTANTS
    Bufs = {b1}
    None = None
    MinBufs = 1
    DummyFrames = 1
    MaxSyncs = 2
    MaxSessions = 2
    SyncAtSwitch = TRUE
    Surprise = TRUE
PROPERTIES
    StopAndRemoveEnd
    EventServed
CHECK_DEADLOCK FALSE
