\* Polled mode: two engines on one thread, errors, timeouts, the closing of the device.
SPECIFICATION FairSpec
CONSTANTS
    Engines = {e1, e2}
    Reqs = {r1, r2}
    None = None
    Counts = {1, 2}
    MaxReqs = 2
    CanTimeout = TRUE
    CanFail = TRUE
INVARIANTS
    PatientlyMoved
    NoSleepOnWork
    PollsWorkList
PROPERTY DestroyEnds
CHECK_DEADLOCK FALSE
