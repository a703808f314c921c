\* The viewer, and an application with callbacks; one board or two.
SPECIFICATION FairSpec
CONSTANTS
    Boards = {0, 1}
    Chans = {0, 1}
    MaxFrames = 2
    Masks <- MCMasks
    CallbackMasks <- MCCallbackMasks
    Plays = {"none", "single", "multi"}
INVARIANT CamerasOutlive
PROPERTIES
    ShownInOrder
    FrameShown
    LeaveEnds
CHECK_DEADLOCK FALSE
