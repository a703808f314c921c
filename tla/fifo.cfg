\* Two buffers, the camera initialised twice; three buffers of a format set by the
\* library and by another program, an unsigned int of nine bits.
SPECIFICATION SpecCamera
CONSTANTS
    Depth = 2
    None = None
    MaxInits = 2
    MaxFrames = 4
    Known = {UYVY}
    Fifo = 3
    Word = 512
INVARIANTS
    BuffersConserved
    FormatHolds
PROPERTIES
    FramesHold
    PollStops
CHECK_DEADLOCK FALSE
