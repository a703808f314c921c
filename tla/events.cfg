\* Two lines, one of them beyond those xdma_isr serves; both kinds of interrupt.
SPECIFICATION FairSpec
CONSTANTS
    Lines = {0, 8}
    VideoLines = {8}
    Callers = {c1, c2}
    Modes = {TRUE, FALSE}
INVARIANTS
    NoSleepOnEvent
    QuietMeansRead
    ZeroMeansTaken
PROPERTY ReaderServed
