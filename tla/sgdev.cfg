\* Two asynchronous calls of one or three elements and one device reset; calls of
\* up to 11 bytes in pages of 2, a ring of 4; two measurements next to a request.
SPECIFICATION SpecDevice
CONSTANTS
    Calls = {a, b}
    Lengths = {1, 3}
    MaxResets = 1
    PageSize = 2
    Offsets = {0, 1}
    Sizes = {1, 2, 3, 4, 5, 6, 7, 11}
    EpAddrs = {4, 5}
    Apertures = {2, 3, 4}
    DescMax = 4
    BlenMax = 3
    Block = 2
    AddrAlign = 2
    LenGranularity = 2
    Word = 64
    Requests = {r}
    Askers = {p, q}
    MaxStarts = 2
INVARIANTS
    AioHolds
    CallMoves
    MeasuredAlone
PROPERTY CallEnds
CHECK_DEADLOCK FALSE
