\* A card is bound and removed again and again, every step may fail, interrupts
\* come at any moment, and two channels and a process share its engines; cards of
\* up to two engines in each direction and three user interrupts go offline and
\* online, two vectors to a register; two devices of up to two engines come and
\* go, on three CPUs.
SPECIFICATION SpecCard
CONSTANTS
    MaxEngines = 2
    NChannels = 2
    MaxChannels = 2
    UserMax = 3
    PerWord = 2
    Pins = {0, 1, 3}
    MaxShares = 2
    Devices = {A, B}
    None = None
    NumThreads = 4
    Cpus = 3
    MaxIdx = 2
    MaxSwitches = 1
INVARIANTS
    LeavesNothing
    RunsOnLiveMemory
    SetupHolds
    PoolHolds
CHECK_DEADLOCK FALSE
