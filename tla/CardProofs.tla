------------------------------ MODULE CardProofs ------------------------------
(***************************************************************************)
(* What holds of a card and of its interrupts for every value of the       *)
(* constants.  Of the three views of MCCard: the taking up and giving back *)
(* of a card, whichever step fails and whenever interrupts, transfers and  *)
(* work items come (DeviceLifecycle); what is found out about a card and   *)
(* written into it, whatever the card is like (CardSetup); the list of     *)
(* devices and the threads they share, for any number of both              *)
(* (ThreadPool).  And of its user interrupts (UserInterrupts), for any     *)
(* lines and any number of callers: no caller sleeps on an event, no       *)
(* interrupt is lost between the board and a reader, and only the loser of *)
(* a race reads nothing.                                                   *)
(***************************************************************************)
EXTENDS MCCard, UserInterrupts, FiniteSetTheorems, SequenceTheorems, TLAPS

-----------------------------------------------------------------------------
\* The taking up and giving back of a card (DeviceLifecycle).

\* The type invariant, variable by variable.
Typed ==
    /\ pos \in Life!Positions /\ failedAt \in Life!Positions \cup {"none"}
    /\ ch \in 1 .. NChannels + 1
    /\ oops \in BOOLEAN /\ chanEnabled \in BOOLEAN /\ userEnabled \in BOOLEAN
    /\ vlinked \in BOOLEAN /\ drvdata \in BOOLEAN
    /\ held \subseteq Life!Resources
    /\ engines \subseteq 1 .. MaxEngines /\ monTasks \subseteq 1 .. MaxEngines
    /\ running \subseteq 1 .. MaxEngines /\ finished \subseteq 1 .. MaxEngines
    /\ work \subseteq 1 .. MaxEngines /\ serving \subseteq 1 .. MaxEngines
    /\ stray \subseteq 1 .. MaxEngines
    /\ moving \subseteq Life!Callers \X (1 .. MaxEngines)
    /\ irqs \subseteq Life!Vectors /\ handling \subseteq Life!Vectors
    /\ cdevs \subseteq {Life!Groups[i] : i \in 1 .. Len(Life!Groups)}
    /\ flags \subseteq {Life!Groups[i] : i \in 1 .. Len(Life!Groups)}
    /\ nodes \subseteq Life!Channels /\ threads \subseteq Life!Channels
    /\ handlers \subseteq Life!Channels /\ status \subseteq Life!Channels

\* Where a resource is surely absent: before it is acquired, and from the label
\* on that gives it back.  The labels mirror the steps of xdma_device_open.
NoXdev == {"unbound", "xdev", "openfailed", "free_xpdev"}
NoList == NoXdev \cup {"list", "free_xdev"}
NoEnabled == NoList \cup {"enabled", "err_enable"}
NoRegions == NoEnabled \cup {"regions", "err_regions"}
NoBars == NoRegions \cup {"bars", "err_map"}
NoEngines == NoBars \cup {"mask", "engines", "err_mask"}
NoVectors == NoEngines \cup {"vectors", "err_engines"}
NoIrqs == NoVectors \cup {"irqs", "err_msix"}

\* The labels; what comes before the first character device, and the removal as
\* far as a probe that failed can get.
Labels == {"err_msix", "err_engines", "err_mask", "err_map", "err_regions", "err_enable",
           "free_xdev"}
Before == {"unbound", "xdev", "list", "enabled", "regions", "bars", "mask", "engines",
           "vectors", "irqs", "online", "users"}
Unwinding == {"destroy", "attrremove", "monfree"}

\* The open is over; it has succeeded unless the removal has only got to "monfree".
Late == {"users", "cdev", "vmem", "monitors", "v4l2", "channel", "attrs", "drvdata",
         "bound", "vfree", "vput", "close", "teardown"} \cup Unwinding

OpenFailed == failedAt \in Life!OpenFailures

\* The channels are set up, or being set up or taken down.
VideoUp == \/ pos \in {"channel", "attrs", "drvdata", "bound", "vfree", "vput"}
           \/ pos \in Unwinding /\ failedAt \in {"none", "monitors"}

\* What is held at most, ...
HeldWithin ==
    /\ "xpdev" \in held => pos # "unbound"
    /\ "xdev" \in held => pos \notin NoXdev
    /\ "list" \in held => pos \notin NoList
    /\ "enabled" \in held => pos \notin NoEnabled \/ failedAt = "regions"
    /\ "regions" \in held => pos \notin NoRegions
    /\ "bars" \in held => pos \notin NoBars
    /\ "vectors" \in held => pos \notin NoVectors
    /\ engines # {} => pos \notin NoEngines
    /\ irqs # {} => pos \notin NoIrqs \/ failedAt = "irqs"
    /\ "major" \in held => \/ pos \in {"cdev", "vmem", "monitors", "v4l2", "channel",
                                       "attrs", "drvdata", "bound", "destroy"}
                           \/ pos = "vfree" /\ failedAt = "channel"
    /\ "channels" \in held => VideoUp \/ pos \in {"monitors", "v4l2"}
    /\ "v4l2" \in held => VideoUp
    /\ "monitors" \in held => \/ pos = "v4l2"
                              \/ VideoUp /\ pos \notin {"vfree", "vput"}
                              \/ pos = "vfree" /\ failedAt = "channel"

\* ... and at least.
HeldAtLeast ==
    /\ pos \notin NoXdev /\ ~OpenFailed => "xdev" \in held
    /\ pos \notin NoBars /\ ~OpenFailed => "bars" \in held
    /\ VideoUp \/ pos \in {"monitors", "v4l2"} => "channels" \in held /\ vlinked
    /\ monTasks # {} => "monitors" \in held
    /\ failedAt = "none" /\ (VideoUp \/ pos = "v4l2") /\ pos \notin {"vfree", "vput"} =>
           Life!MonitorsThere

\* A failure leads to one of few places, ...
FailedWhere ==
    \/ failedAt = "none" /\ pos # "openfailed"
    \/ OpenFailed /\ pos \in Labels \cup Unwinding \cup {"openfailed"}
    \/ failedAt \in {"cdev", "vmem", "v4l2"} /\ pos \in Unwinding
    \/ /\ failedAt = "monitors" /\ pos \notin {"vfree", "vput"}
       /\ VideoUp \/ pos \in {"monitors", "v4l2"}
       /\ IF pos = "monitors" THEN oops ELSE monTasks # engines
    \/ failedAt = "channel" /\ pos = "vfree"

\* ... and only the ones of the video part leave channels, nodes and threads.
ChannelsUp ==
    /\ threads # {} \/ nodes # {} => VideoUp
    /\ handlers # {} => VideoUp \/ pos \in Labels \cup {"close", "teardown"}
    /\ status # {} => VideoUp /\ pos \in {"drvdata", "bound", "destroy", "attrremove"}
    /\ pos = "channel" =>
           ch \in Life!Channels /\ threads = 1 .. ch - 1 /\ nodes = threads
    /\ VideoUp /\ pos \notin {"channel", "vfree", "vput"} =>
           threads = Life!Channels /\ nodes = threads
    /\ pos = "vfree" =>
           /\ ch \in Life!Channels
           /\ IF failedAt = "channel" THEN \E c \in ch .. NChannels : c \notin threads
              ELSE threads = ch .. NChannels /\ nodes = threads
    /\ pos = "vput" => threads = {} /\ nodes = {}

\* The devices that exist are those the flags name, until they are destroyed.
DevicesFlagged ==
    /\ pos \in Before \/ OpenFailed => cdevs = {} /\ flags = {}
    /\ failedAt # "cdev" /\ pos \in {"cdev", "vmem", "monitors", "v4l2", "channel", "attrs",
                                     "drvdata", "bound", "destroy"} => cdevs = flags
    /\ failedAt = "none" /\ pos \in Labels \cup {"attrremove", "monfree", "vfree", "vput",
                                     "close", "teardown", "free_xpdev"} => cdevs = {}
    /\ pos = "unbound" => ~drvdata

\* Handlers run of vectors that are there, on a device that was opened.
HandlersLive ==
    /\ handling \subseteq irqs
    /\ handling # {} => pos \in Late /\ ~OpenFailed
    /\ chanEnabled \/ userEnabled => pos \in Late \ {"teardown"} /\ ~OpenFailed
    /\ ~OpenFailed => irqs \subseteq Life!EngineVectors \cup Life!UserVectors
    /\ \A i \in irqs : i[1] = "user" => ~OpenFailed

\* An engine that runs has a caller.  One that has ended, or whose work item runs or
\* is queued, has one too, unless its caller gave up.
Busy(e) == \E c \in Life!Callers : <<c, e>> \in moving
EnginesBusy ==
    /\ running \cup finished \subseteq engines
    /\ \A e \in running : Busy(e)
    /\ \A e \in finished \cup serving : Busy(e) \/ e \in stray
    /\ \A e \in finished \cap serving : Busy(e)
    /\ \A e \in work : e \in finished \/ e \in stray \ engines
    /\ work \cap serving = {}
    /\ \A i \in handling : i[1] = "engine" => i[2] \in finished \ (work \cup serving)
    /\ \A x \in moving : x[1] = Life!File \/ x[1] \in threads
    /\ work # {} => pos \in Late \cup Labels

Acquired ==
    HeldWithin /\ HeldAtLeast /\ FailedWhere /\ ChannelsUp /\ DevicesFlagged

LifeInv == Typed /\ Acquired /\ HandlersLive /\ EnginesBusy /\ Life!CrashNeedsFailure

LEMMA TypeParts == Life!TypeOK <=> Typed
BY DEF Life!TypeOK, Typed
LEMMA TypePartsNext == Life!TypeOK' <=> Typed'
BY DEF Life!TypeOK, Typed

\* The operator of the module FiniteSets is the one the modules of a card see.
LEMMA CardinalityHere == \A S : Life!Cardinality(S) = Cardinality(S)
BY DEF Life!Cardinality, Cardinality

\* The group that is next is one of the groups.
LEMMA NextGroup ==
  ASSUME cdevs \subseteq {Life!Groups[i] : i \in 1 .. Len(Life!Groups)},
         Len(Life!Groups) > Cardinality(cdevs)
  PROVE  Life!Groups[Cardinality(cdevs) + 1] \in {Life!Groups[i] : i \in 1 .. Len(Life!Groups)}
<1>1. Len(Life!Groups) = 5
  BY DEF Life!Groups
<1> DEFINE G == {Life!Groups[i] : i \in 1 .. 5}
<1>2. IsFiniteSet(G)
  <2>1. G = ((({Life!Groups[1]} \cup {Life!Groups[2]}) \cup {Life!Groups[3]})
             \cup {Life!Groups[4]}) \cup {Life!Groups[5]}
    OBVIOUS
  <2>2. IsFiniteSet({Life!Groups[1]})
    BY FS_Singleton
  <2> HIDE DEF G
  <2>3. QED BY <2>1, <2>2, FS_AddElement
<1>3. cdevs \subseteq G
  BY <1>1
<1> HIDE DEF G
<1>4. Cardinality(cdevs) \in Nat
  BY <1>2, <1>3, FS_Subset, FS_CardinalityType
<1>5. Cardinality(cdevs) + 1 \in 1 .. Len(Life!Groups)
  BY <1>1, <1>4
<1>6. QED BY <1>5
-----------------------------------------------------------------------------

\* The variables keep their types: the handle's names, engines and vectors there are.
LEMMA TypeStep ==
  ASSUME Typed, ChannelsUp, Life!LifecycleAssumption, Life!Next
  PROVE  Typed'
<1> USE DEF Typed, Life!At, Life!NoFailure, Life!Failure, Life!Crash, Life!posVars,
            Life!irqVars, Life!enableVars, Life!dmaVars, Life!cdevVars, Life!videoVars,
            Life!statusVars, Life!Channels, Life!LifecycleAssumption, Life!Resources,
            Life!Vectors, Life!Callers, Life!File
<1>1. CASE Life!ProbeAlloc
  BY <1>1 DEF Life!ProbeAlloc, Life!Positions, Life!Opening, Life!Undo
<1>2. CASE Life!OpenStep
  <2>1. pos' \in Life!Positions
    BY <1>2 DEF Life!OpenStep, Life!Opening, Life!Undo, Life!Positions
  <2>2. held' \subseteq held \cup {"xdev", "list", "enabled", "regions", "bars"}
    BY <1>2 DEF Life!OpenStep, Life!Opening
  <2>3. QED BY <2>1, <2>2, <1>2 DEF Life!OpenStep
<1>3. CASE Life!OpenStepFails
  <2>1. pos' \in Life!Positions
    BY <1>3 DEF Life!OpenStepFails, Life!Goto, Life!Opening, Life!Undo, Life!Positions
  <2>2. QED BY <2>1, <1>3 DEF Life!OpenStepFails
<1>4. CASE Life!ProbeEngines
  <2>1. PICK n \in 0 .. MaxEngines : engines' = 1 .. n
    BY <1>4 DEF Life!ProbeEngines
  <2>2. engines' \subseteq 1 .. MaxEngines
    BY <2>1
  <2>3. QED BY <2>2, <1>4 DEF Life!ProbeEngines, Life!Positions
<1>5. CASE Life!EnableMsix
  BY <1>5 DEF Life!EnableMsix, Life!Positions
<1>6. CASE Life!EnableMsixFails
  BY <1>6 DEF Life!EnableMsixFails, Life!Positions, Life!Undo
<1>7. CASE Life!IrqSetup
  <2>1. irqs' \subseteq Life!Vectors
    BY <1>7 DEF Life!IrqSetup, Life!EngineVectors, Life!UserVectors, Life!Vectors
  <2>2. QED BY <2>1, <1>7 DEF Life!IrqSetup, Life!Positions
<1>8. CASE Life!IrqSetupFails
  <2>1. Cardinality(engines) \in 0 .. MaxEngines
    <3>1. IsFiniteSet(1 .. MaxEngines) /\ Cardinality(1 .. MaxEngines) = MaxEngines
      BY FS_Interval
    <3>2. Cardinality(engines) \in Nat /\ Cardinality(engines) <= Cardinality(1 .. MaxEngines)
      BY <3>1, FS_Subset, FS_CardinalityType
    <3>3. QED BY <3>1, <3>2
  <2>2. PICK n \in 0 .. Cardinality(engines) : irqs' = {<<"engine", e>> : e \in 1 .. n}
    BY <1>8, CardinalityHere DEF Life!IrqSetupFails
  <2>3. irqs' \subseteq Life!Vectors
    BY <2>1, <2>2 DEF Life!Vectors
  <2>4. QED BY <2>3, <1>8 DEF Life!IrqSetupFails, Life!Positions, Life!Undo
<1>9. CASE Life!Online
  BY <1>9 DEF Life!Online, Life!Positions
<1>10. CASE Life!UndoStep
  <2>1. pos' \in Life!Positions
    BY <1>10 DEF Life!UndoStep, Life!Opening, Life!Undo, Life!Positions
  <2>2. held' \subseteq held
    BY <1>10 DEF Life!UndoStep
  <2>3. QED BY <2>1, <2>2, <1>10 DEF Life!UndoStep
<1>11. CASE Life!RemoveEngines
  BY <1>11 DEF Life!RemoveEngines, Life!Positions, Life!Opening, Life!Undo
<1>12. CASE Life!RemoveEnginesCrash
  BY <1>12 DEF Life!RemoveEnginesCrash
<1>13. CASE Life!FreeXdev
  BY <1>13 DEF Life!FreeXdev, Life!Positions
<1>14. CASE Life!FreeXdevCrash
  BY <1>14 DEF Life!FreeXdevCrash
<1>15. CASE Life!OpenFailed
  BY <1>15 DEF Life!OpenFailed, Life!Positions
<1>16. CASE Life!UserEnable
  BY <1>16 DEF Life!UserEnable, Life!Positions
<1>17. CASE Life!CreateGroup
  <2> DEFINE g == Life!Groups[Cardinality(cdevs) + 1]
  <2>1. g \in {Life!Groups[i] : i \in 1 .. Len(Life!Groups)}
    <3>1. Len(Life!Groups) > Cardinality(cdevs)
      BY <1>17, CardinalityHere DEF Life!CreateGroup
    <3>2. QED BY <3>1, NextGroup
  <2>2. cdevs' = cdevs \cup {g} /\ flags' = flags \cup {g}
    BY <1>17, CardinalityHere DEF Life!CreateGroup
  <2>3. pos' \in Life!Positions /\ held' \subseteq held \cup {"major"}
    BY <1>17 DEF Life!CreateGroup, Life!Positions
  <2> HIDE DEF g
  <2>4. QED BY <2>1, <2>2, <2>3, <1>17 DEF Life!CreateGroup
<1>18. CASE Life!CreateGroupFails
  <2> DEFINE g == Life!Groups[Cardinality(cdevs) + 1]
  <2>1. g \in {Life!Groups[i] : i \in 1 .. Len(Life!Groups)}
    <3>1. Len(Life!Groups) > Cardinality(cdevs)
      BY <1>18, CardinalityHere DEF Life!CreateGroupFails
    <3>2. QED BY <3>1, NextGroup
  <2>2. cdevs' \subseteq cdevs \cup {g}
    BY <1>18, CardinalityHere DEF Life!CreateGroupFails
  <2> HIDE DEF g
  <2>3. QED BY <2>1, <2>2, <1>18 DEF Life!CreateGroupFails, Life!Positions
<1>19. CASE Life!VideoMemory
  BY <1>19 DEF Life!VideoMemory, Life!Positions
<1>20. CASE Life!VideoMemoryFails
  BY <1>20 DEF Life!VideoMemoryFails, Life!Positions
<1>21. CASE Life!MonitorInit
  BY <1>21 DEF Life!MonitorInit, Life!Positions
<1>22. CASE Life!MonitorInitCrash
  BY <1>22 DEF Life!MonitorInitCrash, Life!Positions
<1>23. CASE Life!V4l2Register
  BY <1>23 DEF Life!V4l2Register, Life!Positions
<1>24. CASE Life!V4l2RegisterFails
  BY <1>24 DEF Life!V4l2RegisterFails, Life!Positions
<1>25. CASE Life!ChannelUp
  BY <1>25 DEF Life!ChannelUp, ChannelsUp, Life!Positions
<1>26. CASE Life!ChannelFails
  BY <1>26 DEF Life!ChannelFails, ChannelsUp, Life!Positions
<1>27. CASE Life!AttrCreate
  BY <1>27 DEF Life!AttrCreate, Life!Positions
<1>28. CASE Life!SetDrvdata
  BY <1>28 DEF Life!SetDrvdata, Life!Positions
<1>29. CASE Life!Destroy
  BY <1>29 DEF Life!Destroy, Life!Positions
<1>30. CASE Life!AttrRemove
  BY <1>30 DEF Life!AttrRemove, Life!Positions
<1>31. CASE Life!MonitorFree
  BY <1>31 DEF Life!MonitorFree, Life!Positions
<1>32. CASE Life!MonitorFreeCrash
  BY <1>32 DEF Life!MonitorFreeCrash
<1>33. CASE Life!ChannelFree
  BY <1>33 DEF Life!ChannelFree, ChannelsUp, Life!Positions
<1>34. CASE Life!ChannelFreeCrash
  BY <1>34 DEF Life!ChannelFreeCrash
<1>35. CASE Life!VideoPut
  BY <1>35 DEF Life!VideoPut, Life!Positions
<1>36. CASE Life!Close
  BY <1>36 DEF Life!Close, Life!Positions
<1>37. CASE Life!FreeIrq
  BY <1>37 DEF Life!FreeIrq
<1>38. CASE Life!TornDown
  BY <1>38 DEF Life!TornDown, Life!Positions, Life!Undo
<1>39. CASE Life!FreeXpdev
  BY <1>39 DEF Life!FreeXpdev, Life!Positions
<1>40. CASE Life!Remove
  BY <1>40 DEF Life!Remove, Life!Positions
<1>41. CASE Life!ReadStatusCrash
  BY <1>41 DEF Life!ReadStatusCrash
<1>42. CASE \E i \in irqs \cup handling : Life!Interrupt(i)
  BY <1>42 DEF Life!Interrupt
<1>43. CASE \E i \in irqs \cup handling : Life!InterruptEnd(i)
  BY <1>43 DEF Life!InterruptEnd, Life!Vectors
<1>44. CASE \E e \in 1 .. MaxEngines : Life!EngineEnds(e)
  BY <1>44 DEF Life!EngineEnds
<1>45. CASE \E e \in 1 .. MaxEngines : Life!WorkBegin(e)
  BY <1>45 DEF Life!WorkBegin
<1>46. CASE \E e \in 1 .. MaxEngines : Life!WorkEnd(e)
  BY <1>46 DEF Life!WorkEnd
<1>47. CASE \E e \in 1 .. MaxEngines, c \in Life!Callers : Life!Transfer(c, e)
  BY <1>47 DEF Life!Transfer
<1>48. CASE \E e \in 1 .. MaxEngines, c \in Life!Callers : Life!TransferEnd(c, e)
  BY <1>48 DEF Life!TransferEnd
<1>49. CASE \E e \in 1 .. MaxEngines, c \in Life!Callers : Life!Timeout(c, e)
  BY <1>49 DEF Life!Timeout
<1>50. QED BY <1>1, <1>2, <1>3, <1>4, <1>5, <1>6, <1>7, <1>8, <1>9, <1>10, <1>11, <1>12, <1>13,
      <1>14, <1>15, <1>16, <1>17, <1>18, <1>19, <1>20, <1>21, <1>22, <1>23, <1>24, <1>25, <1>26,
      <1>27, <1>28, <1>29, <1>30, <1>31, <1>32, <1>33, <1>34, <1>35, <1>36, <1>37, <1>38, <1>39,
      <1>40, <1>41, <1>42, <1>43, <1>44, <1>45, <1>46, <1>47, <1>48, <1>49
      DEF Life!Next, Life!Open, Life!Interfaces, Life!VideoAdd, Life!Free

\* Every step acquires, gives back and fails as the position says.
LEMMA AcquiredStep ==
  ASSUME LifeInv, Life!LifecycleAssumption, Life!Next
  PROVE  Acquired'
<1> USE DEF LifeInv, Typed, Life!At, Life!NoFailure, Life!Failure, Life!Crash, Life!posVars,
            Life!irqVars, Life!enableVars, Life!dmaVars, Life!cdevVars, Life!videoVars,
            Life!statusVars, Acquired, HeldWithin, HeldAtLeast, FailedWhere, ChannelsUp,
            DevicesFlagged, NoXdev, NoList, NoEnabled, NoRegions, NoBars, NoEngines, NoVectors,
            NoIrqs, Labels, Before, Unwinding, Late, OpenFailed, VideoUp, Life!OpenFailures,
            Life!Channels, Life!MonitorsThere, Life!Goto, Life!Opening, Life!Undo,
            Life!LifecycleAssumption
<1>1. CASE Life!ProbeAlloc
  BY <1>1 DEF Life!ProbeAlloc
<1>2. CASE Life!OpenStep
  BY <1>2 DEF Life!OpenStep
<1>3. CASE Life!OpenStepFails
  BY <1>3 DEF Life!OpenStepFails
<1>4. CASE Life!ProbeEngines
  BY <1>4 DEF Life!ProbeEngines
<1>5. CASE Life!EnableMsix
  BY <1>5 DEF Life!EnableMsix
<1>6. CASE Life!EnableMsixFails
  BY <1>6 DEF Life!EnableMsixFails
<1>7. CASE Life!IrqSetup
  BY <1>7 DEF Life!IrqSetup
<1>8. CASE Life!IrqSetupFails
  BY <1>8 DEF Life!IrqSetupFails
<1>9. CASE Life!Online
  BY <1>9 DEF Life!Online
<1>10. CASE Life!UndoStep
  BY <1>10 DEF Life!UndoStep
<1>11. CASE Life!RemoveEngines
  BY <1>11 DEF Life!RemoveEngines
<1>12. CASE Life!RemoveEnginesCrash
  BY <1>12 DEF Life!RemoveEnginesCrash
<1>13. CASE Life!FreeXdev
  BY <1>13 DEF Life!FreeXdev
<1>14. CASE Life!FreeXdevCrash
  BY <1>14 DEF Life!FreeXdevCrash
<1>15. CASE Life!OpenFailed
  BY <1>15 DEF Life!OpenFailed
<1>16. CASE Life!UserEnable
  BY <1>16 DEF Life!UserEnable
<1>17. CASE Life!CreateGroup
  BY <1>17 DEF Life!CreateGroup
<1>18. CASE Life!CreateGroupFails
  BY <1>18 DEF Life!CreateGroupFails
<1>19. CASE Life!VideoMemory
  BY <1>19 DEF Life!VideoMemory
<1>20. CASE Life!VideoMemoryFails
  BY <1>20 DEF Life!VideoMemoryFails
<1>21. CASE Life!MonitorInit
  BY <1>21 DEF Life!MonitorInit
<1>22. CASE Life!MonitorInitCrash
  BY <1>22 DEF Life!MonitorInitCrash
<1>23. CASE Life!V4l2Register
  <2>1. 1 .. ch' - 1 = {}
    BY <1>23 DEF Life!V4l2Register
  <2>2. ChannelsUp'
    <3>1. threads' = {} /\ nodes' = {} /\ ch' \in Life!Channels
      BY <1>23 DEF Life!V4l2Register
    <3>2. pos' = "channel" /\ UNCHANGED <<handlers, status>> /\ handlers = {} /\ status = {}
      BY <1>23 DEF Life!V4l2Register
    <3>3. QED BY <2>1, <3>1, <3>2
  <2>3. HeldWithin' /\ HeldAtLeast'
    BY <1>23 DEF Life!V4l2Register
  <2>4. FailedWhere' /\ DevicesFlagged'
    BY <1>23 DEF Life!V4l2Register
  <2>5. QED BY <2>2, <2>3, <2>4
<1>24. CASE Life!V4l2RegisterFails
  BY <1>24 DEF Life!V4l2RegisterFails
<1>25. CASE Life!ChannelUp
  BY <1>25 DEF Life!ChannelUp
<1>26. CASE Life!ChannelFails
  BY <1>26 DEF Life!ChannelFails
<1>27. CASE Life!AttrCreate
  BY <1>27 DEF Life!AttrCreate
<1>28. CASE Life!SetDrvdata
  BY <1>28 DEF Life!SetDrvdata
<1>29. CASE Life!Destroy
  BY <1>29 DEF Life!Destroy
<1>30. CASE Life!AttrRemove
  BY <1>30 DEF Life!AttrRemove
<1>31. CASE Life!MonitorFree
  BY <1>31 DEF Life!MonitorFree
<1>32. CASE Life!MonitorFreeCrash
  BY <1>32 DEF Life!MonitorFreeCrash
<1>33. CASE Life!ChannelFree
  BY <1>33 DEF Life!ChannelFree
<1>34. CASE Life!ChannelFreeCrash
  BY <1>34 DEF Life!ChannelFreeCrash
<1>35. CASE Life!VideoPut
  BY <1>35 DEF Life!VideoPut
<1>36. CASE Life!Close
  BY <1>36 DEF Life!Close
<1>37. CASE Life!FreeIrq
  BY <1>37 DEF Life!FreeIrq
<1>38. CASE Life!TornDown
  BY <1>38 DEF Life!TornDown
<1>39. CASE Life!FreeXpdev
  BY <1>39 DEF Life!FreeXpdev
<1>40. CASE Life!Remove
  BY <1>40 DEF Life!Remove
<1>41. CASE Life!ReadStatusCrash
  BY <1>41 DEF Life!ReadStatusCrash
<1>42. CASE \E i \in irqs \cup handling : Life!Interrupt(i)
  BY <1>42 DEF Life!Interrupt
<1>43. CASE \E i \in irqs \cup handling : Life!InterruptEnd(i)
  BY <1>43 DEF Life!InterruptEnd
<1>44. CASE \E e \in 1 .. MaxEngines : Life!EngineEnds(e)
  BY <1>44 DEF Life!EngineEnds
<1>45. CASE \E e \in 1 .. MaxEngines : Life!WorkBegin(e)
  BY <1>45 DEF Life!WorkBegin
<1>46. CASE \E e \in 1 .. MaxEngines : Life!WorkEnd(e)
  BY <1>46 DEF Life!WorkEnd
<1>47. CASE \E e \in 1 .. MaxEngines, c \in Life!Callers : Life!Transfer(c, e)
  BY <1>47 DEF Life!Transfer
<1>48. CASE \E e \in 1 .. MaxEngines, c \in Life!Callers : Life!TransferEnd(c, e)
  BY <1>48 DEF Life!TransferEnd
<1>49. CASE \E e \in 1 .. MaxEngines, c \in Life!Callers : Life!Timeout(c, e)
  BY <1>49 DEF Life!Timeout
<1>50. QED BY <1>1, <1>2, <1>3, <1>4, <1>5, <1>6, <1>7, <1>8, <1>9, <1>10, <1>11, <1>12, <1>13,
      <1>14, <1>15, <1>16, <1>17, <1>18, <1>19, <1>20, <1>21, <1>22, <1>23, <1>24, <1>25, <1>26,
      <1>27, <1>28, <1>29, <1>30, <1>31, <1>32, <1>33, <1>34, <1>35, <1>36, <1>37, <1>38, <1>39,
      <1>40, <1>41, <1>42, <1>43, <1>44, <1>45, <1>46, <1>47, <1>48, <1>49
      DEF Life!Next, Life!Open, Life!Interfaces, Life!VideoAdd, Life!Free

\* An interrupt is enabled, requested and served only on a device that was opened.
LEMMA HandlersStep ==
  ASSUME LifeInv, Life!LifecycleAssumption, Life!Next
  PROVE  HandlersLive'
<1> USE DEF LifeInv, Life!At, Life!NoFailure, Life!Failure, Life!Crash, Life!posVars,
            Life!irqVars, Life!enableVars, Life!dmaVars, Life!cdevVars, Life!videoVars,
            Life!statusVars, Acquired, HeldWithin, HeldAtLeast, FailedWhere, ChannelsUp, NoXdev,
            NoList, NoEnabled, NoRegions, NoBars, NoEngines, NoVectors, NoIrqs, Labels, Before,
            Unwinding, Late, OpenFailed, VideoUp, Life!OpenFailures, Life!Channels,
            Life!MonitorsThere, Life!Goto, Life!Opening, Life!Undo, HandlersLive,
            Life!EngineVectors, Life!UserVectors
<1>1. CASE Life!ProbeAlloc
  BY <1>1 DEF Life!ProbeAlloc
<1>2. CASE Life!Open
  BY <1>2 DEF Life!Open, Life!OpenStep, Life!OpenStepFails, Life!ProbeEngines, Life!EnableMsix,
      Life!EnableMsixFails, Life!IrqSetup, Life!IrqSetupFails, Life!Online, Life!UndoStep,
      Life!RemoveEngines, Life!RemoveEnginesCrash, Life!FreeXdev, Life!FreeXdevCrash,
      Life!OpenFailed
<1>3. CASE Life!Interfaces
  BY <1>3 DEF Life!Interfaces, Life!UserEnable, Life!CreateGroup, Life!CreateGroupFails
<1>4. CASE Life!VideoAdd
  BY <1>4 DEF Life!VideoAdd, Life!VideoMemory, Life!VideoMemoryFails, Life!MonitorInit,
      Life!MonitorInitCrash, Life!V4l2Register, Life!V4l2RegisterFails, Life!ChannelUp,
      Life!ChannelFails, Life!AttrCreate, Life!SetDrvdata
<1>5. CASE Life!Free
  BY <1>5 DEF Life!Free, Life!Destroy, Life!AttrRemove, Life!MonitorFree, Life!MonitorFreeCrash,
      Life!ChannelFree, Life!ChannelFreeCrash, Life!VideoPut, Life!Close, Life!FreeIrq,
      Life!TornDown, Life!FreeXpdev
<1>6. CASE Life!Remove
  BY <1>6 DEF Life!Remove
<1>7. CASE Life!ReadStatusCrash
  BY <1>7 DEF Life!ReadStatusCrash
<1>8. CASE \E i \in irqs \cup handling : Life!Interrupt(i)
  BY <1>8 DEF Life!Interrupt
<1>9. CASE \E i \in irqs \cup handling : Life!InterruptEnd(i)
  BY <1>9 DEF Life!InterruptEnd
<1>10. CASE \E e \in 1 .. MaxEngines : Life!EngineEnds(e)
  BY <1>10 DEF Life!EngineEnds
<1>11. CASE \E e \in 1 .. MaxEngines : Life!WorkBegin(e)
  BY <1>11 DEF Life!WorkBegin
<1>12. CASE \E e \in 1 .. MaxEngines : Life!WorkEnd(e)
  BY <1>12 DEF Life!WorkEnd
<1>13. CASE \E e \in 1 .. MaxEngines, c \in Life!Callers : Life!Transfer(c, e)
  BY <1>13 DEF Life!Transfer
<1>14. CASE \E e \in 1 .. MaxEngines, c \in Life!Callers : Life!TransferEnd(c, e)
  BY <1>14 DEF Life!TransferEnd
<1>15. CASE \E e \in 1 .. MaxEngines, c \in Life!Callers : Life!Timeout(c, e)
  BY <1>15 DEF Life!Timeout
<1>16. QED BY <1>1, <1>2, <1>3, <1>4, <1>5, <1>6, <1>7, <1>8, <1>9, <1>10, <1>11, <1>12, <1>13,
      <1>14, <1>15
      DEF Life!Next

\* What an engine, its interrupt and its work item are doing stays accounted for.
LEMMA EnginesStep ==
  ASSUME LifeInv, Life!LifecycleAssumption, Life!Next
  PROVE  EnginesBusy'
<1> USE DEF LifeInv, Life!At, Life!NoFailure, Life!Failure, Life!Crash, Life!posVars,
            Life!irqVars, Life!enableVars, Life!dmaVars, Life!cdevVars, Life!videoVars,
            Life!statusVars, Acquired, HeldWithin, HeldAtLeast, FailedWhere, ChannelsUp, NoXdev,
            NoList, NoEnabled, NoRegions, NoBars, NoEngines, NoVectors, NoIrqs, Labels, Before,
            Unwinding, Late, OpenFailed, VideoUp, Life!OpenFailures, Life!Channels,
            Life!MonitorsThere, Life!Goto, Life!Opening, Life!Undo, HandlersLive, EnginesBusy,
            Busy, Life!Callers, Life!File, Life!Masked
<1>1. CASE Life!ProbeAlloc
  BY <1>1 DEF Life!ProbeAlloc
<1>2. CASE Life!Open
  <2>1. CASE Life!OpenStep
    BY <2>1 DEF Life!OpenStep
  <2>2. CASE Life!OpenStepFails
    BY <2>2 DEF Life!OpenStepFails
  <2>3. CASE Life!ProbeEngines
    BY <2>3 DEF Life!ProbeEngines
  <2>4. CASE Life!EnableMsix
    BY <2>4 DEF Life!EnableMsix
  <2>5. CASE Life!EnableMsixFails
    BY <2>5 DEF Life!EnableMsixFails
  <2>6. CASE Life!IrqSetup
    BY <2>6 DEF Life!IrqSetup
  <2>7. CASE Life!IrqSetupFails
    BY <2>7 DEF Life!IrqSetupFails
  <2>8. CASE Life!Online
    BY <2>8 DEF Life!Online
  <2>9. CASE Life!UndoStep
    BY <2>9 DEF Life!UndoStep
  <2>10. CASE Life!RemoveEngines
    BY <2>10 DEF Life!RemoveEngines
  <2>11. CASE Life!RemoveEnginesCrash
    BY <2>11 DEF Life!RemoveEnginesCrash
  <2>12. CASE Life!FreeXdev
    BY <2>12 DEF Life!FreeXdev
  <2>13. CASE Life!FreeXdevCrash
    BY <2>13 DEF Life!FreeXdevCrash
  <2>14. CASE Life!OpenFailed
    BY <2>14 DEF Life!OpenFailed
  <2>15. QED BY <2>1, <2>2, <2>3, <2>4, <2>5, <2>6, <2>7, <2>8, <2>9, <2>10, <2>11, <2>12,
      <2>13, <2>14, <1>2 DEF Life!Open
<1>3. CASE Life!Interfaces
  BY <1>3 DEF Life!Interfaces, Life!UserEnable, Life!CreateGroup, Life!CreateGroupFails
<1>4. CASE Life!VideoAdd
  BY <1>4 DEF Life!VideoAdd, Life!VideoMemory, Life!VideoMemoryFails, Life!MonitorInit,
      Life!MonitorInitCrash, Life!V4l2Register, Life!V4l2RegisterFails, Life!ChannelUp,
      Life!ChannelFails, Life!AttrCreate, Life!SetDrvdata
<1>5. CASE Life!Free
  BY <1>5 DEF Life!Free, Life!Destroy, Life!AttrRemove, Life!MonitorFree, Life!MonitorFreeCrash,
      Life!ChannelFree, Life!ChannelFreeCrash, Life!VideoPut, Life!Close, Life!FreeIrq,
      Life!TornDown, Life!FreeXpdev
<1>6. CASE Life!Remove
  BY <1>6 DEF Life!Remove
<1>7. CASE Life!ReadStatusCrash
  BY <1>7 DEF Life!ReadStatusCrash
<1>8. CASE \E i \in irqs \cup handling : Life!Interrupt(i)
  BY <1>8 DEF Life!Interrupt
<1>9. CASE \E i \in irqs \cup handling : Life!InterruptEnd(i)
  <2> USE DEF Typed, Life!Vectors
  <2>1. PICK i \in irqs \cup handling : Life!InterruptEnd(i)
    BY <1>9
  <2>2. CASE i[1] = "user"
    BY <2>1, <2>2 DEF Life!InterruptEnd
  <2>3. CASE i[1] = "engine"
    <3>1. i[2] \in finished \ (work \cup serving) /\ work' = work \cup {i[2]}
      BY <2>1, <2>3 DEF Life!InterruptEnd
    <3>2. \A h \in handling' : h[1] = "engine" => h[2] # i[2]
      BY <2>1, <2>3 DEF Life!InterruptEnd
    <3>3. handling' \subseteq handling /\ UNCHANGED <<pos, failedAt, engines, irqs, threads>>
      BY <2>1 DEF Life!InterruptEnd
    <3>4. UNCHANGED <<moving, running, finished, serving, stray>> /\ pos \in Late
      BY <2>1, <2>3 DEF Life!InterruptEnd
    <3>5. \A h \in handling' : h[1] = "engine" => h[2] \in finished' \ (work' \cup serving')
      BY <3>1, <3>2, <3>3, <3>4
    <3>6. \A x \in moving' : x[1] = Life!File \/ x[1] \in threads'
      BY <3>3, <3>4
    <3>7. work' \cap serving' = {}
      <4>1. work \cap serving = {}
        OBVIOUS
      <4> HIDE DEF LifeInv
      <4>2. QED BY <4>1, <3>1, <3>4
    <3>8. \A e \in work' : e \in finished' \/ e \in stray' \ engines'
      BY <3>1, <3>3, <3>4
    <3>9. QED BY <3>3, <3>4, <3>5, <3>6, <3>7, <3>8
  <2>4. QED BY <2>1, <2>2, <2>3 DEF Life!InterruptEnd
<1>10. CASE \E e \in 1 .. MaxEngines : Life!EngineEnds(e)
  BY <1>10 DEF Life!EngineEnds
<1>11. CASE \E e \in 1 .. MaxEngines : Life!WorkBegin(e)
  BY <1>11 DEF Life!WorkBegin
<1>12. CASE \E e \in 1 .. MaxEngines : Life!WorkEnd(e)
  BY <1>12 DEF Life!WorkEnd
<1>13. CASE \E e \in 1 .. MaxEngines, c \in Life!Callers : Life!Transfer(c, e)
  BY <1>13 DEF Life!Transfer
<1>14. CASE \E e \in 1 .. MaxEngines, c \in Life!Callers : Life!TransferEnd(c, e)
  BY <1>14 DEF Life!TransferEnd
<1>15. CASE \E e \in 1 .. MaxEngines, c \in Life!Callers : Life!Timeout(c, e)
  BY <1>15 DEF Life!Timeout
<1>16. QED BY <1>1, <1>2, <1>3, <1>4, <1>5, <1>6, <1>7, <1>8, <1>9, <1>10, <1>11, <1>12, <1>13,
      <1>14, <1>15
      DEF Life!Next

\* What the removal cannot survive has one of the causes.
LEMMA CrashStep ==
  ASSUME LifeInv, Life!LifecycleAssumption, Life!Next
  PROVE  Life!CrashNeedsFailure'
<1> USE DEF LifeInv, Life!At, Life!NoFailure, Life!Failure, Life!Crash, Life!posVars,
            Life!irqVars, Life!enableVars, Life!dmaVars, Life!cdevVars, Life!videoVars,
            Life!statusVars, Acquired, HeldWithin, HeldAtLeast, FailedWhere, ChannelsUp, NoXdev,
            NoList, NoEnabled, NoRegions, NoBars, NoEngines, NoVectors, NoIrqs, Labels, Before,
            Unwinding, Late, OpenFailed, VideoUp, Life!OpenFailures, Life!Channels,
            Life!MonitorsThere, Life!Goto, Life!Opening, Life!Undo, EnginesBusy, Busy,
            Life!CrashNeedsFailure, Life!File, Life!LifecycleAssumption
<1>1. CASE Life!ProbeAlloc
  BY <1>1 DEF Life!ProbeAlloc
<1>2. CASE Life!Open
  BY <1>2 DEF Life!Open, Life!OpenStep, Life!OpenStepFails, Life!ProbeEngines, Life!EnableMsix,
      Life!EnableMsixFails, Life!IrqSetup, Life!IrqSetupFails, Life!Online, Life!UndoStep,
      Life!RemoveEngines, Life!RemoveEnginesCrash, Life!FreeXdev, Life!FreeXdevCrash,
      Life!OpenFailed
<1>3. CASE Life!Interfaces
  BY <1>3 DEF Life!Interfaces, Life!UserEnable, Life!CreateGroup, Life!CreateGroupFails
<1>4. CASE Life!VideoAdd
  BY <1>4 DEF Life!VideoAdd, Life!VideoMemory, Life!VideoMemoryFails, Life!MonitorInit,
      Life!MonitorInitCrash, Life!V4l2Register, Life!V4l2RegisterFails, Life!ChannelUp,
      Life!ChannelFails, Life!AttrCreate, Life!SetDrvdata
<1>5. CASE Life!Free
  <2>1. CASE Life!Destroy
    BY <2>1 DEF Life!Destroy
  <2>2. CASE Life!AttrRemove
    BY <2>2 DEF Life!AttrRemove
  <2>3. CASE Life!MonitorFree
    BY <2>3 DEF Life!MonitorFree
  <2>4. CASE Life!MonitorFreeCrash
    BY <2>4 DEF Life!MonitorFreeCrash
  <2>5. CASE Life!ChannelFree
    BY <2>5 DEF Life!ChannelFree
  <2>6. CASE Life!ChannelFreeCrash
    BY <2>6 DEF Life!ChannelFreeCrash
  <2>7. CASE Life!VideoPut
    BY <2>7 DEF Life!VideoPut
  <2>8. CASE Life!Close
    BY <2>8 DEF Life!Close
  <2>9. CASE Life!FreeIrq
    BY <2>9 DEF Life!FreeIrq
  <2>10. CASE Life!TornDown
    BY <2>10 DEF Life!TornDown
  <2>11. CASE Life!FreeXpdev
    BY <2>11 DEF Life!FreeXpdev
  <2>12. QED BY <2>1, <2>2, <2>3, <2>4, <2>5, <2>6, <2>7, <2>8, <2>9, <2>10, <2>11, <1>5 DEF Life!Free
<1>6. CASE Life!Remove
  BY <1>6 DEF Life!Remove
<1>7. CASE Life!ReadStatusCrash
  BY <1>7 DEF Life!ReadStatusCrash
<1>8. CASE \E i \in irqs \cup handling : Life!Interrupt(i)
  BY <1>8 DEF Life!Interrupt
<1>9. CASE \E i \in irqs \cup handling : Life!InterruptEnd(i)
  BY <1>9 DEF Life!InterruptEnd
<1>10. CASE \E e \in 1 .. MaxEngines : Life!EngineEnds(e)
  BY <1>10 DEF Life!EngineEnds
<1>11. CASE \E e \in 1 .. MaxEngines : Life!WorkBegin(e)
  BY <1>11 DEF Life!WorkBegin
<1>12. CASE \E e \in 1 .. MaxEngines : Life!WorkEnd(e)
  BY <1>12 DEF Life!WorkEnd
<1>13. CASE \E e \in 1 .. MaxEngines, c \in Life!Callers : Life!Transfer(c, e)
  BY <1>13 DEF Life!Transfer
<1>14. CASE \E e \in 1 .. MaxEngines, c \in Life!Callers : Life!TransferEnd(c, e)
  BY <1>14 DEF Life!TransferEnd
<1>15. CASE \E e \in 1 .. MaxEngines, c \in Life!Callers : Life!Timeout(c, e)
  BY <1>15 DEF Life!Timeout
<1>16. QED BY <1>1, <1>2, <1>3, <1>4, <1>5, <1>6, <1>7, <1>8, <1>9, <1>10, <1>11, <1>12, <1>13,
      <1>14, <1>15
      DEF Life!Next

\* Nothing of the life of a card changes in a step of another view, or in none.
LEMMA LifeStutters == LifeInv /\ UNCHANGED lifeVars => LifeInv'
<1> SUFFICES ASSUME LifeInv, UNCHANGED lifeVars PROVE LifeInv'
  OBVIOUS
<1> USE DEF lifeVars
<1>1. Typed' /\ HandlersLive' /\ Life!CrashNeedsFailure'
  BY DEF LifeInv, Typed, HandlersLive, OpenFailed, Life!EngineVectors, Life!CrashNeedsFailure
<1>2. Acquired'
  BY DEF LifeInv, Acquired, HeldWithin, HeldAtLeast, FailedWhere, ChannelsUp, DevicesFlagged,
         OpenFailed, VideoUp, Life!MonitorsThere
<1>3. EnginesBusy'
  BY DEF LifeInv, EnginesBusy, Busy
<1>4. QED BY <1>1, <1>2, <1>3 DEF LifeInv

LEMMA LifeStep == LifeInv /\ [NextCard]_<<use, lifeVars, setupVars, poolVars>> => LifeInv'
<1>1. ASSUME LifeInv, use = "life" /\ Life!Next PROVE LifeInv'
  <2>1. Life!LifecycleAssumption
    BY CardsAssumption
  <2>2. Typed'
    BY <1>1, <2>1, TypeStep DEF LifeInv, Acquired
  <2>3. QED BY <1>1, <2>1, <2>2, AcquiredStep, HandlersStep, EnginesStep, CrashStep DEF LifeInv
<1>2. [NextCard]_<<use, lifeVars, setupVars, poolVars>> =>
          (use = "life" /\ Life!Next) \/ UNCHANGED lifeVars
  BY DEF NextCard
<1>3. QED BY <1>1, <1>2, LifeStutters

LEMMA LifeInit == InitCard => LifeInv
<1> SUFFICES ASSUME Life!Init PROVE LifeInv
  BY DEF InitCard
<1> USE DEF Life!Init
<1>1. Typed
  <2>1. ch \in 1 .. NChannels + 1
    BY CardsAssumption DEF Life!LifecycleAssumption
  <2>2. QED BY <2>1 DEF Typed, Life!Positions
<1>2. Acquired
  BY DEF Acquired, HeldWithin, HeldAtLeast, FailedWhere, ChannelsUp, DevicesFlagged, NoXdev,
         NoList, NoEnabled, NoRegions, NoBars, NoEngines, NoVectors, NoIrqs, Labels, Before,
         Unwinding, OpenFailed, VideoUp, Life!OpenFailures, Life!Goto
<1>3. HandlersLive /\ EnginesBusy /\ Life!CrashNeedsFailure
  BY DEF HandlersLive, EnginesBusy, Busy, Life!CrashNeedsFailure
<1>4. QED BY <1>1, <1>2, <1>3 DEF LifeInv

\* Whatever fails, whenever interrupts, transfers and work items come, the driver
\* has acquired and given back what its place in probe_one and remove_one says.
THEOREM LifeInvariant == SpecCard => []LifeInv
<1>1. QED BY LifeInit, LifeStep, PTL DEF SpecCard

\* Whichever way the device goes, all it had is given back: an xdma_device_open that
\* fails leaves nothing behind but what its comment in the model names, and a device
\* that was removed leaves nothing (xdma_device_open, remove_one).
THEOREM NothingLeft == SpecCard => []LeavesNothing
<1>1. LifeInv => LeavesNothing
  BY DEF LifeInv, Typed, Acquired, HeldWithin, HeldAtLeast, FailedWhere, ChannelsUp,
         DevicesFlagged, HandlersLive, NoXdev, NoList, NoEnabled, NoRegions, NoBars, NoEngines,
         NoVectors, NoIrqs, Labels, Before, Unwinding, Late, OpenFailed, VideoUp,
         Life!OpenFailures, Life!Goto, Life!Resources, LeavesNothing, Life!LeavesNothing,
         Life!OpenUnwinds, Life!RemovedClean
<1>2. QED BY <1>1, LifeInvariant, PTL

\* What runs beside the probe and the removal finds its memory, and the driver
\* crashes only for one of the named causes (xdma_video_remove, free_irq,
\* schedule_work, engine_destroy).
THEOREM LiveMemory == SpecCard => []RunsOnLiveMemory
<1>1. LifeInv => RunsOnLiveMemory
  <2> SUFFICES ASSUME LifeInv PROVE RunsOnLiveMemory
    OBVIOUS
  <2> USE DEF LifeInv, Acquired, HandlersLive, NoXdev, NoList, NoEnabled, NoRegions, NoBars,
              Late, Unwinding, OpenFailed, VideoUp
  <2>1. Life!TypeOK
    BY TypeParts
  <2>2. ASSUME NEW i \in handling
        PROVE  /\ {"xdev", "bars"} \subseteq held
               /\ i[1] = "engine" => i[2] \in engines
               /\ i[1] = "user" /\ i[2] \in handlers =>
                      "channels" \in held \/ pos \in {"close", "teardown"}
    BY <2>2 DEF HeldAtLeast, ChannelsUp, EnginesBusy, Labels
  <2>3. Life!ThreadsHaveMemory
    BY DEF HeldAtLeast, ChannelsUp, Life!ThreadsHaveMemory
  <2>4. QED BY <2>1, <2>2, <2>3 DEF RunsOnLiveMemory, Life!RunsOnLiveMemory,
                                  Life!HandlersHaveDevice
<1>2. QED BY <1>1, LifeInvariant, PTL
-----------------------------------------------------------------------------
\* What is found out about a card and written into it (CardSetup).

NotOnline == {"closed", "bars", "engines", "enable", "irqs"}

SetupTyped ==
    /\ card \in Setup!Cards
    /\ chanVec \in [Setup!ChanSlots -> Nat] /\ userVec \in [Setup!Users -> Nat]
    /\ ie \in [Setup!Engines -> {"none", "errors", "all"}]
    /\ wb \in [Setup!Engines -> BOOLEAN]
    /\ chanEn \in BOOLEAN /\ userEn \in BOOLEAN /\ poll_mode \in BOOLEAN
    /\ irq_line \in BOOLEAN /\ mask_irq_user \in BOOLEAN /\ astray \in BOOLEAN
    /\ at \in {"closed", "bars", "engines", "enable", "irqs", "running", "offline"}
    /\ mishap \subseteq {"engine", "request", "unpaired", "polled", "removed"}
    /\ h2c_channel_max \in 0 .. MaxChannels /\ c2h_channel_max \in 0 .. MaxChannels
    /\ enabled \in {"none", "msi", "msix"} /\ shares \in 0 .. MaxShares
    /\ irq_bit \in [Setup!Engines -> Int] /\ msix_irq_line \in [Setup!Engines -> Int]

\* Until the device is online it holds no interrupt and raises none.
NoneYet ==
    at \in NotOnline => /\ requested = {} /\ shares = 0 /\ ~irq_line
                     /\ ~chanEn /\ ~userEn /\ ~mask_irq_user
                     /\ \A e \in Setup!Engines : msix_irq_line[e] = Setup!Unset

\* All the card's engines are set up, each with the bit the card knows it by ...
AllEngines ==
    at \notin {"closed", "bars", "engines"} =>
        /\ h2c_channel_max = card.h2c /\ c2h_channel_max = card.c2h
        /\ \A e \in Setup!Counted : irq_bit[e] = Setup!Number(e)

\* ... and, but when the device is offline, with the interrupts it is to raise.
EnginesSet ==
    at \in {"enable", "irqs", "running"} =>
        \A e \in Setup!Counted : /\ ie[e] = (IF poll_mode THEN "errors" ELSE "all")
                                 /\ poll_mode => wb[e]

\* A card with the first pin or none is not told its pin, and relies on vectors
\* that are zero.
ZeroVectors ==
    card.pin <= 1 =>
        /\ \A s \in Setup!ChanSlots :
              ~(at = "running" /\ enabled = "msix" /\ s < Setup!NEngines) => chanVec[s] = 0
        /\ ~(at = "running" /\ enabled = "msix") => \A u \in Setup!Users : userVec[u] = 0

\* A device that is running holds what it wants, and no more, ...
Held ==
    at = "running" =>
        /\ chanEn = ~poll_mode /\ (mask_irq_user => userEn)
        /\ IF enabled = "msix"
           THEN /\ requested = Setup!Wanted /\ shares = 0
                /\ \A e \in Setup!Counted : /\ msix_irq_line[e] = Setup!Entry(e)
                                            /\ chanVec[Setup!Entry(e)] = Setup!Entry(e)
                /\ \A u \in Setup!Users : userVec[u] = Setup!Entry(<<"user", u>>)
           ELSE /\ requested = {} /\ irq_line /\ shares = 1
                /\ enabled = "none" =>
                    /\ card.pin > 0
                    /\ \A s \in Setup!ChanSlots : chanVec[s] = card.pin - 1
                    /\ \A u \in Setup!Users : userVec[u] = card.pin - 1

\* ... and one that is offline nothing.
Nothing ==
    at = "offline" => ~poll_mode /\ requested = {} /\ shares = 0

AsItShould ==
    NoneYet /\ AllEngines /\ EnginesSet /\ ZeroVectors /\ Held /\ Nothing /\ ~astray

SetupInv ==
    /\ SetupTyped /\ Setup!RolesRight
    /\ mishap = {} => AsItShould

LEMMA SetupConstants ==
  /\ MaxChannels \in Nat /\ UserMax \in Nat /\ PerWord \in Nat \ {0}
  /\ Pins \subseteq Nat /\ MaxShares \in Nat
BY CardsAssumption DEF Setup!CardAssumption

LEMMA SetupFinite == \A S : Setup!Cardinality(S) = Cardinality(S)
BY DEF Setup!Cardinality, Cardinality

\* Whole registers hold the vectors they are written for.
LEMMA WordsEnough == \A n \in Nat : Setup!Words(n) \in Nat /\ n <= Setup!Words(n)
BY SetupConstants DEF Setup!Words

LEMMA CardParts ==
  ASSUME card \in Setup!Cards
  PROVE  /\ card.bars \in Layouts /\ card.h2c \in 0 .. MaxChannels
         /\ card.c2h \in 0 .. MaxChannels /\ card.pin \in Nat
BY SetupConstants DEF Setup!Cards

\* The vectors of the engines are the numbers the card knows them by, if all its
\* engines are set up, and there is a place for each.
LEMMA Numbers ==
  ASSUME SetupTyped, AllEngines, at \notin {"closed", "bars", "engines"}
  PROVE  /\ Setup!NEngines \in Nat /\ Setup!NEngines <= 2 * MaxChannels
         /\ \A e \in Setup!Counted :
              /\ e \in Setup!Engines
              /\ Setup!Entry(e) = Setup!Number(e)
              /\ Setup!Entry(e) \in 0 .. Setup!NEngines - 1
              /\ Setup!Entry(e) \in Setup!ChanSlots
         /\ \A u \in Setup!Users : Setup!Entry(<<"user", u>>) = Setup!NEngines + u
<1> USE SetupConstants
<1>1. /\ h2c_channel_max \in 0 .. MaxChannels /\ c2h_channel_max \in 0 .. MaxChannels
      /\ h2c_channel_max = card.h2c /\ c2h_channel_max = card.c2h
  BY Zenon DEF SetupTyped, AllEngines
<1>2. Setup!NEngines \in Nat /\ Setup!NEngines <= 2 * MaxChannels
  BY <1>1 DEF Setup!NEngines
<1>3. ASSUME NEW e \in Setup!Counted
      PROVE  /\ e \in Setup!Engines
             /\ Setup!Entry(e) = Setup!Number(e)
             /\ Setup!Entry(e) \in 0 .. Setup!NEngines - 1
             /\ Setup!Entry(e) \in Setup!ChanSlots
  <2>1. /\ e \in Setup!Engines /\ e[1] \in {"h2c", "c2h"} /\ e[2] \in 0 .. MaxChannels - 1
        /\ e[2] < (IF e[1] = "h2c" THEN h2c_channel_max ELSE c2h_channel_max)
    BY <1>3 DEF Setup!Counted, Setup!Engines
  <2>2. CASE e[1] = "h2c"
    BY <1>1, <2>1, <2>2 DEF Setup!Entry, Setup!Number, Setup!NEngines, Setup!ChanSlots
  <2>3. CASE e[1] = "c2h"
    BY <1>1, <2>1, <2>3 DEF Setup!Entry, Setup!Number, Setup!NEngines, Setup!ChanSlots
  <2>4. QED BY <2>1, <2>2, <2>3
<1>4. \A u \in Setup!Users : Setup!Entry(<<"user", u>>) = Setup!NEngines + u
  BY DEF Setup!Entry
<1>5. QED BY <1>2, <1>3, <1>4

\* What the driver wants is what it has written into the card, in every mode.
LEMMA SetupMeans == SetupInv => Setup!SetupHolds
<1> SUFFICES ASSUME SetupInv PROVE Setup!TypeOK /\ Setup!Ready /\ Setup!GivenBack
  BY DEF SetupInv, Setup!SetupHolds
<1>0. Setup!TypeOK
  BY Zenon DEF SetupInv, SetupTyped, Setup!TypeOK
<1>1. Setup!GivenBack
  BY DEF SetupInv, Setup!GivenBack, AsItShould, NoneYet, NotOnline
<1>2. ASSUME at = "running", mishap = {}
      PROVE  /\ \A e \in Setup!Counted : ie[e] = (IF poll_mode THEN "errors" ELSE "all")
             /\ IF poll_mode THEN \A e \in Setup!Counted : wb[e]
                ELSE chanEn /\ \A e \in Setup!Counted : Setup!Arrives(e)
             /\ mask_irq_user => userEn /\ \A u \in Setup!Users : Setup!UserArrives(u)
  <2>1. SetupTyped /\ AllEngines /\ EnginesSet /\ Held
    BY <1>2 DEF SetupInv, AsItShould
  <2>2. /\ \A e \in Setup!Counted :
              /\ e \in Setup!Engines
              /\ Setup!Entry(e) = Setup!Number(e)
              /\ Setup!Entry(e) \in Setup!ChanSlots
              /\ irq_bit[e] = Setup!Number(e)
    BY <1>2, <2>1, Numbers DEF AllEngines
  <2>3. ASSUME NEW e \in Setup!Counted PROVE Setup!Arrives(e)
    <3>1. CASE enabled = "msix"
      <4>1. /\ requested = Setup!Wanted /\ chanVec[Setup!Entry(e)] = Setup!Entry(e)
        BY <1>2, <2>1, <3>1 DEF Held
      <4>2. QED BY <2>2, <2>3, <3>1, <4>1 DEF Setup!Arrives, Setup!Wanted
    <3>2. CASE enabled # "msix"
      <4>1. /\ shares = 1
            /\ enabled = "none" => \A s \in Setup!ChanSlots : chanVec[s] = card.pin - 1
        BY <1>2, <2>1, <3>2 DEF Held
      <4>2. QED BY <2>2, <3>2, <4>1 DEF Setup!Arrives
    <3>3. QED BY <3>1, <3>2
  <2>4. ASSUME NEW u \in Setup!Users PROVE Setup!UserArrives(u)
    <3>1. CASE enabled = "msix"
      BY <1>2, <2>1, <3>1 DEF Held, Setup!UserArrives, Setup!Wanted, Setup!UserHandlers
    <3>2. CASE enabled # "msix"
      BY <1>2, <2>1, <3>2 DEF Held, Setup!UserArrives
    <3>3. QED BY <3>1, <3>2
  <2>5. chanEn = ~poll_mode /\ (mask_irq_user => userEn)
    BY <1>2, <2>1 DEF Held
  <2>6. IF poll_mode THEN \A e \in Setup!Counted : wb[e]
        ELSE chanEn /\ \A e \in Setup!Counted : Setup!Arrives(e)
    <3>1. CASE poll_mode
      <4>1. \A e \in Setup!Counted : wb[e]
        BY <1>2, <2>1, <3>1 DEF EnginesSet
      <4>2. QED BY <3>1, <4>1, Zenon
    <3>2. CASE ~poll_mode
      <4>1. chanEn
        BY <2>5, <3>2, Zenon
      <4>2. \A e \in Setup!Counted : Setup!Arrives(e)
        BY <2>3
      <4>3. QED BY <3>2, <4>1, <4>2, Zenon
    <3>3. QED BY <3>1, <3>2, Zenon
  <2>7. mask_irq_user => userEn /\ \A u \in Setup!Users : Setup!UserArrives(u)
    BY <2>4, <2>5, Zenon
  <2>8. \A e \in Setup!Counted : ie[e] = (IF poll_mode THEN "errors" ELSE "all")
    BY <1>2, <2>1 DEF EnginesSet
  <2>9. QED BY <2>6, <2>7, <2>8, Zenon
<1>3. QED BY <1>0, <1>1, <1>2, Zenon DEF Setup!Ready

LEMMA LayoutsAreSequences == \A l \in Layouts : Len(l) \in Nat
BY DEF Layouts

\* How many there are tells two numbers from three, and one from none.
LEMMA FewOnes ==
  /\ Cardinality({}) = 0
  /\ \A a : IsFiniteSet({a}) /\ Cardinality({a}) = 1
  /\ \A a, b : a # b => IsFiniteSet({a, b}) /\ Cardinality({a, b}) = 2
<1>1. \A a : IsFiniteSet({a}) /\ Cardinality({a}) = 1
  BY FS_Singleton
<1>2. ASSUME NEW a, NEW b, a # b PROVE IsFiniteSet({a, b}) /\ Cardinality({a, b}) = 2
  <2>1. {a, b} = {a} \cup {b} /\ b \notin {a}
    BY <1>2
  <2>2. /\ IsFiniteSet({a} \cup {b})
        /\ Cardinality({a} \cup {b}) = Cardinality({a}) + 1
    BY <1>1, <2>1, FS_AddElement, Zenon
  <2>3. QED BY <1>1, <2>1, <2>2
<1>3. QED BY <1>1, <1>2, FS_EmptySet

LEMMA ThreeOnes ==
  ASSUME NEW a, NEW b, NEW c, a # b, a # c, b # c
  PROVE  Cardinality({a, b, c}) = 3
<1>1. {a, b, c} = {a, b} \cup {c} /\ c \notin {a, b}
  OBVIOUS
<1>2. IsFiniteSet({a, b}) /\ Cardinality({a, b}) = 2
  BY FewOnes
<1>3. Cardinality({a, b} \cup {c}) = Cardinality({a, b}) + 1
  BY <1>1, <1>2, FS_AddElement, Zenon
<1>4. QED BY <1>1, <1>2, <1>3

\* map_bars takes each BAR of a documented layout for what it is.
LEMMA MapBarsRoles ==
  ASSUME SetupTyped, Setup!MapBars
  PROVE  Setup!RolesRight'
<1> DEFINE D == Setup!Detected
           place(c) == {i \in D : i < c}
<1>1. /\ card' = card /\ D \subseteq Nat /\ Setup!Unset \notin D
      /\ \A i, j \in D : i < j \/ j < i \/ i = j
  <2>1. Len(card.bars) \in Nat
    BY LayoutsAreSequences, CardParts DEF SetupTyped
  <2>2. QED BY <2>1 DEF Setup!MapBars, Setup!Detected, Setup!Unset
<1>2. PICK config \in Setup!ConfigBars, first \in D, last \in D :
        /\ \A i \in D : first <= i /\ i <= last
        /\ config_bar' = config
        /\ user_bar' = IF \/ Cardinality(D) \in {3, 4} /\ Cardinality(place(config)) \in {1, 2}
                          \/ Cardinality(D) = 2 /\ Cardinality(place(config)) = 1
                       THEN first ELSE Setup!Unset
        /\ bypass_bar' = IF \/ Cardinality(D) \in {3, 4} /\ Cardinality(place(config)) \in {1, 2}
                            \/ Cardinality(D) = 2 /\ Cardinality(place(config)) = 0
                         THEN last ELSE Setup!Unset
  BY SetupFinite DEF Setup!MapBars
<1>3. config \in D /\ Setup!Has(config, "config")
  BY DEF Setup!ConfigBars
<1> DEFINE Only(i, kind) == \A j \in D : Setup!Has(j, kind) <=> j = i
<1>4. ASSUME Setup!Documented
      PROVE  /\ user_bar' # Setup!Unset => user_bar' \in D
             /\ bypass_bar' # Setup!Unset => bypass_bar' \in D
             /\ \A i \in D : /\ user_bar' = i <=> Setup!Has(i, "user")
                             /\ bypass_bar' = i <=> Setup!Has(i, "bypass")
  <2>1. /\ \A i \in D : /\ i < config => Setup!Has(i, "user")
                        /\ i > config => Setup!Has(i, "bypass")
        /\ \A i, j \in D : \A k : Setup!Has(i, k) /\ Setup!Has(j, k) => i = j
        /\ \A i \in D : \A k, l : Setup!Has(i, k) /\ Setup!Has(i, l) => k = l
    BY <1>3, <1>4 DEF Setup!Documented, Setup!Has
  <2> HIDE DEF D
  <2>2. CASE \E u, b \in D : u < config /\ config < b
    <3>1. PICK u \in D, b \in D : u < config /\ config < b
      BY <2>2
    <3>2. /\ u \in Nat /\ b \in Nat /\ config \in Nat
          /\ \A i \in D : i < config => i = u
          /\ \A i \in D : i > config => i = b
      BY <1>1, <1>3, <2>1, <3>1
    <3>3. D = {u, config, b}
      BY <1>1, <1>3, <3>1, <3>2
    <3>4. place(config) = {u}
      BY <1>1, <3>1, <3>2
    <3>5. Cardinality(D) = 3 /\ Cardinality(place(config)) = 1
      <4>1. u # config /\ u # b /\ config # b
        BY <3>1, <3>2
      <4>2. Cardinality({u, config, b}) = 3
        BY <4>1, ThreeOnes
      <4>3. Cardinality({u}) = 1
        BY FewOnes
      <4>4. QED BY <3>3, <3>4, <4>2, <4>3
    <3>6. first = u /\ last = b
      BY <1>1, <1>2, <1>3, <3>1, <3>3
    <3>7. user_bar' = u /\ bypass_bar' = b
      BY <1>2, <3>5, <3>6
    <3>8. QED BY <1>1, <1>3, <2>1, <3>1, <3>3, <3>7
  <2>3. CASE (\E u \in D : u < config) /\ ~(\E b \in D : config < b)
    <3>1. PICK u \in D : u < config
      BY <2>3
    <3>2. /\ u # config /\ \A i \in D : i # config => i = u
          /\ config \in Nat
      BY <1>1, <1>3, <2>1, <2>3, <3>1
    <3>3. D = {u, config}
      BY <1>3, <3>1, <3>2
    <3>4. place(config) = {u}
      <4>1. \A i \in D : i < config => i = u
        BY <3>2
      <4>2. QED BY <3>1, <4>1
    <3>5. Cardinality(D) = 2 /\ Cardinality(place(config)) = 1
      BY <3>2, <3>3, <3>4, FewOnes, Zenon
    <3>6. first = u
      BY <1>1, <1>2, <1>3, <3>1, <3>3
    <3>7. user_bar' = u /\ bypass_bar' = Setup!Unset
      BY <1>2, <3>5, <3>6
    <3>8. QED BY <1>1, <1>3, <2>1, <3>1, <3>3, <3>7
  <2>4. CASE (\E b \in D : config < b) /\ ~(\E u \in D : u < config)
    <3>1. PICK b \in D : config < b
      BY <2>4
    <3>2. /\ b # config /\ \A i \in D : i # config => i = b
          /\ config \in Nat /\ b \in Nat /\ ~(b < config)
      BY <1>1, <1>3, <2>1, <2>4, <3>1
    <3>3. D = {config, b}
      BY <1>3, <3>1, <3>2
    <3>4. place(config) = {}
      BY <2>4
    <3>5. Cardinality(D) = 2 /\ Cardinality(place(config)) = 0
      BY <3>2, <3>3, <3>4, FewOnes, Zenon
    <3>6. last = b
      BY <1>1, <1>2, <1>3, <3>1, <3>3
    <3>7. user_bar' = Setup!Unset /\ bypass_bar' = b
      BY <1>2, <3>5, <3>6
    <3>8. QED BY <1>1, <1>3, <2>1, <3>1, <3>3, <3>7
  <2>5. CASE ~(\E b \in D : config < b) /\ ~(\E u \in D : u < config)
    <3>1. D = {config}
      BY <1>1, <1>3, <2>5
    <3>2. Cardinality(D) = 1
      BY <3>1, FewOnes
    <3>3. user_bar' = Setup!Unset /\ bypass_bar' = Setup!Unset
      BY <1>2, <3>2
    <3>4. QED BY <1>1, <1>3, <2>1, <3>1, <3>3
  <2>6. QED BY <2>2, <2>3, <2>4, <2>5
<1>5. /\ Setup!Detected' = D /\ Setup!Documented' = Setup!Documented
      /\ \A i, k : Setup!Has(i, k)' = Setup!Has(i, k)
  BY <1>1 DEF Setup!Detected, Setup!Documented, Setup!Has
<1>6. QED BY <1>2, <1>3, <1>4, <1>5 DEF Setup!RolesRight

\* The roles of the BARs stay, or the device is freed.
LEMMA RolesSame ==
  ASSUME Setup!RolesRight, card' = card,
         UNCHANGED <<config_bar, user_bar, bypass_bar>> \/ config_bar' = Setup!Unset
  PROVE  Setup!RolesRight'
<1>1. /\ Setup!Detected' = Setup!Detected /\ Setup!Documented' = Setup!Documented
      /\ \A i, k : Setup!Has(i, k)' = Setup!Has(i, k)
  BY DEF Setup!Detected, Setup!Documented, Setup!Has
<1>2. QED BY <1>1 DEF Setup!RolesRight

\* What the actions name together.
LEMMA SetupFreed ==
  ASSUME SetupTyped, Setup!Freed
  PROVE  /\ at' = "closed" /\ config_bar' = Setup!Unset
         /\ h2c_channel_max' \in 0 .. MaxChannels /\ c2h_channel_max' \in 0 .. MaxChannels
         /\ irq_bit' \in [Setup!Engines -> Int] /\ msix_irq_line' \in [Setup!Engines -> Int]
         /\ \A e \in Setup!Engines : msix_irq_line'[e] = Setup!Unset
         /\ enabled' \in {"none", "msi", "msix"}
         /\ ~irq_line' /\ irq_line' \in BOOLEAN
         /\ ~mask_irq_user' /\ mask_irq_user' \in BOOLEAN
<1>1. /\ at' = "closed" /\ config_bar' = Setup!Unset
      /\ h2c_channel_max' \in 0 .. MaxChannels /\ c2h_channel_max' \in 0 .. MaxChannels
      /\ enabled' \in {"none", "msi", "msix"}
  BY SetupConstants DEF Setup!Freed
<1>2. /\ irq_bit' \in [Setup!Engines -> Int] /\ msix_irq_line' \in [Setup!Engines -> Int]
      /\ \A e \in Setup!Engines : msix_irq_line'[e] = Setup!Unset
  BY DEF Setup!Freed, Setup!Unset
<1>3. irq_line' = FALSE /\ mask_irq_user' = FALSE
  BY DEF Setup!Freed
<1>4. QED BY <1>1, <1>2, <1>3

LEMMA SetupRemoveEngines ==
  ASSUME SetupTyped, Setup!RemoveEngines
  PROVE  ie' \in [Setup!Engines -> {"none", "errors", "all"}] /\ wb' = wb
BY DEF SetupTyped, Setup!RemoveEngines

LEMMA SetupInitRegs ==
  ASSUME SetupTyped, NEW es \in SUBSET Setup!Engines, Setup!InitRegs(es)
  PROVE  /\ ie' \in [Setup!Engines -> {"none", "errors", "all"}]
         /\ wb' \in [Setup!Engines -> BOOLEAN]
         /\ \A e \in es : /\ ie'[e] = (IF poll_mode THEN "errors" ELSE "all")
                          /\ poll_mode => wb'[e]
<1>1. ie' \in [Setup!Engines -> {"none", "errors", "all"}]
  BY DEF SetupTyped, Setup!InitRegs
<1>2. wb' \in [Setup!Engines -> BOOLEAN]
  BY DEF SetupTyped, Setup!InitRegs
<1>3. ASSUME NEW e \in es PROVE ie'[e] = (IF poll_mode THEN "errors" ELSE "all")
  BY <1>3 DEF Setup!InitRegs
<1>4. ASSUME NEW e \in es, poll_mode PROVE wb'[e]
  BY <1>4 DEF Setup!InitRegs
<1>5. QED BY <1>1, <1>2, <1>3, <1>4

LEMMA OpenStep == ASSUME SetupInv, ~astray, Setup!Open PROVE SetupInv'
<1>1. SetupTyped'
  BY SetupConstants
  DEF SetupInv, SetupTyped, Setup!Open, Setup!irqVars, Setup!regVars, Setup!barVars
<1>2. Setup!RolesRight'
  BY RolesSame DEF SetupInv, Setup!Open, Setup!barVars
<1>3. ASSUME mishap' = {} PROVE AsItShould'
  <2>1. /\ at' = "bars" /\ at = "closed" /\ AsItShould /\ card' = card
        /\ UNCHANGED <<chanVec, userVec, chanEn, userEn, requested, shares, irq_line,
                       mask_irq_user, msix_irq_line, astray>>
    BY <1>3 DEF SetupInv, Setup!Open, Setup!irqVars, Setup!regVars
  <2>2. NoneYet' /\ ZeroVectors' /\ ~astray'
    BY <2>1 DEF AsItShould, NoneYet, ZeroVectors, NotOnline
  <2>3. AllEngines' /\ EnginesSet' /\ Held' /\ Nothing'
    BY <2>1 DEF AllEngines, EnginesSet, Held, Nothing
  <2>4. QED BY <2>2, <2>3, Zenon DEF AsItShould
<1>4. QED BY <1>1, <1>2, <1>3, Zenon DEF SetupInv

LEMMA MapBarsStep == ASSUME SetupInv, ~astray, Setup!MapBars PROVE SetupInv'
<1>1. SetupTyped'
  BY DEF SetupInv, SetupTyped, Setup!MapBars, Setup!Enable, Setup!irqVars, Setup!engVars,
         Setup!paramVars
<1>2. Setup!RolesRight'
  BY MapBarsRoles DEF SetupInv
<1>3. ASSUME mishap' = {} PROVE AsItShould'
  <2>1. /\ at' = "engines" /\ at = "bars" /\ AsItShould /\ card' = card
        /\ ~chanEn' /\ ~userEn'
        /\ UNCHANGED <<chanVec, userVec, requested, shares, irq_line,
                       mask_irq_user, msix_irq_line, astray>>
    BY <1>3 DEF SetupInv, Setup!MapBars, Setup!Enable, Setup!irqVars, Setup!engVars
  <2>2. NoneYet' /\ ZeroVectors' /\ ~astray'
    BY <2>1 DEF AsItShould, NoneYet, ZeroVectors, NotOnline
  <2>3. AllEngines' /\ EnginesSet' /\ Held' /\ Nothing'
    BY <2>1 DEF AllEngines, EnginesSet, Held, Nothing
  <2>4. QED BY <2>2, <2>3, Zenon DEF AsItShould
<1>4. QED BY <1>1, <1>2, <1>3, Zenon DEF SetupInv

LEMMA OpenFailsStep == ASSUME SetupInv, ~astray, Setup!OpenFails PROVE SetupInv'
<1>0. SetupTyped
  BY DEF SetupInv
<1>1. SetupTyped'
  BY <1>0, SetupFreed DEF SetupTyped, Setup!OpenFails, Setup!regVars, Setup!paramVars
<1>2. Setup!RolesRight'
  BY <1>0, SetupFreed, RolesSame DEF SetupInv, Setup!OpenFails
<1>3. ASSUME mishap' = {} PROVE AsItShould'
  <2>1. /\ at' = "closed" /\ at = "bars" /\ AsItShould /\ card' = card
        /\ ~irq_line' /\ ~mask_irq_user' /\ \A e \in Setup!Engines : msix_irq_line'[e] = Setup!Unset
        /\ UNCHANGED <<chanVec, userVec, chanEn, userEn, requested, shares, astray>>
    BY <1>0, <1>3, SetupFreed DEF SetupInv, Setup!OpenFails, Setup!regVars
  <2>2. NoneYet' /\ ZeroVectors' /\ ~astray'
    BY <2>1 DEF AsItShould, NoneYet, ZeroVectors, NotOnline
  <2>3. AllEngines' /\ EnginesSet' /\ Held' /\ Nothing'
    BY <2>1 DEF AllEngines, EnginesSet, Held, Nothing
  <2>4. QED BY <2>2, <2>3, Zenon DEF AsItShould
<1>4. QED BY <1>1, <1>2, <1>3, Zenon DEF SetupInv

LEMMA ProbeEnginesStep == ASSUME SetupInv, ~astray, Setup!ProbeEngines PROVE SetupInv'
<1>0. SetupTyped /\ card.h2c \in 0 .. MaxChannels /\ card.c2h \in 0 .. MaxChannels
  BY CardParts DEF SetupInv, SetupTyped
<1> DEFINE setup(h, c) ==
             {e \in Setup!Engines : e[2] < (IF e[1] = "h2c" THEN h ELSE c)}
           first(h) == IF h < card.h2c THEN h + 1 ELSE h
           numbered(h, c) ==
             {e \in Setup!Engines : e[2] < (IF e[1] = "h2c" THEN first(h)
                                            ELSE IF c < card.c2h THEN c + 1 ELSE c)}
<1>1. PICK h \in 0 .. card.h2c, c \in 0 .. card.c2h :
        /\ h2c_channel_max' = h /\ c2h_channel_max' = c
        /\ irq_bit' = [e \in Setup!Engines |->
                         IF e \notin numbered(h, c) THEN Setup!Unset
                         ELSE IF e[1] = "h2c" THEN e[2] ELSE first(h) + e[2]]
        /\ Setup!InitRegs(setup(h, c))
        /\ mishap' = IF setup(h, c) = numbered(h, c) THEN mishap ELSE mishap \cup {"engine"}
  BY DEF Setup!ProbeEngines
<1>2. /\ at = "engines" /\ at' = "enable"
      /\ UNCHANGED <<card, chanVec, userVec, chanEn, userEn, poll_mode, config_bar, user_bar,
                     bypass_bar, msix_irq_line, enabled, requested, irq_line, shares,
                     mask_irq_user, astray>>
  BY DEF Setup!ProbeEngines, Setup!paramVars, Setup!barVars, Setup!irqVars
<1>3. /\ h \in 0 .. MaxChannels /\ c \in 0 .. MaxChannels
      /\ h <= card.h2c /\ c <= card.c2h /\ first(h) \in Nat
      /\ (h < card.h2c \/ h = card.h2c) /\ (c < card.c2h \/ c = card.c2h)
  BY <1>0, SetupConstants
<1>4. \A e \in Setup!Engines : e[1] \in {"h2c", "c2h"} /\ e[2] \in Nat
  BY SetupConstants DEF Setup!Engines
<1>5. irq_bit' \in [Setup!Engines -> Int]
  BY <1>1, <1>3, <1>4 DEF Setup!Unset
<1>6. /\ ie' \in [Setup!Engines -> {"none", "errors", "all"}]
      /\ wb' \in [Setup!Engines -> BOOLEAN]
      /\ \A e \in setup(h, c) : /\ ie'[e] = (IF poll_mode THEN "errors" ELSE "all")
                                /\ poll_mode => wb'[e]
  <2> HIDE DEF setup
  <2>1. setup(h, c) \in SUBSET Setup!Engines
    BY DEF setup
  <2>2. QED BY <1>0, <1>1, <2>1, SetupInitRegs
<1>7. setup(h, c) = Setup!Counted'
  BY <1>1 DEF Setup!Counted
<1>8. ASSUME mishap' = {}
      PROVE  /\ mishap = {} /\ setup(h, c) = numbered(h, c)
             /\ h = card.h2c /\ c = card.c2h
  <2>1. mishap = {} /\ setup(h, c) = numbered(h, c)
    BY <1>1, <1>8
  <2>2. h = card.h2c
    <3>1. SUFFICES ASSUME h < card.h2c PROVE FALSE
      BY <1>3
    <3>2. <<"h2c", h>> \in numbered(h, c) /\ <<"h2c", h>> \notin setup(h, c)
      BY <1>0, <1>3, <3>1, SetupConstants DEF Setup!Engines
    <3>3. QED BY <2>1, <3>2
  <2>3. c = card.c2h
    <3>1. SUFFICES ASSUME c < card.c2h PROVE FALSE
      BY <1>3
    <3>2. <<"c2h", c>> \in numbered(h, c) /\ <<"c2h", c>> \notin setup(h, c)
      BY <1>0, <1>3, <3>1, SetupConstants DEF Setup!Engines
    <3>3. QED BY <2>1, <3>2
  <2>4. QED BY <2>1, <2>2, <2>3
<1>9. ASSUME mishap' = {}, NEW e \in Setup!Counted'
      PROVE  irq_bit'[e] = IF e[1] = "h2c" THEN e[2] ELSE card.h2c + e[2]
  <2>1. e \in numbered(h, c) /\ e \in Setup!Engines /\ first(h) = card.h2c
    BY <1>3, <1>7, <1>8, <1>9
  <2> HIDE DEF numbered, first
  <2>2. QED BY <1>1, <2>1
<1> HIDE DEF setup, numbered, first
<1>10. SetupTyped'
  <2>1. mishap' \subseteq {"engine", "request", "unpaired", "polled", "removed"}
    BY <1>0, <1>1 DEF SetupTyped
  <2>2. QED BY <1>0, <1>1, <1>2, <1>3, <1>5, <1>6, <2>1 DEF SetupTyped
<1>11. Setup!RolesRight'
  BY <1>2, RolesSame DEF SetupInv
<1>12. ASSUME mishap' = {} PROVE AsItShould'
  <2>1. AsItShould
    BY <1>8, <1>12 DEF SetupInv
  <2>2. NoneYet' /\ ZeroVectors' /\ ~astray'
    BY <1>2, <2>1 DEF AsItShould, NoneYet, ZeroVectors, NotOnline
  <2>3. Held' /\ Nothing'
    BY <1>2 DEF Held, Nothing
  <2>4. EnginesSet'
    BY <1>2, <1>6, <1>7 DEF EnginesSet
  <2>5. AllEngines'
    BY <1>1, <1>2, <1>8, <1>9, <1>12 DEF AllEngines, Setup!Number
  <2>6. QED BY <2>2, <2>3, <2>4, <2>5, Zenon DEF AsItShould
<1>13. QED BY <1>10, <1>11, <1>12, Zenon DEF SetupInv

LEMMA EnableIrqsStep == ASSUME SetupInv, ~astray, Setup!EnableIrqs PROVE SetupInv'
<1>0. /\ at = "enable" /\ at' = "irqs" /\ enabled' \in {"none", "msi", "msix"}
      /\ UNCHANGED <<card, chanVec, userVec, chanEn, userEn, ie, wb, poll_mode, mishap,
                     config_bar, user_bar, bypass_bar, h2c_channel_max, c2h_channel_max,
                     irq_bit, msix_irq_line, requested, irq_line, shares, mask_irq_user, astray>>
  BY DEF Setup!EnableIrqs, Setup!Chosen, Setup!regVars, Setup!paramVars, Setup!barVars,
         Setup!engVars
<1>1. SetupTyped'
  BY <1>0 DEF SetupInv, SetupTyped
<1>2. Setup!RolesRight'
  BY <1>0, RolesSame DEF SetupInv
<1>3. ASSUME mishap' = {} PROVE AsItShould'
  <2>1. AsItShould
    BY <1>0, <1>3 DEF SetupInv
  <2>2. NoneYet' /\ ZeroVectors' /\ ~astray'
    BY <1>0, <2>1 DEF AsItShould, NoneYet, ZeroVectors, NotOnline
  <2>3. Held' /\ Nothing'
    BY <1>0 DEF Held, Nothing
  <2>4. Setup!Counted' = Setup!Counted /\ \A e : Setup!Number(e)' = Setup!Number(e)
    BY <1>0 DEF Setup!Counted, Setup!Number
  <2>5. AllEngines' /\ EnginesSet'
    BY <1>0, <2>1, <2>4 DEF AsItShould, AllEngines, EnginesSet
  <2>6. QED BY <2>2, <2>3, <2>5, Zenon DEF AsItShould
<1>4. QED BY <1>1, <1>2, <1>3, Zenon DEF SetupInv

LEMMA EnableIrqsFailsStep == ASSUME SetupInv, ~astray, Setup!EnableIrqsFails PROVE SetupInv'
<1>0. /\ SetupTyped /\ Setup!Freed /\ Setup!RemoveEngines /\ at = "enable"
      /\ UNCHANGED <<card, chanVec, userVec, chanEn, userEn, poll_mode, mishap,
                     requested, shares, astray>>
  BY DEF SetupInv, Setup!EnableIrqsFails, Setup!paramVars
<1>1. SetupTyped'
  BY <1>0, SetupFreed, SetupRemoveEngines DEF SetupTyped
<1>2. Setup!RolesRight'
  BY <1>0, SetupFreed, RolesSame DEF SetupInv
<1>3. ASSUME mishap' = {} PROVE AsItShould'
  <2>1. /\ at' = "closed" /\ AsItShould
        /\ ~irq_line' /\ ~mask_irq_user' /\ \A e \in Setup!Engines : msix_irq_line'[e] = Setup!Unset
    BY <1>0, <1>3, SetupFreed DEF SetupInv
  <2>2. NoneYet' /\ ZeroVectors' /\ ~astray'
    BY <1>0, <2>1 DEF AsItShould, NoneYet, ZeroVectors, NotOnline
  <2>3. AllEngines' /\ EnginesSet' /\ Held' /\ Nothing'
    BY <2>1 DEF AllEngines, EnginesSet, Held, Nothing
  <2>4. QED BY <2>2, <2>3, Zenon DEF AsItShould
<1>4. QED BY <1>1, <1>2, <1>3, Zenon DEF SetupInv

LEMMA EntryTyped ==
  ASSUME SetupTyped
  PROVE  Setup!NEngines \in Nat /\ \A e \in Setup!Engines : Setup!Entry(e) \in Int
BY SetupConstants DEF SetupTyped, Setup!Engines, Setup!Entry, Setup!NEngines

LEMMA IrqSetupTypes ==
  ASSUME SetupTyped, NEW ok \in BOOLEAN, Setup!IrqSetup(ok)
  PROVE  /\ chanVec' \in [Setup!ChanSlots -> Nat] /\ userVec' \in [Setup!Users -> Nat]
         /\ msix_irq_line' \in [Setup!Engines -> Int]
         /\ irq_line' \in BOOLEAN /\ shares' \in 0 .. MaxShares
<1>1. /\ chanVec \in [Setup!ChanSlots -> Nat] /\ userVec \in [Setup!Users -> Nat]
      /\ msix_irq_line \in [Setup!Engines -> Int]
      /\ irq_line \in BOOLEAN /\ shares \in 0 .. MaxShares /\ card.pin \in Nat
      /\ Setup!ChanSlots \subseteq Nat /\ Setup!Users \subseteq Nat
  BY CardParts, SetupConstants DEF SetupTyped, Setup!ChanSlots, Setup!Users
<1>2. CASE enabled = "msix"
  <2>1. Setup!MsixSetup(ok)
    BY <1>2 DEF Setup!IrqSetup
  <2>2. msix_irq_line' \in [Setup!Engines -> Int]
    <3>1. \A e \in Setup!Engines : Setup!Entry(e) \in Int
      BY EntryTyped
    <3>2. PICK n \in 0 .. Setup!NEngines + UserMax :
            LET got == IF ok THEN Setup!Wanted
                       ELSE Setup!Granted(IF n < Setup!NEngines THEN n ELSE Setup!NEngines)
            IN  msix_irq_line' = [e \in Setup!Engines |-> IF <<Setup!Entry(e), e>> \in got
                                                 THEN Setup!Entry(e) ELSE msix_irq_line[e]]
      BY <2>1 DEF Setup!MsixSetup
    <3>3. QED BY <1>1, <3>1, <3>2
  <2>3. chanVec' \in [Setup!ChanSlots -> Nat] /\ userVec' \in [Setup!Users -> Nat]
    BY <1>1, <2>1, EntryTyped DEF Setup!MsixSetup, Setup!Program
  <2>4. UNCHANGED <<irq_line, shares>>
    BY <2>1 DEF Setup!MsixSetup
  <2>5. QED BY <1>1, <2>2, <2>3, <2>4
<1>3. CASE enabled # "msix" /\ ~(enabled = "none" /\ card.pin = 0)
  <2>1. Setup!LineSetup(ok)
    BY <1>3 DEF Setup!IrqSetup
  <2>2. chanVec' \in [Setup!ChanSlots -> Nat] /\ userVec' \in [Setup!Users -> Nat]
    BY <1>1, <2>1 DEF Setup!LineSetup
  <2>3. irq_line' = TRUE /\ UNCHANGED msix_irq_line
    BY <2>1 DEF Setup!LineSetup
  <2>4. shares' \in 0 .. MaxShares
    BY <1>1, <2>1, SetupConstants DEF Setup!LineSetup
  <2>5. QED BY <1>1, <2>2, <2>3, <2>4
<1>4. CASE enabled = "none" /\ card.pin = 0
  BY <1>1, <1>4 DEF Setup!IrqSetup
<1>5. QED BY <1>2, <1>3, <1>4

\* A device that holds nothing and asks for its interrupts, with success.
LEMMA IrqSetupHolds ==
  ASSUME SetupTyped, AllEngines, ZeroVectors, at \in {"irqs", "offline"},
         requested = {}, shares = 0, Setup!IrqSetup(TRUE)
  PROVE  IF enabled = "msix"
         THEN /\ requested' = Setup!Wanted /\ shares' = 0
              /\ \A e \in Setup!Counted : /\ msix_irq_line'[e] = Setup!Entry(e)
                                          /\ chanVec'[Setup!Entry(e)] = Setup!Entry(e)
              /\ \A u \in Setup!Users : userVec'[u] = Setup!Entry(<<"user", u>>)
              /\ card.pin <= 1 =>
                   \A s \in Setup!ChanSlots : ~(s < Setup!NEngines) => chanVec'[s] = 0
         ELSE /\ requested' = {} /\ irq_line' /\ shares' = 1
              /\ enabled = "none" =>
                    /\ card.pin > 0
                    /\ \A s \in Setup!ChanSlots : chanVec'[s] = card.pin - 1
                    /\ \A u \in Setup!Users : userVec'[u] = card.pin - 1
              /\ card.pin <= 1 =>
                    /\ \A s \in Setup!ChanSlots : chanVec'[s] = 0
                    /\ \A u \in Setup!Users : userVec'[u] = 0
<1>1. /\ chanVec \in [Setup!ChanSlots -> Nat] /\ userVec \in [Setup!Users -> Nat]
      /\ msix_irq_line \in [Setup!Engines -> Int]
      /\ card.pin \in Nat
      /\ Setup!ChanSlots \subseteq Nat /\ Setup!Users \subseteq Nat
      /\ \A u \in Setup!Users : u < UserMax
  BY CardParts, SetupConstants DEF SetupTyped, Setup!ChanSlots, Setup!Users
<1>2. card.pin <= 1 =>
         /\ \A s \in Setup!ChanSlots : chanVec[s] = 0
         /\ \A u \in Setup!Users : userVec[u] = 0
  BY DEF ZeroVectors
<1>3. CASE enabled = "msix"
  <2>1. Setup!MsixSetup(TRUE)
    BY <1>3 DEF Setup!IrqSetup
  <2>2. /\ requested' = Setup!Wanted /\ shares' = 0
        /\ msix_irq_line' = [e \in Setup!Engines |-> IF <<Setup!Entry(e), e>> \in Setup!Wanted
                                            THEN Setup!Entry(e) ELSE msix_irq_line[e]]
        /\ chanVec' = Setup!Program(chanVec, 0, Setup!NEngines)
        /\ userVec' = Setup!Program(userVec, Setup!NEngines, UserMax)
    BY <2>1 DEF Setup!MsixSetup
  <2>3. /\ Setup!NEngines \in Nat
        /\ \A e \in Setup!Counted :
              /\ e \in Setup!Engines
              /\ Setup!Entry(e) \in 0 .. Setup!NEngines - 1
              /\ Setup!Entry(e) \in Setup!ChanSlots
              /\ <<Setup!Entry(e), e>> \in Setup!Wanted
        /\ \A u \in Setup!Users : Setup!Entry(<<"user", u>>) = Setup!NEngines + u
    BY Numbers DEF Setup!Wanted
  <2>4. \A e \in Setup!Counted : msix_irq_line'[e] = Setup!Entry(e)
    BY <2>2, <2>3
  <2>5. /\ DOMAIN chanVec = Setup!ChanSlots /\ DOMAIN userVec = Setup!Users
        /\ \A s \in Setup!ChanSlots : s \in Nat
        /\ \A u \in Setup!Users : u \in Nat
    BY <1>1
  <2>6. ASSUME NEW e \in Setup!Counted PROVE chanVec'[Setup!Entry(e)] = Setup!Entry(e)
    <3> DEFINE s == Setup!Entry(e)
    <3>0. s \in 0 .. Setup!NEngines - 1 /\ s \in Setup!ChanSlots
      BY <2>3, <2>6
    <3> HIDE DEF s
    <3>1. s \in DOMAIN chanVec /\ s < Setup!NEngines /\ s \in Nat
      BY <2>3, <2>5, <3>0
    <3>2. chanVec'[s] = 0 + s
      BY <2>2, <3>1 DEF Setup!Program
    <3>3. QED BY <3>1, <3>2 DEF s
  <2>7. \A u \in Setup!Users : userVec'[u] = Setup!Entry(<<"user", u>>)
    BY <1>1, <2>2, <2>3, <2>5 DEF Setup!Program
  <2>8. card.pin <= 1 =>
           \A s \in Setup!ChanSlots : ~(s < Setup!NEngines) => chanVec'[s] = 0
    BY <1>2, <2>2, <2>5 DEF Setup!Program
  <2>9. QED BY <1>3, <2>2, <2>4, <2>6, <2>7, <2>8
<1>4. CASE enabled # "msix"
  <2>1. Setup!LineSetup(TRUE) /\ (enabled = "none" => card.pin > 0)
    <3>1. ~(enabled = "none" /\ card.pin = 0)
      BY DEF Setup!IrqSetup
    <3>2. Setup!LineSetup(TRUE)
      BY <1>4, <3>1 DEF Setup!IrqSetup
    <3>3. enabled = "none" => card.pin > 0
      BY <1>1, <3>1
    <3>4. QED BY <3>2, <3>3, Zenon
  <2>2. requested' = {} /\ irq_line' /\ shares' = 1
    BY <2>1 DEF Setup!LineSetup
  <2>3. CASE enabled = "none" /\ card.pin > 1
    <3>1. /\ chanVec' = [s \in Setup!ChanSlots |-> card.pin - 1]
          /\ userVec' = [u \in Setup!Users |-> card.pin - 1]
      BY <2>1, <2>3 DEF Setup!LineSetup
    <3>2. ~(card.pin <= 1)
      BY <1>1, <2>3
    <3>3. QED BY <1>4, <2>1, <2>2, <2>3, <3>1, <3>2
  <2>4. CASE ~(enabled = "none" /\ card.pin > 1)
    <3>1. UNCHANGED <<chanVec, userVec>>
      BY <2>1, <2>4 DEF Setup!LineSetup
    <3>2. enabled = "none" => card.pin = 1
      BY <1>1, <2>1, <2>4
    <3>3. QED BY <1>2, <1>4, <2>1, <2>2, <3>1, <3>2
  <2>5. QED BY <2>3, <2>4
<1>5. QED BY <1>3, <1>4

LEMMA IrqTeardownTypes ==
  ASSUME SetupTyped, Setup!IrqTeardown
  PROVE  /\ chanVec' \in [Setup!ChanSlots -> Nat] /\ userVec' \in [Setup!Users -> Nat]
         /\ astray' \in BOOLEAN /\ shares' \in 0 .. MaxShares
<1>1. CASE enabled = "msix"
  BY <1>1 DEF SetupTyped, Setup!IrqTeardown, Setup!Clear
<1>2. CASE enabled # "msix"
  <2>1. UNCHANGED <<chanVec, userVec>>
    BY <1>2 DEF Setup!IrqTeardown
  <2>2. shares' \in 0 .. MaxShares /\ astray' \in BOOLEAN
    <3>1. CASE irq_line
      BY <1>2, <3>1, SetupConstants DEF SetupTyped, Setup!IrqTeardown
    <3>2. CASE ~irq_line
      BY <1>2, <3>2 DEF SetupTyped, Setup!IrqTeardown
    <3>3. QED BY <3>1, <3>2
  <2>3. QED BY <2>1, <2>2 DEF SetupTyped
<1>3. QED BY <1>1, <1>2

\* A running device that gives its interrupts back has given back what it holds.
LEMMA IrqTeardownHolds ==
  ASSUME SetupTyped, AllEngines, ZeroVectors, Held, at = "running", ~astray,
         Setup!IrqTeardown
  PROVE  /\ requested' = {} /\ shares' = 0 /\ ~astray'
         /\ card.pin <= 1 => /\ \A s \in Setup!ChanSlots : chanVec'[s] = 0
                             /\ \A u \in Setup!Users : userVec'[u] = 0
<1>1. /\ chanVec \in [Setup!ChanSlots -> Nat] /\ userVec \in [Setup!Users -> Nat]
      /\ Setup!ChanSlots \subseteq Nat /\ Setup!Users \subseteq Nat
      /\ \A u \in Setup!Users : u < UserMax
  BY SetupConstants DEF SetupTyped, Setup!ChanSlots, Setup!Users
<1>2. CASE enabled = "msix"
  <2> DEFINE all == {e \in Setup!Counted :
                       \A k \in 0 .. e[2] : msix_irq_line[<<e[1], k>>] # Setup!Unset}
             given == {<<msix_irq_line[e], e>> : e \in all}
                        \cup {<<Setup!Entry(h), h>> : h \in Setup!UserHandlers}
  <2>1. /\ chanVec' = Setup!Clear(chanVec, Setup!NEngines)
        /\ userVec' = Setup!Clear(userVec, UserMax)
        /\ requested' = requested \ given
        /\ astray' = ~(given \subseteq requested)
        /\ UNCHANGED shares
    BY <1>2 DEF Setup!IrqTeardown
  <2>2. /\ requested = Setup!Wanted /\ shares = 0
        /\ \A e \in Setup!Counted : msix_irq_line[e] = Setup!Entry(e)
    BY <1>2 DEF Held
  <2>3. all = Setup!Counted
    <3>1. ASSUME NEW e \in Setup!Counted, NEW k \in 0 .. e[2]
          PROVE  msix_irq_line[<<e[1], k>>] # Setup!Unset
      <4>1. <<e[1], k>> \in Setup!Counted
        BY <3>1, SetupConstants DEF SetupTyped, Setup!Counted, Setup!Engines
      <4>2. msix_irq_line[<<e[1], k>>] = Setup!Entry(<<e[1], k>>)
        BY <2>2, <4>1
      <4>3. Setup!Entry(<<e[1], k>>) \in 0 .. Setup!NEngines - 1 /\ Setup!NEngines \in Nat
        BY <4>1, Numbers
      <4> DEFINE n == Setup!Entry(<<e[1], k>>)
      <4> HIDE DEF n
      <4>4. QED BY <4>2, <4>3 DEF Setup!Unset
    <3>2. QED BY <3>1
  <2>4. given = Setup!Wanted
    <3> HIDE DEF all
    <3>1. given = {<<Setup!Entry(e), e>> : e \in Setup!Counted}
                    \cup {<<Setup!Entry(h), h>> : h \in Setup!UserHandlers}
      BY <2>2, <2>3
    <3>2. QED BY <3>1 DEF Setup!Wanted
  <2> HIDE DEF given
  <2>5. requested' = {} /\ shares' = 0 /\ ~astray'
    BY <2>1, <2>2, <2>4
  <2>6. ASSUME card.pin <= 1, NEW s \in Setup!ChanSlots PROVE chanVec'[s] = 0
    <3>1. Setup!Words(Setup!NEngines) \in Nat /\ Setup!NEngines <= Setup!Words(Setup!NEngines)
      BY EntryTyped, WordsEnough
    <3>2. ~(s < Setup!NEngines) => chanVec[s] = 0
      BY <2>6 DEF ZeroVectors
    <3>3. chanVec'[s] = IF s < Setup!Words(Setup!NEngines) THEN 0 ELSE chanVec[s]
      BY <1>1, <2>1 DEF Setup!Clear
    <3>4. s \in Nat /\ Setup!NEngines \in Nat
      BY <1>1, EntryTyped
    <3>5. QED BY <3>1, <3>2, <3>3, <3>4
  <2>7. ASSUME NEW u \in Setup!Users PROVE userVec'[u] = 0
    <3>1. Setup!Words(UserMax) \in Nat /\ UserMax <= Setup!Words(UserMax)
      BY SetupConstants, WordsEnough
    <3>2. userVec'[u] = IF u < Setup!Words(UserMax) THEN 0 ELSE userVec[u]
      BY <1>1, <2>1 DEF Setup!Clear
    <3>3. QED BY <1>1, <3>1, <3>2, SetupConstants
  <2>8. QED BY <2>5, <2>6, <2>7
<1>3. CASE enabled # "msix"
  <2>1. requested = {} /\ irq_line /\ shares = 1
    BY <1>3 DEF Held
  <2>2. requested' = {} /\ UNCHANGED <<chanVec, userVec>>
    BY <1>3, <2>1 DEF Setup!IrqTeardown
  <2>3. shares' = 0
    BY <1>3, <2>1 DEF Setup!IrqTeardown
  <2>4. ~astray'
    <3>1. astray' = (shares = 0)
      BY <1>3, <2>1 DEF Setup!IrqTeardown
    <3>2. shares # 0
      BY <2>1
    <3>3. QED BY <3>1, <3>2, Zenon
  <2>5. QED BY <1>3, <2>2, <2>3, <2>4 DEF ZeroVectors
<1>4. QED BY <1>2, <1>3

\* What the vectors, the counts and the places of the engines depend on.
LEMMA SetupSame ==
  ASSUME UNCHANGED <<card, h2c_channel_max, c2h_channel_max>>
  PROVE  /\ Setup!Counted' = Setup!Counted /\ Setup!NEngines' = Setup!NEngines
         /\ Setup!Wanted' = Setup!Wanted
         /\ \A e : Setup!Number(e)' = Setup!Number(e) /\ Setup!Entry(e)' = Setup!Entry(e)
BY DEF Setup!Counted, Setup!NEngines, Setup!Wanted, Setup!Number, Setup!Entry,
       Setup!UserHandlers

LEMMA OnlineStep == ASSUME SetupInv, ~astray, Setup!Online PROVE SetupInv'
<1>0. /\ SetupTyped /\ at = "irqs" /\ at' = "running"
      /\ Setup!IrqSetup(TRUE) /\ chanEn' = ~poll_mode
      /\ UNCHANGED <<card, userEn, ie, wb, poll_mode, mishap, config_bar, user_bar,
                     bypass_bar, h2c_channel_max, c2h_channel_max, irq_bit, enabled,
                     mask_irq_user, astray>>
  BY DEF SetupInv, Setup!Online, Setup!paramVars, Setup!barVars
<1>1. SetupTyped'
  <2>1. chanEn' \in BOOLEAN
    BY <1>0
  <2>2. QED BY <1>0, <2>1, IrqSetupTypes DEF SetupTyped
<1>2. Setup!RolesRight'
  BY <1>0, RolesSame DEF SetupInv
<1>3. ASSUME mishap' = {} PROVE AsItShould'
  <2>1. /\ NoneYet /\ AllEngines /\ EnginesSet /\ ZeroVectors /\ ~astray
        /\ requested = {} /\ shares = 0 /\ ~userEn /\ ~mask_irq_user
    BY <1>0, <1>3 DEF SetupInv, AsItShould, NoneYet, NotOnline
  <2>2. NoneYet' /\ Nothing' /\ ~astray'
    BY <1>0, <2>1 DEF NoneYet, Nothing, NotOnline
  <2>3. AllEngines' /\ EnginesSet'
    BY <1>0, <2>1, SetupSame DEF AllEngines, EnginesSet
  <2>4. Held' /\ ZeroVectors'
    <3>1. CASE enabled = "msix"
      <4>1. Held'
        BY <1>0, <2>1, <3>1, IrqSetupHolds, SetupSame DEF Held
      <4>2. ZeroVectors'
        BY <1>0, <2>1, <3>1, IrqSetupHolds, SetupSame DEF ZeroVectors
      <4>3. QED BY <4>1, <4>2
    <3>2. CASE enabled # "msix"
      <4>1. Held'
        BY <1>0, <2>1, <3>2, IrqSetupHolds DEF Held
      <4>2. ZeroVectors'
        BY <1>0, <2>1, <3>2, IrqSetupHolds DEF ZeroVectors
      <4>3. QED BY <4>1, <4>2
    <3>3. QED BY <3>1, <3>2
  <2>5. QED BY <2>2, <2>3, <2>4, Zenon DEF AsItShould
<1>4. QED BY <1>1, <1>2, <1>3, Zenon DEF SetupInv

LEMMA IrqSetupFailsStep == ASSUME SetupInv, ~astray, Setup!IrqSetupFails PROVE SetupInv'
<1>0. /\ SetupTyped /\ Setup!Freed /\ Setup!RemoveEngines
      /\ mishap' = mishap \cup {"request"}
      /\ UNCHANGED <<card, chanVec, userVec, chanEn, userEn, poll_mode, requested, shares>>
  BY DEF SetupInv, Setup!IrqSetupFails, Setup!paramVars
<1>1. SetupTyped'
  <2>1. astray' \in BOOLEAN
    BY DEF Setup!IrqSetupFails
  <2>2. mishap' \subseteq {"engine", "request", "unpaired", "polled", "removed"}
    BY <1>0 DEF SetupTyped
  <2>3. QED BY <1>0, <2>1, <2>2, SetupFreed, SetupRemoveEngines DEF SetupTyped
<1>2. Setup!RolesRight'
  BY <1>0, SetupFreed, RolesSame DEF SetupInv
<1>3. mishap' # {}
  BY <1>0
<1>4. QED BY <1>1, <1>2, <1>3, Zenon DEF SetupInv

LEMMA UserEnableStep == ASSUME SetupInv, ~astray, Setup!UserEnable PROVE SetupInv'
<1>0. /\ at = "running" /\ mask_irq_user' = TRUE /\ userEn' = TRUE
      /\ UNCHANGED <<card, chanVec, userVec, chanEn, ie, wb, poll_mode, at, mishap,
                     config_bar, user_bar, bypass_bar, h2c_channel_max, c2h_channel_max,
                     irq_bit, msix_irq_line, enabled, requested, irq_line, shares, astray>>
  BY DEF Setup!UserEnable, Setup!paramVars, Setup!barVars, Setup!engVars
<1>1. SetupTyped'
  BY <1>0 DEF SetupInv, SetupTyped
<1>2. Setup!RolesRight'
  BY <1>0, RolesSame DEF SetupInv
<1>3. ASSUME mishap' = {} PROVE AsItShould'
  <2>1. AllEngines /\ EnginesSet /\ ZeroVectors /\ Held /\ ~astray
    BY <1>0, <1>3 DEF SetupInv, AsItShould
  <2>2. NoneYet' /\ Nothing' /\ ~astray'
    BY <1>0, <2>1 DEF NoneYet, Nothing, NotOnline
  <2>3. AllEngines' /\ EnginesSet'
    BY <1>0, <2>1, SetupSame DEF AllEngines, EnginesSet
  <2>4. Held'
    BY <1>0, <2>1, SetupSame DEF Held
  <2>5. ZeroVectors'
    BY <1>0, <2>1, SetupSame DEF ZeroVectors
  <2>6. QED BY <2>2, <2>3, <2>4, <2>5, Zenon DEF AsItShould
<1>4. QED BY <1>1, <1>2, <1>3, Zenon DEF SetupInv

LEMMA OfflineStep == ASSUME SetupInv, ~astray, Setup!Offline PROVE SetupInv'
<1>0. /\ SetupTyped /\ at \in {"running", "offline"} /\ at' = "offline"
      /\ chanEn' = FALSE /\ userEn' = FALSE /\ Setup!IrqTeardown
      /\ mishap' = mishap \cup (IF at = "offline" THEN {"unpaired"} ELSE {})
                         \cup (IF poll_mode THEN {"polled"} ELSE {})
      /\ UNCHANGED <<card, ie, wb, poll_mode, config_bar, user_bar, bypass_bar,
                     h2c_channel_max, c2h_channel_max, irq_bit, msix_irq_line, enabled, irq_line,
                     mask_irq_user>>
  BY DEF SetupInv, Setup!Offline, Setup!Enable, Setup!paramVars, Setup!barVars, Setup!engVars
<1>1. SetupTyped'
  <2>1. mishap' \subseteq {"engine", "request", "unpaired", "polled", "removed"}
    BY <1>0 DEF SetupTyped
  <2>2. QED BY <1>0, <2>1, IrqTeardownTypes DEF SetupTyped
<1>2. Setup!RolesRight'
  BY <1>0, RolesSame DEF SetupInv
<1>3. ASSUME mishap' = {} PROVE AsItShould'
  <2>1. mishap = {} /\ at = "running" /\ ~poll_mode
    BY <1>0, <1>3
  <2>2. AllEngines /\ ZeroVectors /\ Held
    BY <2>1 DEF SetupInv, AsItShould
  <2>3. /\ requested' = {} /\ shares' = 0 /\ ~astray'
        /\ card.pin <= 1 => /\ \A s \in Setup!ChanSlots : chanVec'[s] = 0
                            /\ \A u \in Setup!Users : userVec'[u] = 0
    BY <1>0, <2>1, <2>2, IrqTeardownHolds
  <2>4. NoneYet' /\ EnginesSet' /\ Held' /\ Nothing' /\ ~astray'
    BY <1>0, <2>1, <2>3 DEF NoneYet, EnginesSet, Held, Nothing, NotOnline
  <2>5. ZeroVectors'
    BY <1>0, <2>3 DEF ZeroVectors
  <2>6. AllEngines'
    BY <1>0, <2>1, <2>2, SetupSame DEF AllEngines
  <2>7. QED BY <2>4, <2>5, <2>6, Zenon DEF AsItShould
<1>4. QED BY <1>1, <1>2, <1>3, Zenon DEF SetupInv

LEMMA CardResetStep == ASSUME SetupInv, ~astray, Setup!CardReset PROVE SetupInv'
<1>0. /\ SetupTyped /\ at = "offline" /\ Setup!ClearRegs
      /\ UNCHANGED <<card, poll_mode, at, mishap, config_bar, user_bar, bypass_bar,
                     h2c_channel_max, c2h_channel_max, irq_bit, msix_irq_line, enabled, requested,
                     irq_line, shares, mask_irq_user, astray>>
  BY DEF SetupInv, Setup!CardReset, Setup!paramVars, Setup!barVars, Setup!engVars,
         Setup!irqVars
<1>1. /\ chanVec' \in [Setup!ChanSlots -> Nat] /\ userVec' \in [Setup!Users -> Nat]
      /\ ie' \in [Setup!Engines -> {"none", "errors", "all"}]
      /\ wb' \in [Setup!Engines -> BOOLEAN]
      /\ chanEn' \in BOOLEAN /\ userEn' \in BOOLEAN
      /\ \A s \in Setup!ChanSlots : chanVec'[s] = 0
      /\ \A u \in Setup!Users : userVec'[u] = 0
  BY <1>0 DEF Setup!ClearRegs, Setup!Enable
<1>2. SetupTyped'
  BY <1>0, <1>1 DEF SetupTyped
<1>3. Setup!RolesRight'
  BY <1>0, RolesSame DEF SetupInv
<1>4. ASSUME mishap' = {} PROVE AsItShould'
  <2>1. AllEngines /\ Nothing /\ ~astray
    BY <1>0, <1>4 DEF SetupInv, AsItShould
  <2>2. NoneYet' /\ EnginesSet' /\ Held' /\ ~astray'
    BY <1>0, <2>1 DEF NoneYet, EnginesSet, Held, NotOnline
  <2>3. Nothing'
    BY <1>0, <2>1 DEF Nothing
  <2>4. ZeroVectors'
    BY <1>1 DEF ZeroVectors
  <2>5. AllEngines'
    BY <1>0, <2>1, SetupSame DEF AllEngines
  <2>6. QED BY <2>2, <2>3, <2>4, <2>5, Zenon DEF AsItShould
<1>5. QED BY <1>2, <1>3, <1>4, Zenon DEF SetupInv

LEMMA CloseStep == ASSUME SetupInv, ~astray, Setup!Close PROVE SetupInv'
<1>0. /\ SetupTyped /\ at \in {"running", "offline"}
      /\ Setup!IrqTeardown /\ Setup!RemoveEngines /\ Setup!Freed
      /\ mishap' = mishap \cup (IF at = "offline" THEN {"removed"} ELSE {})
      /\ chanEn' = FALSE /\ userEn' = FALSE
      /\ UNCHANGED <<card, poll_mode>>
  BY DEF SetupInv, Setup!Close, Setup!Enable, Setup!paramVars
<1>1. SetupTyped'
  <2>1. mishap' \subseteq {"engine", "request", "unpaired", "polled", "removed"}
    BY <1>0 DEF SetupTyped
  <2>2. QED BY <1>0, <2>1, IrqTeardownTypes, SetupFreed, SetupRemoveEngines DEF SetupTyped
<1>2. Setup!RolesRight'
  BY <1>0, SetupFreed, RolesSame DEF SetupInv
<1>3. ASSUME mishap' = {} PROVE AsItShould'
  <2>1. mishap = {} /\ at = "running"
    BY <1>0, <1>3
  <2>2. AllEngines /\ ZeroVectors /\ Held
    BY <2>1 DEF SetupInv, AsItShould
  <2>3. /\ requested' = {} /\ shares' = 0 /\ ~astray'
        /\ card.pin <= 1 => /\ \A s \in Setup!ChanSlots : chanVec'[s] = 0
                            /\ \A u \in Setup!Users : userVec'[u] = 0
    BY <1>0, <2>1, <2>2, IrqTeardownHolds
  <2>4. /\ at' = "closed" /\ ~irq_line' /\ ~mask_irq_user'
        /\ \A e \in Setup!Engines : msix_irq_line'[e] = Setup!Unset
    BY <1>0, SetupFreed
  <2>5. NoneYet' /\ ~astray'
    BY <1>0, <2>3, <2>4 DEF NoneYet
  <2>6. AllEngines' /\ EnginesSet' /\ Held' /\ Nothing'
    BY <2>4 DEF AllEngines, EnginesSet, Held, Nothing
  <2>7. ZeroVectors'
    BY <1>0, <2>3 DEF ZeroVectors
  <2>8. QED BY <2>5, <2>6, <2>7, Zenon DEF AsItShould
<1>4. QED BY <1>1, <1>2, <1>3, Zenon DEF SetupInv

LEMMA BackOnlineStep == ASSUME SetupInv, ~astray, Setup!BackOnline PROVE SetupInv'
<1>0. /\ SetupTyped /\ at \in {"running", "offline"} /\ at' = "running"
      /\ Setup!InitRegs(Setup!Counted)
      /\ UNCHANGED <<card, poll_mode, config_bar, user_bar, bypass_bar, h2c_channel_max,
                     c2h_channel_max, irq_bit, enabled, mask_irq_user, astray>>
  BY DEF SetupInv, Setup!BackOnline, Setup!paramVars, Setup!barVars
<1>1. /\ ie' \in [Setup!Engines -> {"none", "errors", "all"}]
      /\ wb' \in [Setup!Engines -> BOOLEAN]
      /\ \A e \in Setup!Counted : /\ ie'[e] = (IF poll_mode THEN "errors" ELSE "all")
                                  /\ poll_mode => wb'[e]
  <2>1. Setup!Counted \in SUBSET Setup!Engines
    BY DEF Setup!Counted
  <2>2. QED BY <1>0, <2>1, SetupInitRegs
<1>2. Setup!RolesRight'
  BY <1>0, RolesSame DEF SetupInv
<1>3. EnginesSet'
  BY <1>0, <1>1, SetupSame DEF EnginesSet
<1>4. NoneYet' /\ Nothing'
  BY <1>0 DEF NoneYet, Nothing, NotOnline
<1>5. CASE poll_mode
  <2>1. UNCHANGED <<chanVec, userVec, chanEn, userEn, requested, msix_irq_line, irq_line, shares,
                    mishap>>
    BY <1>5 DEF Setup!BackOnline
  <2>2. SetupTyped'
    BY <1>0, <1>1, <2>1 DEF SetupTyped
  <2>3. ASSUME mishap' = {} PROVE AsItShould'
    <3>1. AllEngines /\ ZeroVectors /\ Held /\ Nothing /\ ~astray
      BY <2>1, <2>3 DEF SetupInv, AsItShould
    <3>2. at = "running"
      BY <1>0, <1>5, <3>1 DEF Nothing
    <3>3. AllEngines'
      BY <1>0, <3>1, <3>2, SetupSame DEF AllEngines
    <3>4. Held'
      BY <1>0, <2>1, <3>1, <3>2, SetupSame DEF Held
    <3>5. ZeroVectors'
      BY <1>0, <2>1, <3>1, <3>2, SetupSame DEF ZeroVectors
    <3>6. QED BY <1>0, <1>3, <1>4, <3>1, <3>3, <3>4, <3>5, Zenon DEF AsItShould
  <2>4. QED BY <1>2, <2>2, <2>3, Zenon DEF SetupInv
<1>6. CASE ~poll_mode
  <2>1. PICK ok \in BOOLEAN :
          /\ Setup!IrqSetup(ok)
          /\ mishap' = mishap \cup (IF ok THEN {} ELSE {"request"})
                              \cup (IF at = "running" THEN {"unpaired"} ELSE {})
    BY <1>6 DEF Setup!BackOnline
  <2>2. chanEn' = TRUE /\ userEn' = (userEn \/ mask_irq_user)
    BY <1>6 DEF Setup!BackOnline, Setup!Enable
  <2>3. SetupTyped'
    <3>1. chanEn' \in BOOLEAN /\ userEn' \in BOOLEAN
      BY <2>2
    <3>2. mishap' \subseteq {"engine", "request", "unpaired", "polled", "removed"}
      BY <1>0, <2>1 DEF SetupTyped
    <3>3. QED BY <1>0, <1>1, <2>1, <3>1, <3>2, IrqSetupTypes DEF SetupTyped
  <2>4. ASSUME mishap' = {} PROVE AsItShould'
    <3>1. mishap = {} /\ ok = TRUE /\ at = "offline"
      BY <1>0, <2>1, <2>4
    <3>2. /\ AllEngines /\ ZeroVectors /\ requested = {} /\ shares = 0 /\ ~astray
      BY <3>1 DEF SetupInv, AsItShould, Nothing
    <3>3. Setup!IrqSetup(TRUE)
      BY <2>1, <3>1
    <3>4. AllEngines'
      BY <1>0, <3>1, <3>2, SetupSame DEF AllEngines
    <3>5. (chanEn' = ~poll_mode') /\ (mask_irq_user' => userEn')
      BY <1>0, <1>6, <2>2
    <3>6. Held' /\ ZeroVectors'
      <4>1. CASE enabled = "msix"
        <5>1. Held'
          BY <1>0, <3>1, <3>2, <3>3, <3>5, <4>1, IrqSetupHolds, SetupSame DEF Held
        <5>2. ZeroVectors'
          BY <1>0, <3>1, <3>2, <3>3, <4>1, IrqSetupHolds, SetupSame DEF ZeroVectors
        <5>3. QED BY <5>1, <5>2
      <4>2. CASE enabled # "msix"
        <5>1. Held'
          BY <1>0, <3>1, <3>2, <3>3, <3>5, <4>2, IrqSetupHolds DEF Held
        <5>2. ZeroVectors'
          BY <1>0, <3>1, <3>2, <3>3, <4>2, IrqSetupHolds DEF ZeroVectors
        <5>3. QED BY <5>1, <5>2
      <4>3. QED BY <4>1, <4>2
    <3>7. QED BY <1>0, <1>3, <1>4, <3>2, <3>4, <3>6, Zenon DEF AsItShould
  <2>5. QED BY <1>2, <2>3, <2>4, Zenon DEF SetupInv
<1>7. QED BY <1>5, <1>6

LEMMA SetupStutters == ASSUME SetupInv, UNCHANGED setupVars PROVE SetupInv'
<1>0. UNCHANGED <<card, chanVec, userVec, chanEn, userEn, ie, wb, poll_mode, at, mishap,
                  config_bar, user_bar, bypass_bar, h2c_channel_max, c2h_channel_max,
                  irq_bit, msix_irq_line, enabled, requested, irq_line, shares, mask_irq_user,
                  astray>>
  BY DEF setupVars
<1>1. SetupTyped'
  BY <1>0 DEF SetupInv, SetupTyped
<1>2. Setup!RolesRight'
  BY <1>0, RolesSame DEF SetupInv
<1>3. ASSUME mishap' = {} PROVE AsItShould'
  <2>1. AsItShould
    BY <1>0, <1>3 DEF SetupInv
  <2>2. NoneYet' /\ Nothing' /\ ~astray'
    BY <1>0, <2>1 DEF AsItShould, NoneYet, Nothing
  <2>3. AllEngines' /\ EnginesSet'
    BY <1>0, <2>1, SetupSame DEF AsItShould, AllEngines, EnginesSet
  <2>4. ZeroVectors'
    BY <1>0, <2>1, SetupSame DEF AsItShould, ZeroVectors
  <2>5. Held'
    BY <1>0, <2>1, SetupSame DEF AsItShould, Held
  <2>6. QED BY <2>2, <2>3, <2>4, <2>5, Zenon DEF AsItShould
<1>4. QED BY <1>1, <1>2, <1>3, Zenon DEF SetupInv

LEMMA SetupStep == SetupInv /\ [NextCard]_<<use, lifeVars, setupVars, poolVars>> => SetupInv'
<1>1. SUFFICES ASSUME SetupInv, [NextCard]_<<use, lifeVars, setupVars, poolVars>>
               PROVE  SetupInv'
  OBVIOUS
<1>2. CASE Setup!Next
  BY <1>1, <1>2, OpenStep, MapBarsStep, OpenFailsStep, ProbeEnginesStep, EnableIrqsStep,
     EnableIrqsFailsStep, OnlineStep, IrqSetupFailsStep, UserEnableStep, OfflineStep,
     CardResetStep, BackOnlineStep, CloseStep, Zenon
  DEF Setup!Next
<1>3. CASE UNCHANGED setupVars
  BY <1>1, <1>3, SetupStutters
<1>4. QED BY <1>1, <1>2, <1>3, Zenon DEF NextCard

LEMMA SetupInit == InitCard => SetupInv
<1> SUFFICES ASSUME Setup!Init PROVE SetupInv
  BY DEF InitCard
<1>1. SetupTyped
  <2>1. 0 \in 0 .. MaxChannels /\ 0 \in 0 .. MaxShares
    BY SetupConstants
  <2>2. /\ card \in Setup!Cards
        /\ chanVec \in [Setup!ChanSlots -> Nat] /\ userVec \in [Setup!Users -> Nat]
        /\ ie \in [Setup!Engines -> {"none", "errors", "all"}]
        /\ wb \in [Setup!Engines -> BOOLEAN]
        /\ irq_bit \in [Setup!Engines -> Int] /\ msix_irq_line \in [Setup!Engines -> Int]
    BY DEF Setup!Init, Setup!Unset
  <2>3. /\ at = "closed" /\ mishap = {} /\ h2c_channel_max = 0 /\ c2h_channel_max = 0
        /\ enabled = "none" /\ shares = 0
    BY DEF Setup!Init
  <2>4. /\ chanEn = FALSE /\ userEn = FALSE /\ poll_mode = FALSE /\ irq_line = FALSE
        /\ mask_irq_user = FALSE /\ astray = FALSE
    BY DEF Setup!Init
  <2>5. QED BY <2>1, <2>2, <2>3, <2>4 DEF SetupTyped
<1>2. Setup!RolesRight
  BY DEF Setup!RolesRight, Setup!Init
<1>3. AsItShould
  BY DEF AsItShould, NoneYet, AllEngines, EnginesSet, ZeroVectors, Held, Nothing, NotOnline,
         Setup!Init
<1>4. QED BY <1>1, <1>2, <1>3 DEF SetupInv

\* A card is known for what it is, its interrupts arrive, and are given back
\* (identify_bars, irq_setup, xdma_device_online), whatever the card is like.
THEOREM SetupIsRight == SpecCard => []SetupHolds
<1>1. SetupInv => SetupHolds
  BY SetupMeans DEF SetupHolds
<1>2. QED BY <1>1, SetupInit, SetupStep, PTL DEF SpecCard
-----------------------------------------------------------------------------
\* The list of devices and the threads they share (ThreadPool).

PoolTyped ==
    /\ where \in [Devices -> Pool!Where] /\ idx \in [Devices -> 0 .. MaxIdx]
    /\ alive \in [Devices -> SUBSET (1 .. MaxEngines)] /\ xdev_list \in Seq(Devices)
    /\ polled \in BOOLEAN /\ cs_threads \in BOOLEAN
    /\ thread_cnt \in {0, Pool!Most} /\ tasks \subseteq Pool!Threads
    /\ work_list \in [Pool!Threads -> SUBSET Pool!Engines]
    /\ work_cnt \in [Pool!Threads -> Nat]
    /\ cmplthp \in [Pool!Engines -> Pool!Threads \cup {None}]
    /\ look \in [Devices -> 0 .. Pool!Most] /\ best \in [Devices -> 0 .. Pool!Most]
    /\ v \in [Devices -> Nat] /\ undisturbed \in [Devices -> BOOLEAN]
    /\ trouble \subseteq {"strays", "crash", "switched"}

\* The numbers of the devices grow along the list, so no device is on it twice.
ListInOrder ==
    /\ \A i, j \in 1 .. Len(xdev_list) :
           i < j => idx[xdev_list[i]] < idx[xdev_list[j]]
    /\ \A d \in Devices : where[d] # "closed" <=> \E i \in 1 .. Len(xdev_list) : xdev_list[i] = d

\* The engines of a device are set up one after the other, and all destroyed.
EnginesInOrder ==
    \A d \in Devices :
        /\ where[d] = "closed" => alive[d] = {}
        /\ where[d] \in {"probe", "scan"} => \E n \in 0 .. MaxEngines : alive[d] = 1 .. n
        /\ where[d] = "scan" => alive[d] # {}

\* The threads' lists hold the engines that name the thread, also when poll_mode was
\* written under a device, ...
Listed ==
    /\ \A t \in Pool!Threads :
        /\ work_list[t] = {e \in Pool!Engines : cmplthp[e] = t}
        /\ IsFiniteSet(work_list[t]) /\ work_cnt[t] = Cardinality(work_list[t])
    /\ \A e \in Pool!Engines : cmplthp[e] # None =>
        /\ e \in Pool!Served /\ cmplthp[e] < thread_cnt
    /\ cs_threads <=> thread_cnt > 0
    /\ tasks = 0 .. thread_cnt - 1

\* ... and a search that is not disturbed has seen no idle thread but the one it
\* is about to take.
Searches ==
    \A d \in Devices : where[d] = "scan" =>
        /\ look[d] <= thread_cnt
        /\ look[d] = 0 => best[d] = thread_cnt
        /\ look[d] > 0 =>
            /\ best[d] < thread_cnt
            /\ undisturbed[d] =>
                /\ v[d] = work_cnt[0]
                /\ \/ work_cnt[best[d]] = 0 /\ (best[d] = 0 \/ look[d] = thread_cnt)
                   \/ \A t \in 0 .. look[d] - 1 : work_cnt[t] > 0

\* As long as poll_mode stays what it was.
Polled ==
    /\ cs_threads <=> polled /\ xdev_list # <<>>
    /\ polled => \A e \in Pool!Served : cmplthp[e] # None

PoolInv ==
    /\ PoolTyped /\ ListInOrder /\ EnginesInOrder
    /\ trouble \subseteq {"switched"} => Listed /\ Searches
    /\ trouble = {} => Polled

LEMMA PoolConstants ==
  /\ Pool!Most \in Nat \ {0} /\ MaxEngines \in Nat /\ MaxIdx \in Nat
  /\ Pool!Threads = 0 .. Pool!Most - 1 /\ None \notin Nat
BY CardsAssumption DEF Pool!PoolAssumption, Pool!Most, Pool!Threads

LEMMA PoolFinite == \A S : Pool!Cardinality(S) = Cardinality(S) /\ Pool!IsFiniteSet(S) = IsFiniteSet(S)
BY DEF Pool!Cardinality, Cardinality, Pool!IsFiniteSet, IsFiniteSet

\* What is left of a list without its i-th entry.
LEMMA RemoveAtProperties ==
  ASSUME NEW S, NEW s \in Seq(S), NEW i \in 1 .. Len(s)
  PROVE  /\ Pool!RemoveAt(s, i) \in Seq(S)
         /\ Len(Pool!RemoveAt(s, i)) = Len(s) - 1
         /\ \A j \in 1 .. Len(s) - 1 :
                Pool!RemoveAt(s, i)[j] = IF j < i THEN s[j] ELSE s[j + 1]
<1> DEFINE a == SubSeq(s, 1, i - 1)
           b == SubSeq(s, i + 1, Len(s))
<1>1. a \in Seq(S) /\ Len(a) = i - 1 /\ \A j \in 1 .. i - 1 : a[j] = s[j]
  BY SubSeqProperties
<1>2. b \in Seq(S) /\ Len(b) = Len(s) - i /\ \A j \in 1 .. Len(s) - i : b[j] = s[i + j]
  BY SubSeqProperties
<1> HIDE DEF a, b
<1>3. /\ a \o b \in Seq(S) /\ Len(a \o b) = Len(s) - 1
      /\ \A j \in 1 .. Len(s) - 1 : (a \o b)[j] = IF j < i THEN a[j] ELSE b[j - (i - 1)]
  <2>1. /\ a \o b \in Seq(S) /\ Len(a \o b) = Len(a) + Len(b)
        /\ \A j \in 1 .. Len(a) + Len(b) :
               (a \o b)[j] = IF j <= Len(a) THEN a[j] ELSE b[j - Len(a)]
    BY <1>1, <1>2, ConcatProperties
  <2>2. Len(a) = i - 1 /\ Len(b) = Len(s) - i /\ Len(s) \in Nat /\ i \in 1 .. Len(s)
    BY <1>1, <1>2
  <2>3. QED BY <2>1, <2>2
<1>4. Pool!RemoveAt(s, i) = a \o b
  BY DEF Pool!RemoveAt, a, b
<1>5. ASSUME NEW j \in 1 .. Len(s) - 1
      PROVE  (a \o b)[j] = IF j < i THEN s[j] ELSE s[j + 1]
  <2>1. CASE j < i
    BY <1>1, <1>3, <2>1
  <2>2. CASE ~(j < i)
    BY <1>2, <1>3, <2>2
  <2>3. QED BY <2>1, <2>2
<1>6. QED BY <1>3, <1>4, <1>5

\* A step that leaves the threads, the list and the engines alone.
LEMMA ServedSame ==
  ASSUME EnginesInOrder, UNCHANGED alive,
         \A d \in Devices : where[d] = "scan" <=> where'[d] = "scan"
  PROVE  Pool!Served' = Pool!Served
BY DEF Pool!Served, Pool!Engines

\* How many engines a device has that is being opened.
LEMMA EngineCount ==
  ASSUME PoolTyped, EnginesInOrder, NEW d \in Devices, where[d] \in {"probe", "scan"}
  PROVE  /\ Cardinality(alive[d]) \in 0 .. MaxEngines
         /\ alive[d] = 1 .. Cardinality(alive[d])
         /\ where[d] = "scan" => Cardinality(alive[d]) >= 1
<1>1. PICK m \in 0 .. MaxEngines : alive[d] = 1 .. m
  BY DEF EnginesInOrder
<1>2. Cardinality(1 .. m) = m
  BY <1>1, FS_Interval, PoolConstants
<1>3. where[d] = "scan" => m >= 1
  BY <1>1 DEF EnginesInOrder
<1>4. QED BY <1>1, <1>2, <1>3

LEMMA EngineInitStep ==
  ASSUME PoolInv, trouble \subseteq {"switched"}, NEW d \in Devices, Pool!EngineInit(d)
  PROVE  PoolInv'
<1> DEFINE n == Cardinality(alive[d])
<1>1. /\ where[d] = "probe" /\ where' = [where EXCEPT ![d] = IF polled THEN "scan" ELSE "probe"]
      /\ n < MaxEngines /\ alive' = [alive EXCEPT ![d] = @ \cup {n + 1}]
      /\ look' = [look EXCEPT ![d] = 0] /\ v' = [v EXCEPT ![d] = 0]
      /\ best' = [best EXCEPT ![d] = thread_cnt]
      /\ undisturbed' = [undisturbed EXCEPT ![d] = TRUE]
      /\ UNCHANGED <<polled, idx, xdev_list, cs_threads, thread_cnt, tasks, work_list,
                     work_cnt, cmplthp, trouble>>
  BY PoolFinite DEF Pool!EngineInit, Pool!At, Pool!poolVars
<1>2. /\ PoolTyped /\ ListInOrder /\ EnginesInOrder /\ Listed /\ Searches
      /\ trouble = {} => Polled
  BY DEF PoolInv
<1>3. n \in 0 .. MaxEngines /\ alive[d] = 1 .. n
  BY <1>1, <1>2, EngineCount
<1> HIDE DEF n
<1>4. /\ alive'[d] = 1 .. n + 1 /\ where'[d] = IF polled THEN "scan" ELSE "probe"
      /\ \A o \in Devices \ {d} : alive'[o] = alive[o] /\ where'[o] = where[o]
  BY <1>1, <1>2, <1>3 DEF PoolTyped
<1>5. n + 1 \in 0 .. MaxEngines /\ Cardinality(alive'[d]) = n + 1
  BY <1>1, <1>3, <1>4, FS_Interval, PoolConstants
<1>6. PoolTyped'
  <2>1. where' \in [Devices -> Pool!Where]
    BY <1>1, <1>2 DEF PoolTyped, Pool!Where
  <2>4. alive' \in [Devices -> SUBSET (1 .. MaxEngines)]
    BY <1>1, <1>2, <1>3, <1>5, PoolConstants DEF PoolTyped
  <2>2. /\ look' \in [Devices -> 0 .. Pool!Most] /\ best' \in [Devices -> 0 .. Pool!Most]
        /\ v' \in [Devices -> Nat] /\ undisturbed' \in [Devices -> BOOLEAN]
    BY <1>1, <1>2, PoolConstants DEF PoolTyped
  <2>3. QED BY <1>1, <1>2, <2>1, <2>2, <2>4 DEF PoolTyped
<1>7. ListInOrder'
  BY <1>1, <1>2, <1>4 DEF ListInOrder
<1>8. EnginesInOrder'
  <2>1. n + 1 \in 0 .. MaxEngines /\ 1 \in 1 .. n + 1
    BY <1>3, <1>5
  <2>2. ASSUME NEW o \in Devices
        PROVE  /\ where'[o] = "closed" => alive'[o] = {}
               /\ where'[o] \in {"probe", "scan"} => \E m \in 0 .. MaxEngines : alive'[o] = 1 .. m
               /\ where'[o] = "scan" => alive'[o] # {}
    <3>1. CASE o = d
      BY <1>4, <2>1, <3>1
    <3>2. CASE o # d
      BY <1>2, <1>4, <3>2 DEF EnginesInOrder
    <3>3. QED BY <3>1, <3>2
  <2>3. QED BY <2>2 DEF EnginesInOrder
<1>9. Pool!Served \subseteq Pool!Served' /\ (polled => Pool!Served' = Pool!Served)
  <2>1. ASSUME NEW e \in Pool!Engines
        PROVE  /\ e \in Pool!Served => e \in Pool!Served'
               /\ polled /\ e \in Pool!Served' => e \in Pool!Served
    <3>1. e[1] \in Devices /\ e[2] \in 1 .. MaxEngines
      BY DEF Pool!Engines
    <3>2. CASE e[1] # d
      BY <1>4, <3>1, <3>2, PoolFinite DEF Pool!Served
    <3>3. CASE e[1] = d
      <4>1. e \in Pool!Served <=> e[2] \in 1 .. n
        BY <1>1, <1>3, <3>3 DEF Pool!Served
      <4>2. e \in Pool!Served' <=> e[2] \in 1 .. n + 1 /\ (polled => e[2] < n + 1)
        BY <1>4, <1>5, <3>3, PoolFinite DEF Pool!Served
      <4>3. QED BY <1>3, <3>1, <4>1, <4>2
    <3>4. QED BY <3>2, <3>3
  <2>2. QED BY <2>1 DEF Pool!Served
<1>10. Listed'
  BY <1>1, <1>2, <1>9 DEF Listed
<1>11. Searches'
  <2>1. look'[d] = 0 /\ best'[d] = thread_cnt /\ thread_cnt >= 0
    BY <1>1, <1>2, PoolConstants DEF PoolTyped
  <2>2. \A o \in Devices \ {d} : /\ look'[o] = look[o] /\ best'[o] = best[o] /\ v'[o] = v[o]
                                 /\ undisturbed'[o] = undisturbed[o]
    BY <1>1, <1>2 DEF PoolTyped
  <2>3. QED BY <1>1, <1>2, <1>4, <2>1, <2>2 DEF Searches
<1>12. trouble' = {} => Polled'
  BY <1>1, <1>2, <1>9 DEF Polled
<1>13. QED BY <1>6, <1>7, <1>8, <1>10, <1>11, <1>12 DEF PoolInv

LEMMA ListAddStep ==
  ASSUME PoolInv, trouble \subseteq {"switched"}, NEW d \in Devices, Pool!ListAdd(d)
  PROVE  PoolInv'
<1> DEFINE n == IF xdev_list = <<>> THEN 0 ELSE idx[xdev_list[Len(xdev_list)]] + 1
<1>1. /\ where[d] = "closed" /\ where' = [where EXCEPT ![d] = "probe"]
      /\ n <= MaxIdx /\ idx' = [idx EXCEPT ![d] = n] /\ xdev_list' = Append(xdev_list, d)
      /\ UNCHANGED <<polled, switches, alive, look, v, best, undisturbed, trouble, cmplthp>>
  BY DEF Pool!ListAdd, Pool!At, Pool!Last, Pool!poolVars, Pool!scanVars
<1> HIDE DEF n
<1>2. \/ /\ xdev_list = <<>> /\ polled /\ thread_cnt = 0 /\ cs_threads' = TRUE
         /\ thread_cnt' = Pool!Most /\ tasks' = Pool!Threads
         /\ work_list' = [t \in Pool!Threads |-> {}]
         /\ work_cnt' = [t \in Pool!Threads |-> 0]
      \/ /\ ~(xdev_list = <<>> /\ polled /\ thread_cnt = 0)
         /\ UNCHANGED <<cs_threads, thread_cnt, tasks, work_list, work_cnt>>
  BY DEF Pool!ListAdd, Pool!Creates, Pool!poolVars
<1>3. /\ PoolTyped /\ ListInOrder /\ EnginesInOrder /\ Listed /\ Searches
      /\ trouble = {} => Polled
  BY DEF PoolInv
<1>4. /\ Len(xdev_list) \in Nat /\ \A i \in 1 .. Len(xdev_list) : xdev_list[i] \in Devices \ {d}
      /\ xdev_list = <<>> <=> Len(xdev_list) = 0
  <2>1. /\ Len(xdev_list) \in Nat /\ \A i \in 1 .. Len(xdev_list) : xdev_list[i] \in Devices
        /\ xdev_list = <<>> <=> Len(xdev_list) = 0
    BY <1>3 DEF PoolTyped
  <2>2. \A i \in 1 .. Len(xdev_list) : xdev_list[i] # d
    BY <1>1, <1>3 DEF ListInOrder
  <2>3. QED BY <2>1, <2>2
<1>5. n \in 0 .. MaxIdx /\ \A i \in 1 .. Len(xdev_list) : idx[xdev_list[i]] \in Nat
  <2>1. \A o \in Devices : idx[o] \in Nat
    BY <1>3 DEF PoolTyped
  <2>2. \A i \in 1 .. Len(xdev_list) : idx[xdev_list[i]] \in Nat
    BY <1>4, <2>1
  <2>3. n \in Nat
    BY <1>4, <2>2 DEF n
  <2>4. QED BY <1>1, <2>2, <2>3, PoolConstants
<1>14. /\ xdev_list' \in Seq(Devices) /\ Len(xdev_list') = Len(xdev_list) + 1
       /\ xdev_list'[Len(xdev_list) + 1] = d
       /\ \A i \in 1 .. Len(xdev_list) : xdev_list'[i] = xdev_list[i]
  BY <1>1, <1>3 DEF PoolTyped
<1>15. /\ idx'[d] = n /\ where'[d] = "probe"
       /\ \A o \in Devices \ {d} : idx'[o] = idx[o] /\ where'[o] = where[o]
  BY <1>1, <1>3 DEF PoolTyped
<1>6. PoolTyped'
  <2>1. idx' \in [Devices -> 0 .. MaxIdx] /\ where' \in [Devices -> Pool!Where]
    BY <1>1, <1>3, <1>5 DEF PoolTyped, Pool!Where
  <2>2. /\ cs_threads' \in BOOLEAN /\ thread_cnt' \in {0, Pool!Most}
        /\ tasks' \subseteq Pool!Threads
        /\ work_list' \in [Pool!Threads -> SUBSET Pool!Engines]
        /\ work_cnt' \in [Pool!Threads -> Nat]
    <3>1. CASE xdev_list = <<>> /\ polled /\ thread_cnt = 0
      BY <1>2, <3>1
    <3>2. CASE ~(xdev_list = <<>> /\ polled /\ thread_cnt = 0)
      BY <1>2, <1>3, <3>2 DEF PoolTyped
    <3>3. QED BY <3>1, <3>2
  <2>3. QED BY <1>1, <1>3, <1>14, <2>1, <2>2 DEF PoolTyped
<1>7. ListInOrder'
  <2>1. ASSUME NEW i \in 1 .. Len(xdev_list'), NEW j \in 1 .. Len(xdev_list'), i < j
        PROVE  idx'[xdev_list'[i]] < idx'[xdev_list'[j]]
    <3>1. i \in 1 .. Len(xdev_list) /\ idx'[xdev_list'[i]] = idx[xdev_list[i]]
      BY <1>4, <1>14, <1>15, <2>1
    <3>2. CASE j <= Len(xdev_list)
      BY <1>3, <1>4, <1>14, <1>15, <2>1, <3>1, <3>2 DEF ListInOrder
    <3>3. CASE j = Len(xdev_list) + 1
      <4>1. Len(xdev_list) \in 1 .. Len(xdev_list) /\ xdev_list # <<>>
        BY <1>4, <3>1
      <4>2. idx[xdev_list[i]] <= idx[xdev_list[Len(xdev_list)]]
        <5>1. CASE i < Len(xdev_list)
          BY <1>3, <1>5, <3>1, <4>1, <5>1 DEF ListInOrder
        <5>2. CASE i = Len(xdev_list)
          BY <1>5, <3>1, <5>2
        <5>3. QED BY <1>4, <3>1, <5>1, <5>2
      <4>3. idx'[xdev_list'[j]] = idx[xdev_list[Len(xdev_list)]] + 1
        BY <1>14, <1>15, <3>3, <4>1 DEF n
      <4>4. QED BY <1>5, <3>1, <4>1, <4>2, <4>3
    <3>4. QED BY <1>4, <1>14, <2>1, <3>2, <3>3
  <2>2. ASSUME NEW o \in Devices
        PROVE  where'[o] # "closed" <=> \E i \in 1 .. Len(xdev_list') : xdev_list'[i] = o
    <3>1. CASE o = d
      BY <1>4, <1>14, <1>15, <3>1
    <3>2. CASE o # d
      BY <1>3, <1>4, <1>14, <1>15, <3>2 DEF ListInOrder
    <3>3. QED BY <3>1, <3>2
  <2>3. QED BY <2>1, <2>2 DEF ListInOrder
<1>8. EnginesInOrder'
  <2>1. alive[d] = {} /\ 1 .. 0 = {} /\ 0 \in 0 .. MaxEngines
    BY <1>1, <1>3, PoolConstants DEF EnginesInOrder
  <2>2. ASSUME NEW o \in Devices
        PROVE  /\ where'[o] = "closed" => alive'[o] = {}
               /\ where'[o] \in {"probe", "scan"} => \E m \in 0 .. MaxEngines : alive'[o] = 1 .. m
               /\ where'[o] = "scan" => alive'[o] # {}
    <3>1. CASE o = d
      BY <1>1, <1>15, <2>1, <3>1
    <3>2. CASE o # d
      BY <1>1, <1>3, <1>15, <3>2 DEF EnginesInOrder
    <3>3. QED BY <3>1, <3>2
  <2>3. QED BY <2>2 DEF EnginesInOrder
<1>9. Pool!Served' = Pool!Served
  BY <1>1, <1>3 DEF Pool!Served, PoolTyped, EnginesInOrder, Pool!Engines
<1>10. Listed'
  <2>1. CASE xdev_list = <<>> /\ polled /\ thread_cnt = 0
    <3>1. \A e \in Pool!Engines : cmplthp[e] = None
      BY <1>3, <2>1, PoolConstants DEF Listed, PoolTyped
    <3>2. ASSUME NEW t \in Pool!Threads
          PROVE  /\ work_list'[t] = {e \in Pool!Engines : cmplthp'[e] = t}
                 /\ IsFiniteSet(work_list'[t]) /\ work_cnt'[t] = Cardinality(work_list'[t])
      <4>1. work_list'[t] = {} /\ work_cnt'[t] = 0
        BY <1>2, <2>1
      <4>2. {e \in Pool!Engines : cmplthp'[e] = t} = {}
        BY <1>1, <3>1, PoolConstants
      <4>3. QED BY <4>1, <4>2, FS_EmptySet
    <3>3. cs_threads' /\ thread_cnt' > 0 /\ tasks' = 0 .. thread_cnt' - 1
      BY <1>2, <2>1, PoolConstants
    <3>4. QED BY <1>1, <3>1, <3>2, <3>3 DEF Listed
  <2>2. CASE ~(xdev_list = <<>> /\ polled /\ thread_cnt = 0)
    BY <1>1, <1>2, <1>3, <1>9, <2>2 DEF Listed
  <2>3. QED BY <2>1, <2>2
<1>11. Searches'
  <2>1. ASSUME NEW o \in Devices, where'[o] = "scan"
        PROVE  where[o] = "scan" /\ UNCHANGED <<thread_cnt, work_cnt>>
    <3>1. where[o] = "scan"
      BY <1>1, <1>3, <2>1 DEF PoolTyped
    <3>2. \E i \in 1 .. Len(xdev_list) : xdev_list[i] = o
      BY <1>3, <3>1 DEF ListInOrder
    <3>3. QED BY <1>2, <1>4, <3>1, <3>2
  <2>2. QED BY <1>1, <1>3, <2>1 DEF Searches
<1>12. trouble' = {} => Polled'
  <2>1. SUFFICES ASSUME trouble' = {} PROVE Polled'
    OBVIOUS
  <2>2. trouble = {} /\ Polled
    BY <1>1, <1>3, <2>1
  <2>3. xdev_list' # <<>>
    BY <1>4, <1>14
  <2>4. cs_threads' <=> polled'
    BY <1>1, <1>2, <1>3, <2>2 DEF Polled, Listed, PoolTyped
  <2>5. polled' => \A e \in Pool!Served' : cmplthp'[e] # None
    BY <1>1, <1>9, <2>2 DEF Polled
  <2>6. QED BY <2>3, <2>4, <2>5 DEF Polled
<1>13. QED BY <1>6, <1>7, <1>8, <1>10, <1>11, <1>12 DEF PoolInv

LEMMA LookStep ==
  ASSUME PoolInv, trouble \subseteq {"switched"}, NEW d \in Devices, Pool!Look(d)
  PROVE  PoolInv'
<1> DEFINE t == look[d]
           idle == work_cnt[t] = 0 /\ best[d] # thread_cnt
<1>1. /\ where[d] = "scan" /\ t < thread_cnt
      /\ IF best[d] = thread_cnt
         THEN best' = [best EXCEPT ![d] = t] /\ v' = [v EXCEPT ![d] = work_cnt[t]]
         ELSE /\ best' = IF idle \/ work_cnt[t] < v[d] THEN [best EXCEPT ![d] = t] ELSE best
              /\ UNCHANGED v
      /\ look' = [look EXCEPT ![d] = IF idle THEN thread_cnt ELSE t + 1]
      /\ UNCHANGED <<polled, where, idx, alive, xdev_list, cs_threads, thread_cnt, tasks,
                     work_list, work_cnt, cmplthp, undisturbed, trouble>>
  BY DEF Pool!Look, Pool!devVars, Pool!poolVars
<1>2. /\ PoolTyped /\ ListInOrder /\ EnginesInOrder /\ Listed /\ Searches
      /\ trouble = {} => Polled
  BY DEF PoolInv
<1>3. /\ t \in Nat /\ thread_cnt \in Nat /\ thread_cnt <= Pool!Most /\ t \in Pool!Threads
      /\ work_cnt[t] \in Nat /\ best[d] \in Nat /\ v[d] \in Nat
  BY <1>1, <1>2, PoolConstants DEF PoolTyped
<1>4. /\ t = 0 => best[d] = thread_cnt
      /\ t > 0 => /\ best[d] < thread_cnt
                  /\ undisturbed[d] =>
                      /\ v[d] = work_cnt[0]
                      /\ \/ work_cnt[best[d]] = 0 /\ best[d] = 0
                         \/ \A u \in 0 .. t - 1 : work_cnt[u] > 0
  BY <1>1, <1>2, <1>3 DEF Searches
<1> HIDE DEF idle
<1>5. /\ best'[d] = t \/ (best[d] # thread_cnt /\ best'[d] = best[d])
      /\ v'[d] \in {v[d], work_cnt[t]}
      /\ look'[d] = IF idle THEN thread_cnt ELSE t + 1
      /\ \A o \in Devices \ {d} : best'[o] = best[o] /\ v'[o] = v[o] /\ look'[o] = look[o]
  <2>1. CASE best[d] = thread_cnt
    BY <1>1, <1>2, <2>1 DEF PoolTyped
  <2>2. CASE best[d] # thread_cnt /\ best' = best
    BY <1>1, <1>2, <2>2 DEF PoolTyped
  <2>3. CASE best[d] # thread_cnt /\ best' # best
    BY <1>1, <1>2, <2>3 DEF PoolTyped
  <2>4. QED BY <2>1, <2>2, <2>3
<1>6. PoolTyped'
  <2>1. best' \in [Devices -> 0 .. Pool!Most]
    BY <1>1, <1>2, <1>3, PoolConstants DEF PoolTyped
  <2>4. look' \in [Devices -> 0 .. Pool!Most]
    <3>1. (IF idle THEN thread_cnt ELSE t + 1) \in 0 .. Pool!Most
      BY <1>1, <1>3, PoolConstants
    <3>2. QED BY <1>1, <1>2, <3>1 DEF PoolTyped
  <2>2. v' \in [Devices -> Nat]
    BY <1>1, <1>2, <1>3 DEF PoolTyped
  <2>3. QED BY <1>1, <1>2, <2>1, <2>2, <2>4 DEF PoolTyped
<1>7. ListInOrder' /\ EnginesInOrder'
  BY <1>1, <1>2 DEF ListInOrder, EnginesInOrder
<1>8. Pool!Served' = Pool!Served
  BY <1>1, <1>2, ServedSame
<1>9. Listed' /\ (trouble' = {} => Polled')
  BY <1>1, <1>2, <1>8 DEF Listed, Polled
<1>10. Searches'
  <2>1. look'[d] <= thread_cnt /\ look'[d] > 0 /\ best'[d] < thread_cnt
    <3>1. look'[d] <= thread_cnt /\ look'[d] > 0
      BY <1>1, <1>3, <1>5
    <3>2. best'[d] < thread_cnt
      BY <1>1, <1>3, <1>4, <1>5
    <3>3. QED BY <3>1, <3>2
  <2>2. ASSUME undisturbed[d]
        PROVE  /\ v'[d] = work_cnt[0]
               /\ \/ work_cnt[best'[d]] = 0 /\ (best'[d] = 0 \/ look'[d] = thread_cnt)
                  \/ \A u \in 0 .. look'[d] - 1 : work_cnt[u] > 0
    <3>1. CASE t = 0
      <4>1. best'[d] = 0 /\ v'[d] = work_cnt[0] /\ look'[d] = 1
        BY <1>1, <1>2, <1>4, <3>1 DEF PoolTyped, idle
      <4>2. QED BY <1>3, <3>1, <4>1
    <3>2. CASE t > 0 /\ idle
      BY <1>1, <1>2, <1>3, <1>4, <1>5, <2>2, <3>2 DEF PoolTyped, idle
    <3>3. CASE t > 0 /\ ~idle
      <4>1. work_cnt[t] > 0 /\ look'[d] = t + 1 /\ v'[d] = work_cnt[0]
        BY <1>1, <1>3, <1>4, <1>5, <2>2, <3>3 DEF idle
      <4>2. CASE work_cnt[best[d]] = 0 /\ best[d] = 0
        <5>1. best'[d] = best[d]
          BY <1>1, <1>3, <1>4, <2>2, <3>3, <4>2 DEF idle
        <5>2. QED BY <4>1, <4>2, <5>1
      <4>3. CASE \A u \in 0 .. t - 1 : work_cnt[u] > 0
        BY <1>3, <4>1, <4>3
      <4>4. QED BY <1>4, <2>2, <3>3, <4>2, <4>3
    <3>4. QED BY <1>3, <3>1, <3>2, <3>3
  <2>3. QED BY <1>1, <1>2, <1>5, <2>1, <2>2 DEF Searches
<1>11. QED BY <1>6, <1>7, <1>9, <1>10 DEF PoolInv

LEMMA PlaceStep ==
  ASSUME PoolInv, trouble \subseteq {"switched"}, NEW d \in Devices, Pool!Place(d)
  PROVE  PoolInv'
<1> DEFINE n == Cardinality(alive[d])
           e == <<d, n>>
           t == best[d]
<1>1. /\ thread_cnt > 0 /\ look[d] >= thread_cnt
      /\ where[d] = "scan" /\ where' = [where EXCEPT ![d] = "probe"]
      /\ work_list' = [work_list EXCEPT ![t] = @ \cup {e}]
      /\ work_cnt' = [work_cnt EXCEPT ![t] = @ + 1]
      /\ cmplthp' = [cmplthp EXCEPT ![e] = t]
      /\ undisturbed' = [o \in Devices |-> undisturbed[o] /\ o = d]
      /\ UNCHANGED <<polled, idx, alive, xdev_list, cs_threads, thread_cnt, tasks, look, v,
                     best, trouble>>
  BY PoolFinite DEF Pool!Place, Pool!At, Pool!Disturbed
<1>2. /\ PoolTyped /\ ListInOrder /\ EnginesInOrder /\ Listed /\ Searches
      /\ trouble = {} => Polled
  BY DEF PoolInv
<1>3. n \in 1 .. MaxEngines /\ alive[d] = 1 .. n
  BY <1>1, <1>2, EngineCount, PoolConstants
<1> HIDE DEF n
<1>4. e \in Pool!Engines /\ e[1] = d /\ e[2] = n
  BY <1>3 DEF Pool!Engines
<1>5. t \in Pool!Threads /\ t < thread_cnt /\ t # None
  BY <1>1, <1>2, PoolConstants DEF Searches, PoolTyped
<1> HIDE DEF t
<1>6. /\ where'[d] = "probe" /\ \A o \in Devices \ {d} : where'[o] = where[o]
  BY <1>1, <1>2 DEF PoolTyped
<1>7. Pool!Served' = Pool!Served \cup {e} /\ e \notin Pool!Served
  <2>1. e \notin Pool!Served
    BY <1>1, <1>3, <1>4, PoolFinite DEF Pool!Served, n
  <2>2. ASSUME NEW h \in Pool!Engines
        PROVE  h \in Pool!Served' <=> h \in Pool!Served \/ h = e
    <3>1. h[1] \in Devices /\ h[2] \in 1 .. MaxEngines /\ h = <<h[1], h[2]>>
      BY DEF Pool!Engines
    <3>2. CASE h[1] # d
      BY <1>1, <1>4, <1>6, <3>1, <3>2 DEF Pool!Served
    <3>3. CASE h[1] = d
      <4>1. h \in Pool!Served <=> h[2] \in 1 .. n /\ h[2] < n
        BY <1>1, <1>3, <3>3, PoolFinite DEF Pool!Served, n
      <4>2. h \in Pool!Served' <=> h[2] \in 1 .. n
        BY <1>1, <1>3, <1>6, <3>3 DEF Pool!Served
      <4>3. h = e <=> h[2] = n
        BY <3>1, <3>3
      <4>4. QED BY <1>3, <3>1, <4>1, <4>2, <4>3
    <3>4. QED BY <3>2, <3>3
  <2>3. Pool!Served \subseteq Pool!Engines /\ Pool!Served' \subseteq Pool!Engines
    BY DEF Pool!Served, Pool!Engines
  <2>4. QED BY <1>4, <2>1, <2>2, <2>3
<1> HIDE DEF e
<1>8. cmplthp[e] = None /\ \A u \in Pool!Threads : e \notin work_list[u]
  <2>1. cmplthp[e] = None
    BY <1>2, <1>4, <1>7 DEF Listed
  <2>2. QED BY <1>2, <1>4, <2>1, PoolConstants DEF Listed
<1>9. /\ cmplthp'[e] = t /\ \A h \in Pool!Engines \ {e} : cmplthp'[h] = cmplthp[h]
      /\ work_list'[t] = work_list[t] \cup {e} /\ work_cnt'[t] = work_cnt[t] + 1
      /\ \A u \in Pool!Threads \ {t} : work_list'[u] = work_list[u] /\ work_cnt'[u] = work_cnt[u]
  BY <1>1, <1>2, <1>4, <1>5 DEF PoolTyped
<1>10. PoolTyped'
  <2>1. where' \in [Devices -> Pool!Where] /\ undisturbed' \in [Devices -> BOOLEAN]
    BY <1>1, <1>2 DEF PoolTyped, Pool!Where
  <2>2. work_cnt' \in [Pool!Threads -> Nat]
    BY <1>1, <1>2, <1>5 DEF PoolTyped
  <2>3. work_list' \in [Pool!Threads -> SUBSET Pool!Engines]
    BY <1>1, <1>2, <1>4, <1>5 DEF PoolTyped
  <2>4. cmplthp' \in [Pool!Engines -> Pool!Threads \cup {None}]
    BY <1>1, <1>2, <1>4, <1>5 DEF PoolTyped
  <2>5. QED BY <1>1, <1>2, <2>1, <2>2, <2>3, <2>4 DEF PoolTyped, Pool!Engines
<1>11. ListInOrder'
  BY <1>1, <1>2, <1>6 DEF ListInOrder
<1>12. EnginesInOrder'
  BY <1>1, <1>2, <1>6 DEF EnginesInOrder
<1>13. Listed'
  <2>1. ASSUME NEW u \in Pool!Threads
        PROVE  /\ work_list'[u] = {h \in Pool!Engines : cmplthp'[h] = u}
               /\ IsFiniteSet(work_list'[u]) /\ work_cnt'[u] = Cardinality(work_list'[u])
    <3>1. /\ work_list[u] = {h \in Pool!Engines : cmplthp[h] = u}
          /\ IsFiniteSet(work_list[u]) /\ work_cnt[u] = Cardinality(work_list[u])
      BY <1>2 DEF Listed
    <3>2. CASE u = t
      <4>1. {h \in Pool!Engines : cmplthp'[h] = u} = work_list[u] \cup {e}
        BY <1>4, <1>9, <3>1, <3>2
      <4>2. /\ IsFiniteSet(work_list[u] \cup {e})
            /\ Cardinality(work_list[u] \cup {e}) = Cardinality(work_list[u]) + 1
        BY <1>8, <3>1, FS_AddElement
      <4>3. QED BY <1>9, <3>1, <3>2, <4>1, <4>2
    <3>3. CASE u # t
      <4>1. {h \in Pool!Engines : cmplthp'[h] = u} = work_list[u]
        BY <1>8, <1>9, <3>1, <3>3, PoolConstants
      <4>2. QED BY <1>9, <3>1, <3>3, <4>1
    <3>4. QED BY <3>2, <3>3
  <2>2. ASSUME NEW h \in Pool!Engines, cmplthp'[h] # None
        PROVE  h \in Pool!Served' /\ cmplthp'[h] < thread_cnt'
    BY <1>1, <1>2, <1>5, <1>7, <1>9, <2>2 DEF Listed
  <2>3. Pool!Engines' = Pool!Engines /\ Pool!Threads' = Pool!Threads
    BY DEF Pool!Engines, Pool!Threads
  <2>4. QED BY <1>1, <1>2, <2>1, <2>2, <2>3 DEF Listed
<1>14. Searches'
  <2>1. ASSUME NEW o \in Devices, where'[o] = "scan"
        PROVE  where[o] = "scan" /\ ~undisturbed'[o]
    BY <1>1, <1>6, <2>1
  <2>2. QED BY <1>1, <1>2, <2>1 DEF Searches
<1>15. trouble' = {} => Polled'
  BY <1>1, <1>2, <1>5, <1>7, <1>9 DEF Polled, Pool!Served
<1>16. QED BY <1>10, <1>11, <1>12, <1>13, <1>14, <1>15 DEF PoolInv

LEMMA EngineDestroyStep ==
  ASSUME PoolInv, trouble \subseteq {"switched"}, NEW d \in Devices, Pool!EngineDestroy(d)
  PROVE  PoolInv'
<1>1. PICK k \in alive[d] :
        /\ alive' = [alive EXCEPT ![d] = @ \ {k}]
        /\ IF polled
           THEN Pool!RemoveWork(<<d, k>>) /\ UNCHANGED trouble
           ELSE /\ trouble' = IF cmplthp[<<d, k>>] = None THEN trouble
                              ELSE trouble \cup {"crash"}
                /\ UNCHANGED <<work_list, work_cnt, cmplthp>>
  BY DEF Pool!EngineDestroy
<1> DEFINE e == <<d, k>>
           t == cmplthp[e]
<1>2. /\ where[d] = "closing"
      /\ undisturbed' = [o \in Devices |-> undisturbed[o] /\ o = d]
      /\ UNCHANGED <<polled, where, idx, xdev_list, cs_threads, thread_cnt, tasks, look, v, best>>
  BY DEF Pool!EngineDestroy, Pool!Disturbed
<1>3. /\ PoolTyped /\ ListInOrder /\ EnginesInOrder /\ Listed /\ Searches
      /\ trouble = {} => Polled
  BY DEF PoolInv
<1>4. e \in Pool!Engines /\ e[1] = d /\ e[2] = k
  BY <1>1, <1>3 DEF PoolTyped, Pool!Engines
<1>5. /\ alive'[d] = alive[d] \ {k} /\ \A o \in Devices \ {d} : alive'[o] = alive[o]
  BY <1>1, <1>3 DEF PoolTyped
<1>6. t \in Pool!Threads \cup {None}
  BY <1>3, <1>4 DEF PoolTyped
<1>7. \/ /\ t = None /\ UNCHANGED <<work_list, work_cnt, cmplthp, trouble>>
      \/ /\ polled /\ t # None /\ UNCHANGED trouble
         /\ cmplthp' = [cmplthp EXCEPT ![e] = None]
         /\ work_list' = [work_list EXCEPT ![t] = @ \ {e}]
         /\ work_cnt' = [work_cnt EXCEPT ![t] = @ - 1]
      \/ /\ "crash" \in trouble' /\ trouble' \subseteq trouble \cup {"crash"}
         /\ UNCHANGED <<work_list, work_cnt, cmplthp>>
  BY <1>1 DEF Pool!RemoveWork
<1> HIDE DEF t
<1>8. Pool!Served' = Pool!Served \ {e}
  <2>1. ASSUME NEW h \in Pool!Engines
        PROVE  h \in Pool!Served' <=> h \in Pool!Served /\ h # e
    <3>1. h[1] \in Devices /\ h[2] \in 1 .. MaxEngines /\ h = <<h[1], h[2]>>
      BY DEF Pool!Engines
    <3>2. CASE h[1] # d
      BY <1>2, <1>4, <1>5, <3>1, <3>2 DEF Pool!Served
    <3>3. CASE h[1] = d
      <4>1. h \in Pool!Served <=> h[2] \in alive[d]
        BY <1>2, <3>3 DEF Pool!Served
      <4>2. h \in Pool!Served' <=> h[2] \in alive[d] \ {k}
        BY <1>2, <1>5, <3>3 DEF Pool!Served
      <4>3. h = e <=> h[2] = k
        BY <3>1, <3>3
      <4>4. QED BY <4>1, <4>2, <4>3
    <3>4. QED BY <3>2, <3>3
  <2>2. Pool!Served \subseteq Pool!Engines /\ Pool!Served' \subseteq Pool!Engines
    BY DEF Pool!Served, Pool!Engines
  <2>3. QED BY <2>1, <2>2
<1> HIDE DEF e
<1>9. ASSUME t # None
      PROVE  /\ t \in Pool!Threads /\ t < thread_cnt /\ e \in work_list[t]
             /\ IsFiniteSet(work_list[t]) /\ work_cnt[t] = Cardinality(work_list[t])
             /\ work_cnt[t] \in Nat /\ work_cnt[t] > 0
  <2>1. t \in Pool!Threads /\ t < thread_cnt /\ e \in work_list[t]
    BY <1>3, <1>4, <1>6, <1>9 DEF Listed, t
  <2>2. IsFiniteSet(work_list[t]) /\ work_cnt[t] = Cardinality(work_list[t])
    BY <1>3, <2>1 DEF Listed
  <2>3. Cardinality(work_list[t]) # 0 /\ Cardinality(work_list[t]) \in Nat
    BY <2>1, <2>2, FS_EmptySet, FS_CardinalityType
  <2>4. QED BY <2>1, <2>2, <2>3
<1>10. PoolTyped'
  <2>1. alive' \in [Devices -> SUBSET (1 .. MaxEngines)] /\ undisturbed' \in [Devices -> BOOLEAN]
    BY <1>1, <1>2, <1>3 DEF PoolTyped
  <2>2. work_cnt' \in [Pool!Threads -> Nat]
    <3>1. t # None => work_cnt[t] - 1 \in Nat /\ t \in Pool!Threads
      BY <1>9
    <3>2. QED BY <1>3, <1>7, <3>1 DEF PoolTyped
  <2>3. work_list' \in [Pool!Threads -> SUBSET Pool!Engines]
    <3>1. CASE work_list' = work_list
      BY <1>3, <3>1 DEF PoolTyped
    <3>2. CASE work_list' = [work_list EXCEPT ![t] = @ \ {e}] /\ t # None
      BY <1>3, <1>9, <3>2 DEF PoolTyped
    <3>3. QED BY <1>7, <3>1, <3>2
  <2>4. cmplthp' \in [Pool!Engines -> Pool!Threads \cup {None}]
    BY <1>3, <1>4, <1>7 DEF PoolTyped
  <2>5. trouble' \subseteq {"strays", "crash", "switched"}
    BY <1>3, <1>7 DEF PoolTyped
  <2>6. QED BY <1>2, <1>3, <2>1, <2>2, <2>3, <2>4, <2>5 DEF PoolTyped, Pool!Engines
<1>11. ListInOrder'
  BY <1>2, <1>3 DEF ListInOrder
<1>12. EnginesInOrder'
  BY <1>2, <1>3, <1>5 DEF EnginesInOrder
<1>13. ASSUME trouble' \subseteq {"switched"}
       PROVE  /\ cmplthp'[e] = None /\ \A h \in Pool!Engines \ {e} : cmplthp'[h] = cmplthp[h]
              /\ UNCHANGED trouble
              /\ \A u \in Pool!Threads \ {t} :
                     work_list'[u] = work_list[u] /\ work_cnt'[u] = work_cnt[u]
              /\ t # None =>
                     work_list'[t] = work_list[t] \ {e} /\ work_cnt'[t] = work_cnt[t] - 1
  <2>1. CASE t = None
    BY <1>7, <1>13, <2>1 DEF t
  <2>2. CASE t # None
    BY <1>3, <1>4, <1>7, <1>9, <1>13, <2>2 DEF PoolTyped
  <2>3. QED BY <2>1, <2>2
<1>14. ASSUME trouble' \subseteq {"switched"} PROVE Listed'
  <2>1. ASSUME NEW u \in Pool!Threads
        PROVE  /\ work_list'[u] = {h \in Pool!Engines : cmplthp'[h] = u}
               /\ IsFiniteSet(work_list'[u]) /\ work_cnt'[u] = Cardinality(work_list'[u])
    <3>1. /\ work_list[u] = {h \in Pool!Engines : cmplthp[h] = u}
          /\ IsFiniteSet(work_list[u]) /\ work_cnt[u] = Cardinality(work_list[u])
      BY <1>3 DEF Listed
    <3>2. CASE u = t
      <4>1. u # None
        BY PoolConstants
      <4>2. {h \in Pool!Engines : cmplthp'[h] = u} = work_list[u] \ {e}
        BY <1>4, <1>13, <1>14, <3>1, <4>1
      <4>3. /\ IsFiniteSet(work_list[u] \ {e})
            /\ Cardinality(work_list[u] \ {e}) = Cardinality(work_list[u]) - 1
        BY <1>9, <3>1, <3>2, <4>1, FS_RemoveElement
      <4>4. QED BY <1>13, <1>14, <3>1, <3>2, <4>1, <4>2, <4>3
    <3>3. CASE u # t
      <4>1. {h \in Pool!Engines : cmplthp'[h] = u} = work_list[u]
        BY <1>4, <1>13, <1>14, <3>1, <3>3, PoolConstants DEF t
      <4>2. QED BY <1>13, <1>14, <3>1, <3>3, <4>1
    <3>4. QED BY <3>2, <3>3
  <2>2. ASSUME NEW h \in Pool!Engines, cmplthp'[h] # None
        PROVE  h \in Pool!Served' /\ cmplthp'[h] < thread_cnt'
    BY <1>2, <1>3, <1>8, <1>13, <1>14, <2>2 DEF Listed
  <2>3. Pool!Engines' = Pool!Engines /\ Pool!Threads' = Pool!Threads
    BY DEF Pool!Engines, Pool!Threads
  <2>4. QED BY <1>2, <1>3, <2>1, <2>2, <2>3 DEF Listed
<1>15. Searches'
  <2>1. ASSUME NEW o \in Devices, where'[o] = "scan"
        PROVE  where[o] = "scan" /\ ~undisturbed'[o]
    BY <1>2, <2>1
  <2>2. QED BY <1>2, <1>3, <2>1 DEF Searches
<1>16. trouble' = {} => Polled'
  <2>1. SUFFICES ASSUME trouble' = {} PROVE Polled'
    OBVIOUS
  <2>2. QED BY <1>2, <1>3, <1>8, <1>13, <2>1 DEF Polled, Pool!Served
<1>17. QED BY <1>10, <1>11, <1>12, <1>14, <1>15, <1>16 DEF PoolInv

LEMMA ListRemoveStep ==
  ASSUME PoolInv, trouble \subseteq {"switched"}, NEW d \in Devices, Pool!ListRemove(d)
  PROVE  PoolInv'
<1>1. PICK i \in 1 .. Len(xdev_list) :
          xdev_list[i] = d /\ xdev_list' = Pool!RemoveAt(xdev_list, i)
  BY DEF Pool!ListRemove, PoolInv, PoolTyped
<1>2. /\ alive[d] = {} /\ where[d] = "closing" /\ where' = [where EXCEPT ![d] = "closed"]
      /\ idx' = [idx EXCEPT ![d] = 0]
      /\ UNCHANGED <<polled, alive, look, v, best, undisturbed, trouble, work_list, work_cnt,
                     cmplthp>>
  BY DEF Pool!ListRemove, Pool!At, Pool!ThreadsDestroy, Pool!poolVars, Pool!scanVars
<1>3. \/ /\ polled /\ xdev_list' = <<>>
         /\ cs_threads' = FALSE /\ thread_cnt' = 0 /\ tasks' = tasks \ (0 .. thread_cnt - 1)
      \/ ~(polled /\ xdev_list' = <<>>) /\ UNCHANGED <<cs_threads, thread_cnt, tasks>>
  BY DEF Pool!ListRemove, Pool!ThreadsDestroy, Pool!poolVars
<1>4. /\ PoolTyped /\ ListInOrder /\ EnginesInOrder /\ Listed /\ Searches
      /\ trouble = {} => Polled
  BY DEF PoolInv
<1> DEFINE n == Len(xdev_list)
<1>5. /\ xdev_list \in Seq(Devices) /\ n \in Nat /\ \A j \in 1 .. n : xdev_list[j] \in Devices
      /\ \A j \in 1 .. n : idx[xdev_list[j]] \in Nat
  BY <1>4 DEF PoolTyped
<1>6. /\ xdev_list' \in Seq(Devices) /\ Len(xdev_list') = n - 1
      /\ \A j \in 1 .. n - 1 : xdev_list'[j] = IF j < i THEN xdev_list[j] ELSE xdev_list[j + 1]
  BY <1>1, <1>5, RemoveAtProperties
<1> HIDE DEF n
<1>7. \A j \in 1 .. n : xdev_list[j] = d => j = i
  <2>1. SUFFICES ASSUME NEW j \in 1 .. n, xdev_list[j] = d, j # i PROVE FALSE
    OBVIOUS
  <2>2. CASE j < i
    BY <1>1, <1>4, <1>5, <2>1, <2>2 DEF ListInOrder, n
  <2>3. CASE i < j
    BY <1>1, <1>4, <1>5, <2>1, <2>3 DEF ListInOrder, n
  <2>4. QED BY <1>1, <1>5, <2>1, <2>2, <2>3 DEF n
<1>8. /\ idx'[d] = 0 /\ where'[d] = "closed"
      /\ \A o \in Devices \ {d} : idx'[o] = idx[o] /\ where'[o] = where[o]
  BY <1>2, <1>4 DEF PoolTyped
<1>9. PoolTyped'
  <2>1. idx' \in [Devices -> 0 .. MaxIdx] /\ where' \in [Devices -> Pool!Where]
    <3>1. 0 \in 0 .. MaxIdx
      BY PoolConstants
    <3>2. idx' \in [Devices -> 0 .. MaxIdx]
      BY <1>2, <1>4, <3>1 DEF PoolTyped
    <3>3. where' \in [Devices -> Pool!Where]
      BY <1>2, <1>4 DEF PoolTyped, Pool!Where
    <3>4. QED BY <3>2, <3>3
  <2>2. /\ cs_threads' \in BOOLEAN /\ thread_cnt' \in {0, Pool!Most}
        /\ tasks' \subseteq Pool!Threads
    BY <1>3, <1>4 DEF PoolTyped
  <2>3. QED BY <1>2, <1>4, <1>6, <2>1, <2>2 DEF PoolTyped
<1>10. ListInOrder'
  <2>1. ASSUME NEW j \in 1 .. n - 1
        PROVE  \E k \in 1 .. n : /\ k = (IF j < i THEN j ELSE j + 1) /\ xdev_list'[j] = xdev_list[k]
                                 /\ idx'[xdev_list'[j]] = idx[xdev_list[k]]
    <3>1. (IF j < i THEN j ELSE j + 1) \in (1 .. n) \ {i}
      BY <1>1, <1>5 DEF n
    <3>2. xdev_list'[j] = xdev_list[IF j < i THEN j ELSE j + 1]
      BY <1>6
    <3>3. xdev_list'[j] \in Devices \ {d}
      BY <1>5, <1>7, <3>1, <3>2
    <3>4. QED BY <1>8, <3>1, <3>2, <3>3
  <2>2. ASSUME NEW j \in 1 .. n - 1, NEW k \in 1 .. n - 1, j < k
        PROVE  idx'[xdev_list'[j]] < idx'[xdev_list'[k]]
    <3>1. PICK p \in 1 .. n : /\ p = (IF j < i THEN j ELSE j + 1)
                              /\ idx'[xdev_list'[j]] = idx[xdev_list[p]]
      BY <2>1
    <3>2. PICK q \in 1 .. n : /\ q = (IF k < i THEN k ELSE k + 1)
                              /\ idx'[xdev_list'[k]] = idx[xdev_list[q]]
      BY <2>1
    <3>3. p < q
      BY <1>1, <1>5, <2>2, <3>1, <3>2 DEF n
    <3>4. QED BY <1>4, <3>1, <3>2, <3>3 DEF ListInOrder, n
  <2>3. ASSUME NEW o \in Devices
        PROVE  where'[o] # "closed" <=> \E j \in 1 .. n - 1 : xdev_list'[j] = o
    <3>1. CASE o = d
      <4>1. \A j \in 1 .. n - 1 : xdev_list'[j] # d
        <5>1. SUFFICES ASSUME NEW j \in 1 .. n - 1 PROVE xdev_list'[j] # d
          OBVIOUS
        <5>2. PICK k \in 1 .. n : k = (IF j < i THEN j ELSE j + 1) /\ xdev_list'[j] = xdev_list[k]
          BY <2>1
        <5>3. k # i
          BY <1>1, <1>5, <5>2 DEF n
        <5>4. QED BY <1>7, <5>2, <5>3
      <4>2. QED BY <1>8, <3>1, <4>1
    <3>2. CASE o # d
      <4>1. where'[o] # "closed" <=> \E k \in 1 .. n : xdev_list[k] = o
        BY <1>4, <1>8, <3>2 DEF ListInOrder, n
      <4>2. ASSUME NEW k \in 1 .. n, xdev_list[k] = o
            PROVE  \E j \in 1 .. n - 1 : xdev_list'[j] = o
        <5>1. k # i
          BY <1>1, <3>2, <4>2
        <5>2. CASE k < i
          BY <1>1, <1>5, <1>6, <4>2, <5>2 DEF n
        <5>3. CASE k > i
          <6>1. k - 1 \in 1 .. n - 1 /\ ~(k - 1 < i) /\ (k - 1) + 1 = k
            BY <1>1, <1>5, <5>3 DEF n
          <6>2. QED BY <1>6, <4>2, <6>1
        <5>4. QED BY <1>1, <1>5, <5>1, <5>2, <5>3 DEF n
      <4>3. QED BY <2>1, <4>1, <4>2
    <3>3. QED BY <3>1, <3>2
  <2>4. QED BY <1>6, <2>2, <2>3 DEF ListInOrder
<1>11. EnginesInOrder'
  BY <1>2, <1>4, <1>8 DEF EnginesInOrder
<1>12. Pool!Served' = Pool!Served
  BY <1>2, <1>4, <1>8, ServedSame
<1>13. ASSUME xdev_list' = <<>> PROVE \A o \in Devices : where'[o] = "closed"
  BY <1>6, <1>10, <1>13 DEF ListInOrder
<1>14. Listed'
  <2>1. CASE polled /\ xdev_list' = <<>>
    <3>1. \A e \in Pool!Engines : cmplthp[e] = None
      <4>1. \A o \in Devices : alive[o] = {}
        BY <1>2, <1>11, <1>13, <2>1 DEF EnginesInOrder
      <4>2. QED BY <1>4, <4>1 DEF Listed, Pool!Served, Pool!Engines
    <3>2. tasks' = {} /\ 0 .. 0 - 1 = {}
      BY <1>3, <1>4, <2>1 DEF Listed
    <3>3. QED BY <1>2, <1>3, <1>4, <1>12, <2>1, <3>1, <3>2 DEF Listed
  <2>2. CASE ~(polled /\ xdev_list' = <<>>)
    BY <1>2, <1>3, <1>4, <1>12, <2>2 DEF Listed
  <2>3. QED BY <2>1, <2>2
<1>15. Searches'
  <2>1. ASSUME NEW o \in Devices, where'[o] = "scan"
        PROVE  where[o] = "scan" /\ UNCHANGED thread_cnt
    BY <1>3, <1>8, <1>13, <2>1
  <2>2. QED BY <1>2, <1>4, <2>1 DEF Searches
<1>16. trouble' = {} => Polled'
  <2>1. SUFFICES ASSUME trouble' = {} PROVE Polled'
    OBVIOUS
  <2>2. trouble = {} /\ Polled /\ xdev_list # <<>>
    BY <1>1, <1>2, <1>4, <2>1
  <2>3. QED BY <1>2, <1>3, <1>12, <2>2 DEF Polled
<1>17. QED BY <1>9, <1>10, <1>11, <1>14, <1>15, <1>16 DEF PoolInv

\* The device is found or begins to be closed: no engine, thread or list changes.
LEMMA OpenCloseStep ==
  ASSUME PoolInv, trouble \subseteq {"switched"}, NEW d \in Devices,
         Pool!Probed(d) \/ Pool!Close(d)
  PROVE  PoolInv'
<1> USE DEF Pool!poolVars, Pool!scanVars
<1>1. /\ \/ where[d] = "probe" /\ where' = [where EXCEPT ![d] = "open"]
         \/ where[d] = "open" /\ where' = [where EXCEPT ![d] = "closing"]
      /\ UNCHANGED <<polled, idx, alive, xdev_list, cs_threads, thread_cnt, tasks, work_list,
                     work_cnt, cmplthp, look, v, best, undisturbed, trouble>>
  BY DEF Pool!Probed, Pool!Close, Pool!At
<1>2. /\ PoolTyped /\ ListInOrder /\ EnginesInOrder /\ Listed /\ Searches
      /\ trouble = {} => Polled
  BY DEF PoolInv
<1>3. /\ where[d] \in {"probe", "open"} /\ where'[d] \in {"open", "closing"}
      /\ \A o \in Devices \ {d} : where'[o] = where[o]
  BY <1>1, <1>2 DEF PoolTyped
<1>4. where' \in [Devices -> Pool!Where]
  BY <1>1, <1>2 DEF PoolTyped, Pool!Where
<1>5. PoolTyped'
  BY <1>1, <1>2, <1>4 DEF PoolTyped
<1>6. ListInOrder' /\ EnginesInOrder'
  BY <1>1, <1>2, <1>3 DEF ListInOrder, EnginesInOrder
<1>7. Pool!Served' = Pool!Served
  BY <1>1, <1>2, <1>3, ServedSame
<1>8. Listed' /\ (trouble' = {} => Polled')
  BY <1>1, <1>2, <1>7 DEF Listed, Polled
<1>9. Searches'
  BY <1>1, <1>2, <1>3 DEF Searches
<1>10. QED BY <1>5, <1>6, <1>8, <1>9 DEF PoolInv

\* Nothing changes but poll_mode, threads that were started in vain, or whether
\* something went wrong.
LEMMA OtherStep ==
  ASSUME PoolInv, trouble \subseteq {"switched"},
         \/ Pool!ListAddFails \/ Pool!Switch
         \/ \E d \in Devices : Pool!PlaceCrash(d)
  PROVE  PoolInv'
<1> USE DEF Pool!devVars, Pool!poolVars, Pool!scanVars
<1>1. /\ UNCHANGED <<where, idx, alive, xdev_list, cs_threads, thread_cnt, work_list, work_cnt,
                     cmplthp, look, v, best, undisturbed>>
      /\ \/ /\ thread_cnt = 0 /\ polled' = polled
            /\ \E started \in SUBSET Pool!Threads :
                /\ tasks' = tasks \cup started
                /\ trouble' = IF started = {} THEN trouble ELSE trouble \cup {"strays"}
         \/ /\ polled' = ~polled /\ tasks' = tasks
            /\ trouble' = IF xdev_list = <<>> THEN trouble ELSE trouble \cup {"switched"}
         \/ UNCHANGED <<polled, tasks>> /\ trouble' = trouble \cup {"crash"}
  BY DEF Pool!ListAddFails, Pool!Creates, Pool!Switch, Pool!PlaceCrash
<1>2. /\ PoolTyped /\ ListInOrder /\ EnginesInOrder /\ Listed /\ Searches
      /\ trouble = {} => Polled
  BY DEF PoolInv
<1>3. PoolTyped'
  BY <1>1, <1>2 DEF PoolTyped, Pool!Engines, Pool!Threads
<1>4. ListInOrder' /\ EnginesInOrder' /\ Searches'
  BY <1>1, <1>2 DEF ListInOrder, EnginesInOrder, Searches
<1>5. Pool!Served' = Pool!Served
  BY <1>1, <1>2, ServedSame
<1>6. trouble' \subseteq {"switched"} => Listed'
  <2>1. SUFFICES ASSUME trouble' \subseteq {"switched"} PROVE Listed'
    OBVIOUS
  <2>2. tasks' = tasks
    BY <1>1, <2>1
  <2>3. QED BY <1>1, <1>2, <1>5, <2>2 DEF Listed
<1>7. trouble' = {} => Polled'
  <2>1. SUFFICES ASSUME trouble' = {} PROVE Polled'
    OBVIOUS
  <2>2. trouble = {} /\ Polled
    BY <1>1, <1>2, <2>1
  <2>3. CASE polled' = polled
    BY <1>1, <1>5, <2>2, <2>3 DEF Polled
  <2>4. CASE xdev_list = <<>>
    <3>1. Pool!Served = {}
      <4>1. \A o \in Devices : where[o] = "closed"
        BY <1>2, <2>4 DEF ListInOrder
      <4>2. QED BY <1>2, <4>1 DEF EnginesInOrder, Pool!Served, Pool!Engines
    <3>2. QED BY <1>1, <1>5, <2>2, <2>4, <3>1 DEF Polled
  <2>5. QED BY <1>1, <2>1, <2>3, <2>4
<1>8. QED BY <1>3, <1>4, <1>6, <1>7 DEF PoolInv

LEMMA PoolStep == PoolInv /\ [NextCard]_<<use, lifeVars, setupVars, poolVars>> => PoolInv'
<1>1. ASSUME PoolInv, Pool!Next PROVE PoolInv'
  <2>1. trouble \subseteq {"switched"}
    BY <1>1 DEF Pool!Next
  <2>2. QED BY <1>1, <2>1, ListAddStep, EngineInitStep, LookStep, PlaceStep,
               EngineDestroyStep, ListRemoveStep, OpenCloseStep, OtherStep DEF Pool!Next
<1>2. ASSUME PoolInv, UNCHANGED poolVars PROVE PoolInv'
  BY <1>2 DEF poolVars, PoolInv, PoolTyped, ListInOrder, EnginesInOrder, Listed, Searches,
              Polled, Pool!Served
<1>3. [NextCard]_<<use, lifeVars, setupVars, poolVars>> => Pool!Next \/ UNCHANGED poolVars
  BY DEF NextCard
<1>4. QED BY <1>1, <1>2, <1>3

LEMMA PoolInit == InitCard => PoolInv
<1> SUFFICES ASSUME Pool!Init PROVE PoolInv
  BY DEF InitCard
<1> USE PoolConstants DEF Pool!Init
<1>1. PoolTyped
  <2>1. 0 \in 0 .. MaxIdx /\ 0 \in 0 .. Pool!Most /\ {} \subseteq 1 .. MaxEngines
    OBVIOUS
  <2>2. /\ where \in [Devices -> Pool!Where] /\ idx \in [Devices -> 0 .. MaxIdx]
        /\ alive \in [Devices -> SUBSET (1 .. MaxEngines)]
        /\ look \in [Devices -> 0 .. Pool!Most] /\ best \in [Devices -> 0 .. Pool!Most]
    BY <2>1 DEF Pool!Where
  <2>3. /\ v \in [Devices -> Nat] /\ undisturbed \in [Devices -> BOOLEAN]
        /\ cmplthp \in [Pool!Engines -> Pool!Threads \cup {None}]
    OBVIOUS
  <2>4. /\ work_list \in [Pool!Threads -> SUBSET Pool!Engines]
        /\ work_cnt \in [Pool!Threads -> Nat] /\ xdev_list \in Seq(Devices)
    OBVIOUS
  <2>5. QED BY <2>2, <2>3, <2>4 DEF PoolTyped
<1>2. ListInOrder
  BY DEF ListInOrder
<1>3. EnginesInOrder /\ Searches
  BY DEF EnginesInOrder, Searches
<1>4. Listed
  BY FS_EmptySet DEF Listed
<1>5. Polled
  BY DEF Polled, Pool!Served, Pool!Engines
<1>6. QED BY <1>1, <1>2, <1>3, <1>4, <1>5 DEF PoolInv

\* However devices come and go, whichever threads they share: every polled engine
\* is on the list of one thread that runs, the thread that is taken for it was
\* idle if one was, and the numbers of the devices differ, unless poll_mode was
\* written under a device, a thread did not start, or a crash has followed
\* (xdma_thread_add_work, xdma_thread_remove_work, xdev_list_add, xdev_list_remove).
THEOREM PoolServes == SpecCard => []PoolHolds
<1>1. PoolInv => PoolHolds
  <2> SUFFICES ASSUME PoolInv PROVE PoolHolds
    OBVIOUS
  <2>1. PoolTyped /\ ListInOrder
    BY DEF PoolInv
  <2>2. Pool!TypeOK
    BY <2>1, PoolConstants DEF PoolTyped, Pool!TypeOK
  <2>3. Pool!OwnNumbers
    <3>1. ASSUME NEW i \in 1 .. Len(xdev_list), NEW j \in 1 .. Len(xdev_list),
                 idx[xdev_list[i]] = idx[xdev_list[j]]
          PROVE  i = j
      <4>1. idx[xdev_list[i]] \in Nat /\ Len(xdev_list) \in Nat
        BY <2>1 DEF PoolTyped
      <4>2. QED BY <2>1, <3>1, <4>1 DEF ListInOrder
    <3>2. DOMAIN xdev_list = 1 .. Len(xdev_list)
      BY <2>1 DEF PoolTyped
    <3>3. QED BY <3>1, <3>2 DEF Pool!OwnNumbers, Pool!ToSet
  <2>4. ASSUME trouble = {}
        PROVE  Pool!EachEngineServed /\ Pool!EachHasThread /\ Pool!ThreadsWithDevices
               /\ Pool!IdleFirst
    <3>1. Listed /\ Searches /\ Polled
      BY <2>4 DEF PoolInv
    <3>2. \A e \in Pool!Served : e \in Pool!Engines /\ cmplthp[e] \in Pool!Threads \cup {None}
      BY <2>1 DEF PoolTyped, Pool!Served
    <3>3. Pool!EachHasThread
      BY <3>1, <3>2 DEF Polled, Pool!EachHasThread
    <3>4. Pool!ThreadsWithDevices
      BY <3>1 DEF Polled, Listed, Pool!ThreadsWithDevices
    <3>5. Pool!EachEngineServed
      <4>1. ASSUME NEW t \in Pool!Threads
            PROVE  /\ work_cnt[t] = Pool!Cardinality(work_list[t])
                   /\ work_list[t] = {e \in Pool!Served : polled /\ cmplthp[e] = t}
                   /\ work_cnt[t] > 0 => t \in tasks /\ t < thread_cnt
        <5>1. /\ work_list[t] = {e \in Pool!Engines : cmplthp[e] = t} /\ t # None
              /\ IsFiniteSet(work_list[t]) /\ work_cnt[t] = Cardinality(work_list[t])
          BY <3>1, PoolConstants DEF Listed
        <5>2. \A e \in work_list[t] : e \in Pool!Served /\ cmplthp[e] = t /\ t < thread_cnt
          BY <3>1, <5>1 DEF Listed
        <5>3. work_list[t] # {} => polled /\ t \in tasks
          BY <2>1, <3>1, <5>2, PoolConstants DEF Listed, Polled, PoolTyped
        <5>4. work_cnt[t] > 0 => work_list[t] # {}
          BY <5>1, FS_EmptySet
        <5>5. QED BY <3>2, <5>1, <5>2, <5>3, <5>4, PoolFinite
      <4>2. QED BY <4>1 DEF Pool!EachEngineServed
    <3>6. Pool!IdleFirst
      <4>1. ASSUME NEW d \in Devices, where[d] = "scan", thread_cnt > 0,
                   look[d] >= thread_cnt, undisturbed[d]
            PROVE  \/ work_cnt[best[d]] = 0
                   \/ \A t \in 0 .. thread_cnt - 1 : work_cnt[t] > 0
        <5>1. look[d] \in Nat /\ thread_cnt \in Nat
          BY <2>1, PoolConstants DEF PoolTyped
        <5>2. QED BY <3>1, <4>1, <5>1 DEF Searches
      <4>2. QED BY <4>1 DEF Pool!IdleFirst
    <3>7. QED BY <3>3, <3>4, <3>5, <3>6
  <2>5. QED BY <2>2, <2>3, <2>4 DEF PoolHolds, Pool!PoolHolds
<1>2. QED BY <1>1, PoolInit, PoolStep, PTL DEF SpecCard
-----------------------------------------------------------------------------
\* The user interrupts of a card (UserInterrupts).


\* A step that is none of the lines' and the interrupt handler's leaves them
\* their variables; used to state what a caller may change.
Quiet == UNCHANGED <<fpgaVars, handler, isrVars, line, fresh>>

LEMMA CallersQuiet ==
  ASSUME NEW c \in Callers,
         CallerSteps(c) \/ ReadCall(c) \/ PollCall(c) \/ Signal(c)
  PROVE  Quiet
BY DEF CallerSteps, ReadTest, ReadPrepare, ReadRetest, ReadWake, ReadTake, ReadReturn,
       SignalDone, PollCheck, PollWake, ReadCall, PollCall, Signal, CallerOnly, Quiet,
       fpgaVars, irqVars, isrVars

\* The latch is cleared where an event is taken, and nowhere else.
LEMMA OnlyTakeClears ==
  ASSUME NEW c \in Callers,
         CallerSteps(c) \/ ReadCall(c) \/ PollCall(c) \/ Signal(c)
  PROVE  ReadTake(c) \/ UNCHANGED <<events_irq, due>>
BY DEF CallerSteps, ReadTest, ReadPrepare, ReadRetest, ReadWake, ReadReturn,
       SignalDone, PollCheck, PollWake, ReadCall, PollCall, Signal, CallerOnly, irqVars
-----------------------------------------------------------------------------
\* Types.

LEMMA ServiceType ==
  ASSUME TypeOK, NEW l \in Lines, Service(l)
  PROVE  /\ events_irq' \in [Lines -> BOOLEAN] /\ handler' \subseteq Lines
         /\ onWq' \subseteq Callers /\ fresh' \subseteq Lines /\ due' \subseteq Lines
BY DEF Service, TypeOK

LEMMA CallerType ==
  ASSUME TypeOK, NEW c \in Callers,
         CallerSteps(c) \/ ReadCall(c) \/ PollCall(c) \/ Signal(c)
  PROVE  TypeOK'
<1>1. Quiet
  BY CallersQuiet
<1>2. /\ legacy' \in BOOLEAN /\ ipc' \in {"idle", "clear", "serve"}
      /\ raised' \subseteq Lines /\ handler' \subseteq Lines /\ todo' \subseteq Lines
      /\ line' \in [Callers -> Lines] /\ fresh' \subseteq Lines
  BY <1>1 DEF Quiet, TypeOK, fpgaVars, isrVars
<1>3. events_irq' \in [Lines -> BOOLEAN] /\ due' \subseteq Lines
  BY OnlyTakeClears DEF ReadTake, TypeOK
<1>4. onWq' \subseteq Callers /\ signalled' \subseteq Callers
  BY DEF TypeOK, CallerSteps, ReadTest, ReadPrepare, ReadRetest, ReadWake, ReadTake,
         ReadReturn, SignalDone, PollCheck, PollWake, ReadCall, PollCall, Signal
<1>5. pc' \in [Callers -> PCs]
  BY DEF TypeOK, CallerSteps, ReadTest, ReadPrepare, ReadRetest, ReadWake, ReadTake,
         ReadReturn, SignalDone, PollCheck, PollWake, ReadCall, PollCall, Signal,
         Goto, Leave, PCs, ReadPCs, PollPCs
<1>6. events_user' \in [Callers -> BOOLEAN]
  BY DEF TypeOK, CallerSteps, ReadTest, ReadPrepare, ReadRetest, ReadWake, ReadTake,
         ReadReturn, SignalDone, PollCheck, PollWake, ReadCall, PollCall, Signal, Leave
<1>7. robbed' \in [Callers -> BOOLEAN]
  BY DEF TypeOK, CallerSteps, ReadTest, ReadPrepare, ReadRetest, ReadWake, ReadTake,
         ReadReturn, SignalDone, PollCheck, PollWake, ReadCall, PollCall, Signal, Leave
<1>8. QED BY <1>2, <1>3, <1>4, <1>5, <1>6, <1>7 DEF TypeOK

LEMMA InterruptTypeStep == ASSUME TypeOK, [Next]_vars PROVE TypeOK'
<1>1. CASE UNCHANGED vars
  BY <1>1 DEF TypeOK, vars, fpgaVars, irqVars, isrVars, callVars
<1>2. ASSUME NEW l \in Lines, Raise(l) \/ Register(l) PROVE TypeOK'
  BY <1>2, UserAssumption DEF TypeOK, Raise, Register, fpgaVars, irqVars, isrVars, callVars
<1>3. ASSUME NEW l \in Lines, VectorIrq(l) PROVE TypeOK'
  BY <1>3, ServiceType DEF TypeOK, VectorIrq, isrVars, callVars
<1>4. CASE IsrRead \/ IsrClear \/ IsrDone
  BY <1>4 DEF TypeOK, IsrRead, IsrClear, IsrDone, fpgaVars, irqVars, isrVars, callVars
<1>5. CASE IsrServe
  <2>1. PICK l \in todo : Service(l) /\ todo' = todo \ {l}
    BY <1>5 DEF IsrServe
  <2>2. l \in Lines
    BY DEF TypeOK
  <2>3. QED
    BY <1>5, <2>1, <2>2, ServiceType DEF TypeOK, IsrServe, fpgaVars, callVars
<1>6. CASE \E c \in Callers : CallerSteps(c) \/ ReadCall(c) \/ PollCall(c) \/ Signal(c)
  BY <1>6, CallerType
<1>7. QED BY <1>1, <1>2, <1>3, <1>4, <1>5, <1>6 DEF Next, Isr

\* Every variable keeps its type (the structures of cdev_events.c and the FPGA's
\* registers).
THEOREM InterruptTypes == Spec => []TypeOK
<1>1. Init => TypeOK
  BY UserAssumption DEF Init, TypeOK, PCs
<1>2. QED BY <1>1, InterruptTypeStep, PTL DEF Spec
-----------------------------------------------------------------------------
\* What a step of the lines or of the interrupt handler does to what callers
\* see: nothing, or it services one line.
LEMMA LinesStep ==
  ASSUME TypeOK,
         (\E l \in Lines : Raise(l) \/ VectorIrq(l) \/ Register(l)) \/ Isr
  PROVE  /\ UNCHANGED <<callVars, signalled>>
         /\ UNCHANGED <<events_irq, onWq>> \/ \E l \in Lines : Service(l)
<1>1. ASSUME IsrServe PROVE \E l \in Lines : Service(l)
  BY <1>1 DEF IsrServe, TypeOK
<1>2. QED
  BY <1>1 DEF Raise, VectorIrq, Register, Isr, IsrRead, IsrClear, IsrServe, IsrDone, irqVars

\* Between the test of the latch without events_lock and the sleep
\* (wait_event_interruptible, poll_wait), no wake-up of user_irq_service is lost.
THEOREM ReadersAwake == Spec => []NoSleepOnEvent
<1>1. Init => NoSleepOnEvent
  BY DEF Init, NoSleepOnEvent
<1>2. ASSUME TypeOK, NoSleepOnEvent, [Next]_vars PROVE NoSleepOnEvent'
  <2>1. CASE UNCHANGED vars
    BY <1>2, <2>1 DEF NoSleepOnEvent, vars, irqVars, callVars
  <2>2. CASE (\E l \in Lines : Raise(l) \/ VectorIrq(l) \/ Register(l)) \/ Isr
    <3>1. UNCHANGED callVars
      BY <1>2, <2>2, LinesStep
    <3>2. CASE UNCHANGED <<events_irq, onWq>>
      BY <1>2, <3>1, <3>2 DEF NoSleepOnEvent, callVars
    <3>3. ASSUME NEW l \in Lines, Service(l) PROVE NoSleepOnEvent'
      BY <1>2, <3>1, <3>3 DEF NoSleepOnEvent, Service, TypeOK, callVars
    <3>4. QED BY <1>2, <2>2, <3>2, <3>3, LinesStep
  <2>3. ASSUME NEW c \in Callers,
               CallerSteps(c) \/ ReadCall(c) \/ PollCall(c) \/ Signal(c)
        PROVE  NoSleepOnEvent'
    <3>1. \A l \in Lines : events_irq[l]' => events_irq[l]
      BY <1>2, <2>3, OnlyTakeClears DEF ReadTake, TypeOK
    <3>2. line' = line
      BY <2>3, CallersQuiet DEF Quiet
    <3>3. \A d \in Callers \ {c} : pc[d]' = pc[d] /\ (d \in onWq' <=> d \in onWq)
      BY <1>2, <2>3 DEF TypeOK, CallerSteps, ReadTest, ReadPrepare, ReadRetest, ReadWake,
           ReadTake, ReadReturn, SignalDone, PollCheck, PollWake, ReadCall, PollCall,
           Signal, Goto, Leave
    <3>4. \/ pc[c]' = pc[c] /\ onWq' = onWq
          \/ pc[c]' \notin {"asleep", "pollsleep"}
          \/ ~events_irq[line[c]]
      BY <1>2, <2>3 DEF TypeOK, CallerSteps, ReadTest, ReadPrepare, ReadRetest, ReadWake,
           ReadTake, ReadReturn, SignalDone, PollCheck, PollWake, ReadCall, PollCall,
           Signal, Goto, Leave
    <3>5. \A d \in Callers : line[d] \in Lines
      BY <1>2 DEF TypeOK
    <3>6. QED BY <1>2, <3>1, <3>2, <3>3, <3>4, <3>5 DEF NoSleepOnEvent
  <2>4. QED BY <1>2, <2>1, <2>2, <2>3 DEF Next
<1>3. QED BY <1>1, <1>2, InterruptTypes, PTL DEF Spec
-----------------------------------------------------------------------------
\* Where an interrupt is on its way to a reader: raised, read by xdma_isr, or
\* in the latch.  xdma_isr holds lines only while it serves them.
OnItsWay ==
    /\ fresh \subseteq raised \cup todo
    /\ ipc = "idle" => todo = {}
    /\ \A l \in due \ handler : events_irq[l]

LEMMA ServiceKeepsDue ==
  ASSUME TypeOK, NEW l \in Lines, Service(l),
         \A k \in due \ handler : events_irq[k]
  PROVE  \A k \in due' \ handler' : events_irq'[k]
BY DEF Service, TypeOK

LEMMA OnItsWayStep ==
  ASSUME TypeOK, OnItsWay, [Next]_vars
  PROVE  OnItsWay'
<1>1. CASE UNCHANGED vars
  BY <1>1 DEF OnItsWay, vars, fpgaVars, irqVars, isrVars
<1>2. ASSUME NEW l \in Lines, Raise(l) \/ Register(l) PROVE OnItsWay'
  BY <1>2 DEF OnItsWay, Raise, Register, fpgaVars, irqVars, isrVars
<1>3. ASSUME NEW l \in Lines, VectorIrq(l) PROVE OnItsWay'
  <2>1. /\ raised' = raised \ {l} /\ fresh' = fresh \ {l}
        /\ UNCHANGED <<ipc, todo>>
    BY <1>3 DEF VectorIrq, Service, isrVars
  <2>2. \A k \in due' \ handler' : events_irq'[k]
    BY <1>3, ServiceKeepsDue DEF VectorIrq, OnItsWay
  <2>3. QED BY <2>1, <2>2 DEF OnItsWay
<1>4. CASE IsrRead \/ IsrClear \/ IsrDone
  BY <1>4 DEF OnItsWay, IsrRead, IsrClear, IsrDone, fpgaVars, irqVars, isrVars
<1>5. CASE IsrServe
  <2>1. PICK l \in todo : Service(l) /\ todo' = todo \ {l}
    BY <1>5 DEF IsrServe
  <2>2. fresh' = fresh \ {l} /\ UNCHANGED <<raised, ipc>>
    BY <1>5, <2>1 DEF IsrServe, Service, fpgaVars
  <2>3. \A k \in due' \ handler' : events_irq'[k]
    BY <2>1, ServiceKeepsDue DEF OnItsWay, TypeOK
  <2>4. QED BY <1>5, <2>1, <2>2, <2>3 DEF OnItsWay, IsrServe
<1>6. ASSUME NEW c \in Callers,
             CallerSteps(c) \/ ReadCall(c) \/ PollCall(c) \/ Signal(c)
      PROVE  OnItsWay'
  <2>1. Quiet
    BY <1>6, CallersQuiet
  <2>2. \A l \in due' \ handler' : events_irq'[l]
    BY <1>6, <2>1, OnlyTakeClears DEF OnItsWay, ReadTake, Quiet, TypeOK
  <2>3. QED BY <2>1, <2>2 DEF OnItsWay, Quiet, fpgaVars, isrVars
<1>7. QED BY <1>1, <1>2, <1>3, <1>4, <1>5, <1>6 DEF Next, Isr

\* An interrupt of a line without handler is on its way until a reader takes an
\* event set after it: xdma_isr clears only what it read and serves all of it,
\* and user_irq_service and char_events_read set and clear the latch in turns.
THEOREM NothingLost == Spec => []QuietMeansRead
<1>1. Init => OnItsWay
  BY DEF Init, OnItsWay
<1>2. OnItsWay => QuietMeansRead
  BY DEF OnItsWay, QuietMeansRead
<1>3. QED BY <1>1, <1>2, OnItsWayStep, InterruptTypes, PTL DEF Spec
-----------------------------------------------------------------------------
\* Who has seen an event and has not taken it yet will find it, or has lost it.
SeenOrRobbed ==
    \A c \in Callers : pc[c] = "take" => events_irq[line[c]] \/ robbed[c]

LEMMA ReadTakeRobs ==
  ASSUME TypeOK, SeenOrRobbed, ZeroMeansTaken, NEW c \in Callers, ReadTake(c)
  PROVE  SeenOrRobbed' /\ ZeroMeansTaken'
<1>1. line' = line /\ \A d \in Callers : line[d] \in Lines
  BY DEF ReadTake, TypeOK
<1>2. pc' = [pc EXCEPT ![c] = "return"] /\ pc[c] = "take"
  BY DEF ReadTake, Goto
<1>3. /\ events_user' = [events_user EXCEPT ![c] = events_irq[line[c]]]
      /\ events_irq' = [events_irq EXCEPT ![line[c]] = FALSE]
      /\ robbed' = [d \in Callers |-> robbed[d] \/
           (events_irq[line[c]] /\ d # c /\ pc[d] = "take" /\ line[d] = line[c])]
  BY DEF ReadTake
<1>4. ASSUME NEW d \in Callers, pc'[d] = "take" PROVE events_irq'[line'[d]] \/ robbed'[d]
  BY <1>1, <1>2, <1>3, <1>4 DEF SeenOrRobbed, TypeOK
<1>5. ASSUME NEW d \in Callers, pc'[d] = "return", ~events_user'[d] PROVE robbed'[d]
  <2>1. CASE d = c
    BY <1>2, <1>3, <1>5, <2>1 DEF SeenOrRobbed, TypeOK
  <2>2. CASE d # c
    BY <1>2, <1>3, <1>5, <2>2 DEF ZeroMeansTaken, TypeOK
  <2>3. QED BY <2>1, <2>2
<1>6. QED BY <1>4, <1>5 DEF SeenOrRobbed, ZeroMeansTaken

LEMMA CallerKeepsSeen ==
  ASSUME TypeOK, SeenOrRobbed, ZeroMeansTaken, NEW c \in Callers,
         CallerSteps(c) \/ ReadCall(c) \/ PollCall(c) \/ Signal(c), ~ReadTake(c)
  PROVE  SeenOrRobbed' /\ ZeroMeansTaken'
<1>1. events_irq' = events_irq /\ line' = line
  BY OnlyTakeClears, CallersQuiet DEF Quiet
<1>2. \A d \in Callers \ {c} :
          pc'[d] = pc[d] /\ events_user'[d] = events_user[d] /\ robbed'[d] = robbed[d]
  BY DEF TypeOK, CallerSteps, ReadTest, ReadPrepare, ReadRetest, ReadWake, ReadReturn,
         SignalDone, PollCheck, PollWake, ReadCall, PollCall, Signal, Goto, Leave
<1>3. \/ pc'[c] \notin {"take", "return"}
      \/ pc'[c] = "take" /\ events_irq[line[c]]
      \/ pc'[c] = pc[c] /\ events_user'[c] = events_user[c] /\ robbed'[c] = robbed[c]
  BY DEF TypeOK, CallerSteps, ReadTest, ReadPrepare, ReadRetest, ReadWake, ReadReturn,
         SignalDone, PollCheck, PollWake, ReadCall, PollCall, Signal, Goto, Leave
<1>4. QED BY <1>1, <1>2, <1>3 DEF SeenOrRobbed, ZeroMeansTaken

\* char_events_read reads nothing only where another reader took, between its
\* wait and events_lock, the event it had seen.
THEOREM OnlyLosersReadNothing == Spec => []ZeroMeansTaken
<1>1. Init => SeenOrRobbed /\ ZeroMeansTaken
  BY DEF Init, SeenOrRobbed, ZeroMeansTaken
<1>2. ASSUME TypeOK, SeenOrRobbed, ZeroMeansTaken, [Next]_vars
      PROVE  SeenOrRobbed' /\ ZeroMeansTaken'
  <2>1. CASE UNCHANGED vars
    BY <1>2, <2>1 DEF SeenOrRobbed, ZeroMeansTaken, vars, irqVars, callVars
  <2>2. CASE (\E l \in Lines : Raise(l) \/ VectorIrq(l) \/ Register(l)) \/ Isr
    <3>1. UNCHANGED callVars
      BY <1>2, <2>2, LinesStep
    <3>2. \A l \in Lines : events_irq[l] => events_irq'[l]
      BY <1>2, <2>2, LinesStep DEF Service, TypeOK
    <3>3. QED
      BY <1>2, <3>1, <3>2 DEF SeenOrRobbed, ZeroMeansTaken, TypeOK, callVars
  <2>3. ASSUME NEW c \in Callers,
               CallerSteps(c) \/ ReadCall(c) \/ PollCall(c) \/ Signal(c)
        PROVE  SeenOrRobbed' /\ ZeroMeansTaken'
    BY <1>2, <2>3, ReadTakeRobs, CallerKeepsSeen
  <2>4. QED BY <1>2, <2>1, <2>2, <2>3 DEF Next
<1>3. QED BY <1>1, <1>2, InterruptTypes, PTL DEF Spec
=============================================================================
