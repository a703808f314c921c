---------------------------- MODULE DeviceLifecycle ----------------------------
(***************************************************************************)
(* How a card is bound to the driver and removed: probe_one and remove_one *)
(* (xdma_mod.c) with what they call: xdma_device_open and                  *)
(* xdma_device_close (libxdma.c), xpdev_create_interfaces and              *)
(* xpdev_destroy_interfaces (xdma_cdev.c), xdma_video_add and              *)
(* xdma_video_remove (xdma_video.c).  Every step that acquires something   *)
(* may fail.  Interrupts come whenever they are requested and enabled.     *)
(*                                                                         *)
(* MSI-X interrupts, no polling, no bypass BAR.  Engines are the C2H ones; *)
(* H2C engines differ in having no monitor.  Channels and one open file    *)
(* transfer; of a transfer this module has when its interrupt comes, its   *)
(* work item runs and its caller returns, the rest is in DmaEngine.  The   *)
(* threads' loops are in VideoChannel.                                     *)
(***************************************************************************)
EXTENDS Integers, Sequences, FiniteSets

CONSTANTS
    MaxEngines,    \* XDMA_CHANNEL_NUM_MAX
    NChannels      \* max_channels(dev)

\* What is assumed of the constants; the modules this one is checked in assume it.
LifecycleAssumption == MaxEngines \in Nat /\ NChannels \in Nat \ {0}

VARIABLES
    \* the thread of the PCI core: where it is, the channel of its loop, the
    \* step at which the probe met a failure, whether it has crashed
    pos, ch, failedAt, oops,
    \* what is acquired: memory and PCI resources by name, engines set up,
    \* vectors requested
    held, engines, irqs,
    \* interrupt enables of the card, vectors whose handler is running
    chanEnabled, userEnabled, handling,
    \* transfers: a caller and its engine; engines that run, those that have ended
    \* and were not serviced, those whose work item is queued, those whose work item
    \* is in engine_service_work, those whose caller gave up before it was
    moving, running, finished, work, serving, stray,
    \* character devices by group: those that exist, the XDF_CDEV flags
    cdevs, flags,
    \* struct xdma_video_dev: whether xdev is set, the monitors' threads
    vlinked, monTasks,
    \* per video channel: node, thread, registered interrupt handler
    nodes, threads, handlers,
    \* the channels that have a status file; dev_set_drvdata was called
    status, drvdata

posVars == <<pos, ch, failedAt, oops>>
enableVars == <<chanEnabled, userEnabled>>
dmaVars == <<moving, running, finished, work, serving, stray>>
irqVars == <<irqs, enableVars, handling, dmaVars>>
cdevVars == <<cdevs, flags>>
statusVars == <<status, drvdata>>
videoVars == <<vlinked, monTasks, nodes, threads, handlers, statusVars>>
vars == <<posVars, held, engines, irqVars, cdevVars, videoVars>>

Channels == 1 .. NChannels
EngineVectors == {<<"engine", e>> : e \in engines}
UserVectors == {<<"user", c>> : c \in Channels}
\* The caller that is not a channel: a process with a file of group "sg" open.
File == 0
Callers == {File} \cup Channels
Groups == <<"ctrl", "events", "sg", "user", "xvc">>

Init ==
    /\ pos = "unbound" /\ ch = 1 /\ failedAt = "none" /\ oops = FALSE
    /\ held = {} /\ engines = {} /\ irqs = {}
    /\ chanEnabled = FALSE /\ userEnabled = FALSE /\ handling = {}
    /\ moving = {} /\ running = {} /\ finished = {}
    /\ work = {} /\ serving = {} /\ stray = {}
    /\ cdevs = {} /\ flags = {}
    /\ vlinked = FALSE /\ monTasks = {} /\ nodes = {} /\ threads = {}
    /\ handlers = {}
    /\ status = {} /\ drvdata = FALSE
-----------------------------------------------------------------------------
\* An operator X_Fault, written before X, is X with the fault its comment
\* names: no specification uses it, it is there to be put in the place of X, to
\* see that a property notices.

At(from, to) == ~oops /\ pos = from /\ pos' = to
NoFailure == UNCHANGED <<failedAt, oops>>
Failure == failedAt' = pos /\ UNCHANGED oops
Crash == ~oops /\ oops' = TRUE /\ UNCHANGED <<pos, failedAt>>

\* probe_one: xpdev_alloc.  (When it fails nothing has changed.)
ProbeAlloc ==
    /\ At("unbound", "xdev") /\ NoFailure
    /\ held' = held \cup {"xpdev"}
    /\ UNCHANGED <<ch, engines, irqVars, cdevVars, videoVars>>

\* xdma_device_open.  Its steps up to the engines, with the step that follows
\* each, ...
Opening == [xdev |-> "list", list |-> "enabled", enabled |-> "regions",
            regions |-> "bars", bars |-> "mask", mask |-> "engines"]

\* ... and where a failed one goes.  (xdev_list_add fails only in poll mode.)
Goto == [xdev |-> "openfailed", enabled |-> "err_enable",
         regions |-> "err_regions", bars |-> "err_map", mask |-> "err_mask"]

OpenStep ==
    /\ \E s \in DOMAIN Opening :
        /\ At(s, Opening[s])
        /\ held' = held \cup ({s} \ {"mask"})
    /\ NoFailure
    /\ UNCHANGED <<ch, engines, irqVars, cdevVars, videoVars>>

OpenStepFails ==
    /\ \E s \in DOMAIN Goto : At(s, Goto[s])
    /\ Failure
    /\ UNCHANGED <<ch, held, engines, irqVars, cdevVars, videoVars>>

\* probe_engines: the channels up to the first that is missing or cannot be
\* set up.
ProbeEngines ==
    /\ At("engines", "vectors") /\ NoFailure
    /\ \E n \in 0 .. MaxEngines : engines' = 1 .. n
    /\ UNCHANGED <<ch, held, irqVars, cdevVars, videoVars>>

\* enable_msi_msix
EnableMsix ==
    /\ At("vectors", "irqs") /\ NoFailure
    /\ held' = held \cup {"vectors"}
    /\ UNCHANGED <<ch, engines, irqVars, cdevVars, videoVars>>

EnableMsixFails ==
    /\ At("vectors", "err_engines") /\ Failure
    /\ UNCHANGED <<ch, held, engines, irqVars, cdevVars, videoVars>>

\* irq_setup: a vector per engine, then a vector per user interrupt.
IrqSetup ==
    /\ At("irqs", "online") /\ NoFailure
    /\ irqs' = EngineVectors \cup UserVectors
    /\ UNCHANGED <<ch, held, engines, enableVars, handling, dmaVars, cdevVars, videoVars>>

\* When a request fails, the user interrupts requested before are freed and
\* those of the engines are not.
IrqSetupFails ==
    /\ At("irqs", "err_msix") /\ Failure
    /\ \E n \in 0 .. Cardinality(engines) : irqs' = {<<"engine", e>> : e \in 1 .. n}
    /\ UNCHANGED <<ch, held, engines, enableVars, handling, dmaVars, cdevVars, videoVars>>

\* The end of xdma_device_open: the engines' interrupts are enabled.
Online ==
    /\ At("online", "users") /\ NoFailure
    /\ chanEnabled' = TRUE
    /\ UNCHANGED <<ch, held, engines, irqs, userEnabled, handling, dmaVars, cdevVars,
                   videoVars>>

\* The labels of xdma_device_open's error path, which are also the last steps of
\* xdma_device_close: what each gives back, and the next.
Undo ==
    [err_msix    |-> [gives |-> "vectors", next |-> "err_engines"],
     err_mask    |-> [gives |-> "bars", next |-> "err_map"],
     err_map     |-> [gives |-> "regions", next |-> "err_regions"],
     err_regions |-> [gives |-> "enabled", next |-> "err_enable"],
     err_enable  |-> [gives |-> "list", next |-> "free_xdev"]]

\* A device whose regions are in use is not disabled.
UndoStep ==
    /\ \E l \in DOMAIN Undo :
        /\ At(l, Undo[l].next)
        /\ held' = IF l = "err_regions" /\ failedAt = "regions" THEN held
                   ELSE held \ {Undo[l].gives}
    /\ NoFailure
    /\ UNCHANGED <<ch, engines, irqVars, cdevVars, videoVars>>

\* remove_engines: the engines are set to zero.
RemoveEngines ==
    /\ serving = {} /\ moving = {}
    /\ At("err_engines", "err_mask") /\ NoFailure
    /\ engines' = {} /\ running' = {} /\ finished' = {} /\ stray' = stray \cap work
    /\ UNCHANGED <<ch, held, irqs, enableVars, handling, moving, work, serving, cdevVars,
                   videoVars>>

\* It does not ask whether a work item or a caller is at work on one of them.
RemoveEnginesCrash ==
    /\ pos = "err_engines" /\ (serving # {} \/ moving # {}) /\ Crash
    /\ UNCHANGED <<ch, held, engines, irqVars, cdevVars, videoVars>>

\* The steps at which xdma_device_open fails.
OpenFailures == DOMAIN Goto \cup {"vectors", "irqs"}

\* xdev_list_remove is done; kfree(xdev), and with it the handlers it names.
FreeXdev ==
    /\ work = {}
    /\ At("free_xdev", IF failedAt \in OpenFailures THEN "openfailed" ELSE "free_xpdev")
    /\ NoFailure
    /\ held' = held \ {"xdev"}
    /\ handlers' = {}
    /\ UNCHANGED <<ch, engines, irqVars, cdevVars, vlinked, monTasks, nodes, threads,
                   statusVars>>

\* A work item that is queued is in the memory that is freed.
FreeXdevCrash ==
    /\ pos = "free_xdev" /\ work # {} /\ Crash
    /\ UNCHANGED <<ch, held, engines, irqVars, cdevVars, videoVars>>

\* probe_one: the handle is NULL, and everything is to be freed.
OpenFailed ==
    /\ At("openfailed", "destroy") /\ NoFailure
    /\ UNCHANGED <<ch, held, engines, irqVars, cdevVars, videoVars>>
-----------------------------------------------------------------------------
\* probe_one goes on: xdma_user_isr_enable, and the handle is kept.
UserEnable ==
    /\ At("users", "cdev") /\ NoFailure
    /\ userEnabled' = TRUE
    /\ UNCHANGED <<ch, held, engines, irqs, chanEnabled, handling, dmaVars, cdevVars,
                   videoVars>>

\* The last flag is not set.
CreateGroup_Unflagged ==
    /\ Len(Groups) > Cardinality(cdevs)
    /\ LET g == Groups[Cardinality(cdevs) + 1]
       IN  /\ At("cdev", IF g = "xvc" THEN "vmem" ELSE "cdev")
           /\ cdevs' = cdevs \cup {g}
           /\ flags' = flags \cup ({g} \ {"xvc"})
    /\ NoFailure
    /\ held' = held \cup {"major"}
    /\ UNCHANGED <<ch, engines, irqVars, videoVars>>

\* xpdev_create_interfaces: the devices of a group, and its flag.
CreateGroup ==
    /\ Len(Groups) > Cardinality(cdevs)
    /\ LET g == Groups[Cardinality(cdevs) + 1]
       IN  /\ At("cdev", IF g = "xvc" THEN "vmem" ELSE "cdev")
           /\ cdevs' = cdevs \cup {g}
           /\ flags' = flags \cup {g}
    /\ NoFailure
    /\ held' = held \cup {"major"}
    /\ UNCHANGED <<ch, engines, irqVars, videoVars>>

\* A device of the group fails, after others of the same group or not: the
\* groups with a flag are destroyed, and the flags stay.
CreateGroupFails ==
    /\ Len(Groups) > Cardinality(cdevs)
    /\ At("cdev", "destroy") /\ Failure
    /\ LET g == Groups[Cardinality(cdevs) + 1]
       IN  \E rest \in SUBSET ({g} \cap {"events", "sg"}) :
            cdevs' = (cdevs \ flags) \cup rest
    /\ held' = held \ {"major"}
    /\ UNCHANGED <<ch, engines, irqVars, flags, videoVars>>

\* The video device is not linked to the device.
VideoMemory_Unlinked ==
    /\ At("vmem", "monitors") /\ NoFailure
    /\ held' = held \cup {"channels"}
    /\ UNCHANGED <<ch, engines, irqVars, cdevVars, videoVars>>

\* xdma_video_add: the memory of the channels.
VideoMemory ==
    /\ At("vmem", "monitors") /\ NoFailure
    /\ vlinked' = TRUE
    /\ held' = held \cup {"channels"}
    /\ UNCHANGED <<ch, engines, irqVars, cdevVars, monTasks, nodes, threads, handlers,
                   statusVars>>

VideoMemoryFails ==
    /\ At("vmem", "destroy") /\ Failure
    /\ vlinked' = TRUE
    /\ UNCHANGED <<ch, held, engines, irqVars, cdevVars, monTasks, nodes, threads, handlers,
                   statusVars>>

\* transfer_monitor_init: a thread that cannot be created is left out.
MonitorInit ==
    /\ At("monitors", "v4l2") /\ UNCHANGED oops
    /\ monTasks' \in SUBSET engines
    /\ failedAt' = IF monTasks' = engines THEN failedAt ELSE pos
    /\ held' = held \cup {"monitors"}
    /\ UNCHANGED <<ch, engines, irqVars, cdevVars, vlinked, nodes, threads, handlers,
                   statusVars>>

\* Without memory for them, the first monitor is written through NULL.
MonitorInitCrash ==
    /\ ~oops /\ pos = "monitors" /\ engines # {}
    /\ oops' = TRUE /\ failedAt' = pos /\ UNCHANGED pos
    /\ UNCHANGED <<ch, held, engines, irqVars, cdevVars, videoVars>>

\* xdma_video_init: v4l2_device_register.
V4l2Register ==
    /\ At("v4l2", "channel") /\ NoFailure
    /\ held' = held \cup {"v4l2"}
    /\ ch' = 1
    /\ UNCHANGED <<engines, irqVars, cdevVars, videoVars>>

\* A task of every engine's monitor is there to be stopped.
MonitorsThere == vlinked /\ "monitors" \in held /\ monTasks = engines

\* It fails: xdma_video_add frees the monitors and the channels.
V4l2RegisterFails ==
    /\ MonitorsThere
    /\ At("v4l2", "destroy") /\ Failure
    /\ monTasks' = {}
    /\ held' = held \ {"monitors", "channels"}
    /\ UNCHANGED <<ch, engines, irqVars, cdevVars, vlinked, nodes, threads, handlers,
                   statusVars>>

\* A channel's node, thread and interrupt handler.
ChannelUp ==
    /\ At("channel", IF ch = NChannels THEN "attrs" ELSE "channel") /\ NoFailure
    /\ ch' = ch + 1
    /\ nodes' = nodes \cup {ch} /\ threads' = threads \cup {ch}
    /\ handlers' = handlers \cup {ch}
    /\ UNCHANGED <<held, engines, irqVars, cdevVars, vlinked, monTasks, statusVars>>

\* One of them fails: xdma_video_free for every channel.
ChannelFails ==
    /\ At("channel", "vfree") /\ Failure
    /\ nodes' \in {nodes, nodes \cup {ch}}
    /\ ch' = 1
    /\ UNCHANGED <<held, engines, irqVars, cdevVars, vlinked, monTasks, threads, handlers,
                   statusVars>>
\* xdma_video_attr_create: the channels' status files; those that cannot be made
\* are left out.
AttrCreate ==
    /\ At("attrs", "drvdata") /\ NoFailure
    /\ status' \in SUBSET Channels
    /\ UNCHANGED <<ch, held, engines, irqVars, cdevVars, vlinked, monTasks, nodes, threads,
                   handlers, drvdata>>

\* The end of probe_one: dev_set_drvdata.
SetDrvdata ==
    /\ At("drvdata", "bound") /\ NoFailure
    /\ drvdata' = TRUE
    /\ UNCHANGED <<ch, held, engines, irqVars, cdevVars, vlinked, monTasks, nodes, threads,
                   handlers, status>>

\* A status file is read (xdma_channel_status_show): it looks for the device in
\* drvdata.  (Otherwise it reads counters, and nothing changes.)
ReadStatusCrash ==
    /\ status # {} /\ ~drvdata /\ Crash
    /\ UNCHANGED <<ch, held, engines, irqVars, cdevVars, videoVars>>
-----------------------------------------------------------------------------
\* remove_one, and the error exit of probe_one: xpdev_free.

Remove ==
    /\ At("bound", "destroy") /\ NoFailure
    /\ UNCHANGED <<ch, held, engines, irqVars, cdevVars, videoVars>>

\* xpdev_destroy_interfaces
Destroy ==
    /\ At("destroy", "attrremove") /\ NoFailure
    /\ cdevs' = cdevs \ flags
    /\ held' = held \ {"major"}
    /\ UNCHANGED <<ch, engines, irqVars, flags, videoVars>>

\* xdma_video_remove: xdma_video_attr_remove, which waits for readers, ...
AttrRemove ==
    /\ At("attrremove", "monfree") /\ NoFailure
    /\ status' = {}
    /\ UNCHANGED <<ch, held, engines, irqVars, cdevVars, vlinked, monTasks, nodes, threads,
                   handlers, drvdata>>

\* ... transfer_monitor_free stops and frees the monitors, ...
MonitorFree ==
    /\ MonitorsThere
    /\ At("monfree", "vfree") /\ NoFailure
    /\ monTasks' = {}
    /\ held' = held \ {"monitors"}
    /\ ch' = 1
    /\ UNCHANGED <<engines, irqVars, cdevVars, vlinked, nodes, threads, handlers,
                   statusVars>>

\* ... and does not ask whether they are there, also after xdma_video_add.
MonitorFreeCrash ==
    /\ pos = "monfree" \/ (pos = "v4l2" /\ monTasks # engines)
    /\ ~MonitorsThere /\ Crash
    /\ UNCHANGED <<ch, held, engines, irqVars, cdevVars, videoVars>>

\* xdma_video_free: a channel's thread is stopped, which waits for its transfer, and
\* its node removed.
ChannelFree ==
    /\ ch \in threads /\ \A x \in moving : x[1] # ch
    /\ At("vfree", IF ch = NChannels THEN "vput" ELSE "vfree") /\ NoFailure
    /\ ch' = ch + 1
    /\ threads' = threads \ {ch} /\ nodes' = nodes \ {ch}
    /\ UNCHANGED <<held, engines, irqVars, cdevVars, vlinked, monTasks, handlers, statusVars>>

\* kthread_stop is called for a thread that was never started.
ChannelFreeCrash ==
    /\ pos = "vfree" /\ ch \notin threads /\ Crash
    /\ UNCHANGED <<ch, held, engines, irqVars, cdevVars, videoVars>>

\* v4l2_device_put, the last reference: the channels' memory is freed.
VideoPut ==
    /\ At("vput", "close") /\ NoFailure
    /\ held' = held \ {"v4l2", "channels"}
    /\ ch' = 1
    /\ UNCHANGED <<engines, irqVars, cdevVars, videoVars>>

\* xdma_device_close: the interrupts are disabled, ...
Close ==
    /\ At("close", "teardown") /\ NoFailure
    /\ chanEnabled' = FALSE /\ userEnabled' = FALSE
    /\ UNCHANGED <<ch, held, engines, irqs, handling, dmaVars, cdevVars, videoVars>>

\* ... and irq_teardown frees the vectors, the engines' before the users'.
\* free_irq waits for a handler that runs.
FreeIrq ==
    /\ At("teardown", "teardown") /\ NoFailure
    /\ \E v \in irqs \ handling :
        /\ v \in UserVectors => irqs \subseteq UserVectors
        /\ irqs' = irqs \ {v}
    /\ UNCHANGED <<ch, held, engines, enableVars, handling, dmaVars, cdevVars, videoVars>>

TornDown ==
    /\ irqs = {}
    /\ At("teardown", "err_msix") /\ NoFailure
    /\ UNCHANGED <<ch, held, engines, irqVars, cdevVars, videoVars>>

\* kfree(xpdev), which holds the video device and the flags.
FreeXpdev ==
    /\ At("free_xpdev", "unbound")
    /\ failedAt' = "none" /\ UNCHANGED oops
    /\ held' = held \ {"xpdev"}
    /\ flags' = {} /\ vlinked' = FALSE /\ drvdata' = FALSE
    /\ UNCHANGED <<ch, engines, irqVars, cdevs, monTasks, nodes, threads, handlers, status>>
-----------------------------------------------------------------------------
\* xdma_xfer_submit by a channel's thread, on the engine it shares with another
\* channel (ch / 2), or by a process, under desc_lock.
Transfer(c, e) ==
    /\ ~oops /\ e \in engines /\ \A x \in moving : x[2] # e
    /\ \/ c = File /\ "sg" \in cdevs
       \/ c \in threads /\ e = (c + 1) \div 2
    /\ moving' = moving \cup {<<c, e>>}
    /\ running' = running \cup {e}
    /\ UNCHANGED <<posVars, held, engines, irqs, enableVars, handling, finished, work,
                   serving, stray, cdevVars, videoVars>>

\* The engine has moved everything: its status says so.
EngineEnds(e) ==
    /\ ~oops /\ e \in running
    /\ running' = running \ {e}
    /\ finished' = finished \cup {e}
    /\ UNCHANGED <<posVars, held, engines, irqs, enableVars, handling, moving, work, serving,
                   stray, cdevVars, videoVars>>

\* The handler disables the interrupt of the engine, its work item enables it again.
Masked(e) == e \in work \cup serving

\* xdma_channel_irq and xdma_user_irq begin, ...
Interrupt(v) ==
    /\ ~oops /\ v \in irqs \ handling
    /\ IF v[1] = "user" THEN userEnabled
       ELSE chanEnabled /\ v[2] \in finished /\ ~Masked(v[2])
    /\ handling' = handling \cup {v}
    /\ UNCHANGED <<posVars, held, engines, irqs, enableVars, dmaVars, cdevVars, videoVars>>

\* ... and return, that of an engine with schedule_work.
InterruptEnd(v) ==
    /\ ~oops /\ v \in handling
    /\ handling' = handling \ {v}
    /\ work' = IF v[1] = "engine" THEN work \cup {v[2]} ELSE work
    /\ UNCHANGED <<posVars, held, engines, irqs, enableVars, moving, running, finished,
                   serving, stray, cdevVars, videoVars>>

\* engine_service_work takes engine->lock and services the engine, unless it is zero.
WorkBegin(e) ==
    /\ ~oops /\ e \in work
    /\ work' = work \ {e}
    /\ serving' = serving \cup ({e} \cap engines)
    /\ finished' = finished \ {e}
    /\ stray' = stray \ ({e} \ engines)
    /\ UNCHANGED <<posVars, held, engines, irqs, enableVars, handling, moving, running,
                   cdevVars, videoVars>>

WorkEnd(e) ==
    /\ ~oops /\ e \in serving
    /\ serving' = serving \ {e}
    /\ stray' = stray \ {e}
    /\ UNCHANGED <<posVars, held, engines, irqs, enableVars, handling, moving, running,
                   finished, work, cdevVars, videoVars>>

\* A caller that was woken returns, without waiting for engine->lock.
TransferEnd_Unlocked(c, e) ==
    /\ ~oops /\ <<c, e>> \in moving
    /\ e \notin running \cup finished
    /\ moving' = moving \ {<<c, e>>}
    /\ UNCHANGED <<posVars, held, engines, irqs, enableVars, handling, running, finished,
                   work, serving, stray, cdevVars, videoVars>>

\* A caller whose transfer was serviced takes engine->lock and returns.
TransferEnd(c, e) ==
    /\ ~oops /\ <<c, e>> \in moving
    /\ e \notin running \cup finished \cup serving
    /\ moving' = moving \ {<<c, e>>}
    /\ UNCHANGED <<posVars, held, engines, irqs, enableVars, handling, running, finished,
                   work, serving, stray, cdevVars, videoVars>>

\* The wait times out: the transfer is aborted and the engine stopped.  An
\* interrupt or a work item that is under way still comes.
Timeout(c, e) ==
    /\ ~oops /\ <<c, e>> \in moving
    /\ e \in (running \cup finished) \ serving
    /\ moving' = moving \ {<<c, e>>}
    /\ running' = running \ {e}
    /\ stray' = stray \cup ({e} \cap finished)
    /\ UNCHANGED <<posVars, held, engines, irqs, enableVars, handling, finished, work,
                   serving, cdevVars, videoVars>>
-----------------------------------------------------------------------------
Open == OpenStep \/ OpenStepFails \/ ProbeEngines \/ EnableMsix \/ EnableMsixFails
        \/ IrqSetup \/ IrqSetupFails \/ Online \/ UndoStep \/ RemoveEngines
        \/ RemoveEnginesCrash \/ FreeXdev \/ FreeXdevCrash \/ OpenFailed
Interfaces == UserEnable \/ CreateGroup \/ CreateGroupFails
VideoAdd == VideoMemory \/ VideoMemoryFails \/ MonitorInit \/ MonitorInitCrash
            \/ V4l2Register \/ V4l2RegisterFails \/ ChannelUp \/ ChannelFails
            \/ AttrCreate \/ SetDrvdata
Free == Destroy \/ AttrRemove \/ MonitorFree \/ MonitorFreeCrash \/ ChannelFree
        \/ ChannelFreeCrash \/ VideoPut \/ Close \/ FreeIrq \/ TornDown \/ FreeXpdev

Next ==
    \/ ProbeAlloc \/ Open \/ Interfaces \/ VideoAdd
    \/ Remove \/ Free \/ ReadStatusCrash
    \/ \E v \in irqs \cup handling : Interrupt(v) \/ InterruptEnd(v)
    \/ \E e \in 1 .. MaxEngines :
        \/ EngineEnds(e) \/ WorkBegin(e) \/ WorkEnd(e)
        \/ \E c \in Callers : Transfer(c, e) \/ TransferEnd(c, e) \/ Timeout(c, e)

Spec == Init /\ [][Next]_vars
-----------------------------------------------------------------------------
\* Correctness.

Resources == {"xpdev", "xdev", "list", "enabled", "regions", "bars", "vectors",
              "major", "channels", "monitors", "v4l2"}
Positions ==
    DOMAIN Opening \cup DOMAIN Undo
    \cup {"unbound", "engines", "vectors", "irqs", "online", "err_engines", "free_xdev",
          "openfailed", "users", "cdev", "vmem", "monitors", "v4l2", "channel", "bound",
          "attrs", "drvdata", "destroy", "attrremove", "monfree", "vfree", "vput", "close",
          "teardown", "free_xpdev"}
Vectors == ({"engine"} \X (1 .. MaxEngines)) \cup ({"user"} \X Channels)

TypeOK ==
    /\ pos \in Positions /\ failedAt \in Positions \cup {"none"}
    /\ ch \in 1 .. NChannels + 1 /\ {oops, chanEnabled, userEnabled, vlinked, drvdata} \subseteq BOOLEAN
    /\ held \subseteq Resources
    /\ {engines, monTasks, running, finished, work, serving, stray} \subseteq SUBSET (1 .. MaxEngines)
    /\ moving \subseteq Callers \X (1 .. MaxEngines)
    /\ {irqs, handling} \subseteq SUBSET Vectors
    /\ {cdevs, flags} \subseteq SUBSET {Groups[i] : i \in 1 .. Len(Groups)}
    /\ {nodes, threads, handlers, status} \subseteq SUBSET Channels

\* An xdma_device_open that fails leaves nothing behind, except the device
\* enabled when its regions are in use, and the engines' vectors when a vector
\* cannot be requested.
OpenUnwinds ==
    pos = "openfailed" =>
        /\ held \subseteq {"xpdev"} \cup (IF failedAt = "regions" THEN {"enabled"} ELSE {})
        /\ engines = {}
        /\ failedAt # "irqs" => irqs = {}

\* A card that was removed leaves nothing behind, so that it can be bound again.
RemovedClean ==
    pos = "unbound" =>
        /\ held = {} /\ engines = {} /\ irqs = {} /\ cdevs = {}
        /\ nodes = {} /\ threads = {} /\ monTasks = {} /\ handlers = {} /\ handling = {}
        /\ status = {} /\ ~drvdata

\* So whichever way the device goes, all it had is given back.
LeavesNothing == OpenUnwinds /\ RemovedClean

\* A handler runs only while the device's memory and registers are there, the
\* handler of an engine while the engine is, and that of a channel while the
\* channel's memory is, but for the time from xdma_video_remove to the freeing
\* of the vectors in xdma_device_close.
HandlersHaveDevice ==
    /\ TypeOK
    /\ \A v \in handling :
        /\ {"xdev", "bars"} \subseteq held
        /\ v[1] = "engine" => v[2] \in engines
        /\ v[1] = "user" /\ v[2] \in handlers =>
               "channels" \in held \/ pos \in {"close", "teardown"}

\* Threads run, and status files are there to be read, only while the memory they
\* work on is.
ThreadsHaveMemory ==
    /\ status # {} => "channels" \in held
    /\ threads # {} => "channels" \in held
    /\ monTasks # {} => "monitors" \in held

\* Whatever runs beside the probe and the removal finds its memory.
RunsOnLiveMemory == HandlersHaveDevice /\ ThreadsHaveMemory

\* When every step of the probe went well, the driver does not crash: what the
\* removal stops and frees is there, and no work item is left of a transfer.  Except
\* that a status file may be read before probe_one has kept the device, that a file
\* may be in a transfer while its device goes, and that a work item may be left of a
\* transfer that ended as its caller gave up.
CrashNeedsFailure ==
    oops => \/ failedAt # "none"
            \/ status # {} /\ ~drvdata
            \/ \E x \in moving : x[1] = File
            \/ stray # {}
=============================================================================
