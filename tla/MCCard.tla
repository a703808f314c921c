------------------------------- MODULE MCCard -------------------------------
(***************************************************************************)
(* Cards as the driver takes them up, seen in one of three ways: what is   *)
(* acquired and given back when every step may fail (DeviceLifecycle),     *)
(* what is found out about a card and written into it (CardSetup), or the  *)
(* list of devices and the threads they share (ThreadPool).                *)
(***************************************************************************)
EXTENDS Integers, Sequences, FiniteSets

CONSTANTS
    MaxEngines, NChannels,
    MaxChannels, UserMax, PerWord, Pins, MaxShares,
    Devices, None, NumThreads, Cpus, MaxIdx, MaxSwitches

\* What BARs a card may have: the layouts that are documented, with absent BARs
\* between them, and some that are not.
Layouts ==
    {<<"config">>, <<"absent", "config">>, <<"user", "absent", "config">>,
     <<"config", "bypass">>, <<"user", "config", "bypass">>,
     <<"user">>, <<"user", "other", "config">>, <<"user", "other", "config", "bypass">>}

VARIABLES
    use,
    \* DeviceLifecycle
    pos, ch, failedAt, oops, held, engines, irqs, chanEnabled, userEnabled, handling,
    moving, running, finished, work, serving, stray, cdevs, flags, vlinked, monTasks, nodes, threads, handlers, status, drvdata,
    \* CardSetup
    card, chanVec, userVec, chanEn, userEn, ie, wb, poll_mode, interrupt_mode, at,
    mishap, mapped, config_bar, user_bar, bypass_bar, h2c_channel_max,
    c2h_channel_max, irq_bit, msix_irq_line, enabled, requested, irq_line, shares,
    mask_irq_user, astray,
    \* ThreadPool
    polled, switches, where, idx, alive, xdev_list, cs_threads, thread_cnt, tasks,
    work_list, work_cnt, cmplthp, look, v, best, undisturbed, trouble

lifeVars == <<pos, ch, failedAt, oops, held, engines, irqs, chanEnabled, userEnabled,
              handling, moving, running, finished, work, serving, stray, cdevs, flags, vlinked, monTasks, nodes, threads, handlers, status,
              drvdata>>
setupVars == <<card, chanVec, userVec, chanEn, userEn, ie, wb, poll_mode, interrupt_mode,
               at, mishap, mapped, config_bar, user_bar, bypass_bar, h2c_channel_max,
               c2h_channel_max, irq_bit, msix_irq_line, enabled, requested, irq_line, shares,
               mask_irq_user, astray>>
poolVars == <<polled, switches, where, idx, alive, xdev_list, cs_threads, thread_cnt, tasks,
              work_list, work_cnt, cmplthp, look, v, best, undisturbed, trouble>>

Life == INSTANCE DeviceLifecycle
Setup == INSTANCE CardSetup
Pool == INSTANCE ThreadPool WITH poll_mode <- polled, pos <- where, mishap <- trouble

ASSUME CardsAssumption ==
    Life!LifecycleAssumption /\ Setup!CardAssumption /\ Pool!PoolAssumption

\* One card for the views that do not ask what the card is like, and one in which
\* the BARs vary.
ACard(bars) == [bars |-> bars, h2c |-> 1, c2h |-> 2, caps |-> {"msix"}, pin |-> 1]

InitCard ==
    /\ use \in {"life", "setup", "pool"}
    /\ Life!Init /\ Setup!Init /\ Pool!Init
    /\ card.bars # <<"config">> \/ use # "setup" => card = ACard(card.bars)
    /\ use # "setup" => card.bars = <<"config">>
    /\ use # "pool" => ~polled

NextCard ==
    \/ use = "life" /\ Life!Next /\ UNCHANGED <<use, setupVars, poolVars>>
    \/ use = "setup" /\ Setup!Next /\ UNCHANGED <<use, lifeVars, poolVars>>
    \/ use = "pool" /\ Pool!Next /\ UNCHANGED <<use, lifeVars, setupVars>>

SpecCard == InitCard /\ [][NextCard]_<<use, lifeVars, setupVars, poolVars>>
-----------------------------------------------------------------------------
\* Properties, each stated in its module.

\* Whichever way the device goes, all it had is given back (xdma_device_open,
\* remove_one).
LeavesNothing == Life!LeavesNothing

\* Whatever runs beside the probe and the removal finds its memory, a work item of
\* an engine included, and the driver crashes only when a step of the probe failed,
\* a status file was read before the probe was over, a process was in a transfer
\* while the device went, or a work item was left of a transfer whose caller gave
\* up (xdma_video_remove, free_irq, schedule_work, engine_destroy).
RunsOnLiveMemory == Life!RunsOnLiveMemory /\ Life!CrashNeedsFailure

\* A card is known for what it is, its interrupts arrive, and are given back
\* (identify_bars, irq_setup, xdma_device_online).
SetupHolds == Setup!SetupHolds

\* Every polled engine has a thread that runs, an idle one if there is one, and
\* the threads come and go with the devices (xdma_thread_add_work).
PoolHolds == Pool!PoolHolds
=============================================================================
