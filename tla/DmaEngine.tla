------------------------------ MODULE DmaEngine ------------------------------
(***************************************************************************)
(* One scatter-gather DMA engine of the driver (struct xdma_engine in      *)
(* libxdma.c): blocking submitters (xdma_xfer_submit), non-blocking ones   *)
(* (xdma_xfer_submit_nowait), the descriptor ring they share, the          *)
(* hardware channel, its interrupt handler and the work item that          *)
(* services the engine, and the PCI error path that takes the device       *)
(* offline and back.                                                       *)
(*                                                                         *)
(* A blocking requester owns one transfer <<r, 1>>, which it reuses; a     *)
(* non-blocking one owns the two transfers of struct xdma_request_cb.      *)
(* Sections under engine->lock are single actions, except the work item,   *)
(* which reads hardware registers several times while it holds the lock.   *)
(***************************************************************************)
EXTENDS Integers, Sequences

CONSTANTS
    Sync,          \* requesters that call xdma_xfer_submit
    Aio,           \* requesters that call xdma_xfer_submit_nowait
    None,          \* no transfer, no requester
    DescMax,       \* engine->desc_max, the size of the descriptor ring
    ReqDescs,      \* the sizes (in descriptors) a request may have
    CountMod,      \* the modulus of the u32 descriptor counts
    MaxReqs,       \* bound: requests made in a behaviour
    MaxResets,     \* bound: times the device goes offline
    CanTimeout,    \* a blocking wait may time out or be interrupted
    CanFail,       \* the hardware may report a descriptor error ...
    FailAtFirst,   \* ... even before the first descriptor of a run is done
    CanVanish,     \* the registers of the engine may not answer
    Overcommit     \* non-blocking requests may exceed the descriptor ring

Reqs  == Sync \cup Aio
Xfers == Reqs \X {1, 2}
Ring  == 0 .. DescMax - 1

ASSUME EngineAssumption ==
    /\ Sync \cap Aio = {}
    /\ None \notin Xfers
    /\ None \notin Reqs
    /\ DescMax \in Nat \ {0}
    /\ ReqDescs \subseteq Nat \ {0}
    /\ \A n \in ReqDescs : n <= DescMax     \* tfer[2] has room for the split
    /\ CountMod \in Nat \ {0}
    /\ MaxReqs \in Nat
    /\ MaxResets \in Nat
    /\ {CanTimeout, CanFail, FailAtFirst, CanVanish, Overcommit} \subseteq BOOLEAN

VARIABLES
    \* the requesters
    pc,            \* where each requester is in its submit function
    nents,         \* descriptors not yet put in a transfer
    tfer,          \* tfer_idx + 1
    done,          \* descriptors the request has been told are done
    descLock,      \* holder of engine->desc_lock
    reqs,          \* requests made (bounded by MaxReqs)
    \* struct xdma_transfer, by transfer
    xstate, xidx, xnum, xlast,
    \* struct xdma_engine
    running, shutdown, transferList, descIdx, dequeued, ring,
    \* the work item, and what it read while it holds engine->lock
    work, wpc, werr, wcount,
    \* the hardware channel
    hwBusy, hwPos, hwCount, hwStat, armed,
    \* the device
    irqOn, offline, dpc, resets,
    \* history: the transfer the channel was started for, the descriptors
    \* it moved for each request, the transfers it reported an error in,
    \* whether waits may time out in this behaviour
    hwXfer, moved, faulted, impatient

reqVars == <<pc, nents, tfer, done, descLock, reqs>>
xferVars == <<xstate, xidx, xnum, xlast>>
engVars == <<running, shutdown, transferList, descIdx, dequeued, ring>>
workVars == <<work, wpc, werr, wcount>>
hwVars == <<hwBusy, hwPos, hwCount, hwStat, armed>>
devVars == <<irqOn, offline, dpc, resets>>
histVars == <<hwXfer, moved, faulted, impatient>>
vars == <<reqVars, xferVars, engVars, workVars, hwVars, devVars, histVars>>

PCs == {"idle", "lock", "init", "queue", "enqueue", "wait", "reap",
        "destroy", "async"}
XferStates == {"none", "new", "submitted", "completed", "failed", "aborted"}
Free == [own |-> None, last |-> FALSE]
Descriptors == [own : Xfers \cup {None}, last : BOOLEAN]

Init ==
    /\ pc = [r \in Reqs |-> "idle"]
    /\ nents = [r \in Reqs |-> 0]
    /\ tfer = [r \in Reqs |-> 1]
    /\ done = [r \in Reqs |-> 0]
    /\ descLock = None
    /\ reqs = 0
    /\ xstate = [t \in Xfers |-> "none"]
    /\ xidx = [t \in Xfers |-> 0]
    /\ xnum = [t \in Xfers |-> 0]
    /\ xlast = [t \in Xfers |-> FALSE]
    /\ running = FALSE
    /\ shutdown = {}
    /\ transferList = <<>>
    /\ descIdx = 0
    /\ dequeued = 0
    /\ ring = [i \in Ring |-> Free]
    /\ work = FALSE /\ wpc = "idle" /\ werr = FALSE /\ wcount = 0
    /\ hwBusy = FALSE /\ hwPos = 0 /\ hwCount = 0 /\ hwStat = {} /\ armed = TRUE
    /\ irqOn = TRUE /\ offline = FALSE /\ dpc = "up" /\ resets = 0
    /\ hwXfer = None
    /\ moved = [r \in Reqs |-> 0]
    /\ faulted = {} /\ impatient \in {FALSE, CanTimeout}
-----------------------------------------------------------------------------
\* Helpers.  An operator X_Fault, written before X, is X with the fault its
\* comment names: no specification uses it, it is there to be put in the place of
\* X, to see that a property notices.

\* engine->lock is held across actions by the work item alone.
LockFree == wpc = "idle"

Current(r) == <<r, tfer[r]>>
Slots(t) == {i \in Ring : xidx[t] <= i /\ i < xidx[t] + xnum[t]}

\* transfer_init: as many descriptors as the request needs, cut at the end of
\* the ring.
ChainLength(n) ==
    LET want == IF n < DescMax THEN n ELSE DescMax
    IN  IF descIdx + want >= DescMax THEN DescMax - descIdx ELSE want

\* The ring without the descriptors of the transfers ts (xdma_desc_done).
Recycle(ts) ==
    [i \in Ring |-> IF \E t \in ts : i \in Slots(t) THEN Free ELSE ring[i]]

\* xdma_engine_stop: the channel stops at a descriptor boundary.
EngineStop == running' = FALSE /\ hwBusy' = FALSE

\* The count of the previous run is kept.
EngineStart_KeepsCount(q) ==
    /\ shutdown' = {} /\ hwPos' = xidx[Head(q)] /\ hwCount' = 0 /\ hwBusy' = TRUE
    /\ running' = TRUE /\ hwXfer' = Head(q)
    /\ UNCHANGED dequeued

\* engine_start on the head of a non-empty queue q.
EngineStart(q) ==
    /\ shutdown' = {}
    /\ dequeued' = 0
    /\ hwPos' = xidx[Head(q)]
    /\ hwCount' = 0
    /\ hwBusy' = TRUE
    /\ running' = TRUE
    /\ hwXfer' = Head(q)

\* The interrupt stays masked.
Rearm_Never == UNCHANGED armed

\* The channel's interrupt is unmasked.
Rearm == armed' = TRUE

\* The shutdown of the engine goes unnoticed.
ShutdownRequested_Never == FALSE
ShutdownRequested == "REQUEST" \in shutdown

\* A transfer is put before those that wait.
Queued_AtHead(t) == <<t>> \o transferList
Queued(t) == Append(transferList, t)

\* transfer_abort: the transfer leaves the queue if it is at its head.
Unqueued(t) ==
    IF transferList # <<>> /\ Head(transferList) = t
    THEN Tail(transferList) ELSE transferList
-----------------------------------------------------------------------------
\* Submission.

\* A request enters xdma_xfer_submit or xdma_xfer_submit_nowait and is split
\* in n descriptors (xdma_init_request).
Submit(r) ==
    /\ pc[r] = "idle" /\ reqs < MaxReqs
    /\ ~offline
    /\ \E n \in ReqDescs :
        /\ nents' = [nents EXCEPT ![r] = n]
        /\ pc' = [pc EXCEPT ![r] = IF r \in Sync THEN "lock" ELSE "init"]
    /\ tfer' = [tfer EXCEPT ![r] = 1]
    /\ done' = [done EXCEPT ![r] = 0]
    /\ reqs' = reqs + 1
    /\ moved' = [moved EXCEPT ![r] = 0]
    /\ UNCHANGED <<descLock, xferVars, engVars, workVars, hwVars, devVars,
                   hwXfer, faulted, impatient>>

\* Nobody waits for the lock.
DescLockFree_Always == TRUE
DescLockFree == descLock = None

\* mutex_lock(&engine->desc_lock)
LockDesc(r) ==
    /\ pc[r] = "lock" /\ DescLockFree
    /\ descLock' = r
    /\ pc' = [pc EXCEPT ![r] = "init"]
    /\ UNCHANGED <<nents, tfer, done, reqs, xferVars, engVars, workVars,
                   hwVars, devVars, histVars>>

\* The assumption that stands for Overcommit = FALSE: the descriptors a
\* transfer is about to use are not those of another one.
RingHasRoom(n) ==
    \A i \in Ring : descIdx <= i /\ i < descIdx + n => ring[i] = Free

TransferInit(r) ==
    /\ pc[r] = "init" /\ LockFree
    /\ LET t == Current(r)
           n == ChainLength(nents[r])
       IN  /\ Overcommit \/ RingHasRoom(n)
           /\ xstate' = [xstate EXCEPT ![t] = "new"]
           /\ xidx' = [xidx EXCEPT ![t] = descIdx]
           /\ xnum' = [xnum EXCEPT ![t] = n]
           /\ xlast' = [xlast EXCEPT ![t] = (n = nents[r])]
           /\ nents' = [nents EXCEPT ![r] = @ - n]
           /\ ring' = [i \in Ring |->
                IF descIdx <= i /\ i < descIdx + n
                THEN [own |-> t, last |-> i = descIdx + n - 1]
                ELSE ring[i]]
           /\ descIdx' = (descIdx + n) % DescMax
           /\ faulted' = faulted \ {t}
    /\ pc' = [pc EXCEPT ![r] = "queue"]
    /\ UNCHANGED <<tfer, done, descLock, reqs, running, shutdown, transferList,
                   dequeued, workVars, hwVars, devVars, hwXfer, moved, impatient>>

\* The refused request keeps the lock.
Refuse_KeepsLock(r) ==
    /\ pc' = [pc EXCEPT ![r] = "idle"]
    /\ xstate' = [t \in Xfers |-> IF t[1] = r THEN "none" ELSE xstate[t]]
    /\ UNCHANGED <<nents, tfer, done, descLock, reqs, xidx, xnum, xlast, engVars,
                   workVars, hwVars, devVars, histVars>>

\* transfer_queue returns -EBUSY: the request is freed with its transfers,
\* and the descriptors stay as they are.
Refuse(r) ==
    /\ pc' = [pc EXCEPT ![r] = "idle"]
    /\ descLock' = IF r \in Sync THEN None ELSE descLock
    /\ xstate' = [t \in Xfers |-> IF t[1] = r THEN "none" ELSE xstate[t]]
    /\ UNCHANGED <<nents, tfer, done, reqs, xidx, xnum, xlast, engVars,
                   workVars, hwVars, devVars, histVars>>

\* transfer_queue, up to the offline check that precedes the lock.
QueueCheck(r) ==
    /\ pc[r] = "queue"
    /\ \/ offline /\ Refuse(r)
       \/ /\ ~offline
          /\ pc' = [pc EXCEPT ![r] = "enqueue"]
          /\ UNCHANGED <<nents, tfer, done, descLock, reqs, xferVars, engVars,
                         workVars, hwVars, devVars, histVars>>

\* transfer_queue, under engine->lock.
Enqueue(r) ==
    LET t == Current(r)
    IN  /\ pc[r] = "enqueue" /\ LockFree
        /\ ~ShutdownRequested
        /\ xstate' = [xstate EXCEPT ![t] = "submitted"]
        /\ transferList' = Queued(t)
        /\ IF running
           THEN UNCHANGED <<running, shutdown, dequeued, hwBusy, hwPos, hwCount, hwXfer>>
           ELSE EngineStart(Queued(t))
        /\ pc' = [pc EXCEPT ![r] = IF r \in Sync THEN "wait"
                                   ELSE IF nents[r] > 0 THEN "init" ELSE "async"]
        /\ tfer' = [tfer EXCEPT ![r] = IF r \in Aio /\ nents[r] > 0 THEN 2 ELSE @]
        /\ UNCHANGED <<nents, done, descLock, reqs, xidx, xnum, xlast, descIdx,
                       ring, workVars, hwStat, armed, devVars, moved, faulted, impatient>>

EnqueueRefused(r) ==
    /\ pc[r] = "enqueue" /\ LockFree
    /\ ShutdownRequested
    /\ Refuse(r)
-----------------------------------------------------------------------------
\* A blocking request waits, then deals with the outcome.

Woken(r) ==
    /\ pc[r] = "wait"
    /\ xstate[<<r, 1>>] # "submitted" \/ impatient
    /\ pc' = [pc EXCEPT ![r] = "reap"]
    /\ UNCHANGED <<nents, tfer, done, descLock, reqs, xferVars, engVars,
                   workVars, hwVars, devVars, histVars>>

\* The switch on xfer->state, under engine->lock.  A transfer still submitted
\* is aborted (transfer_abort removes it only if it is the head of the queue)
\* and the engine is stopped; unless its registers no longer answer, in which
\* case both are left as they are.
Reap(r) ==
    LET t == <<r, 1>>
    IN  /\ pc[r] = "reap" /\ LockFree
        /\ pc' = [pc EXCEPT ![r] = "destroy"]
        /\ done' = [done EXCEPT ![r] = IF xstate[t] = "completed" THEN @ + xnum[t] ELSE @]
        /\ \/ /\ xstate[t] \in {"completed", "failed"} \/ CanVanish
              /\ UNCHANGED <<xstate, transferList, running, hwBusy>>
           \/ /\ xstate[t] = "submitted"
              /\ xstate' = [xstate EXCEPT ![t] = "aborted"]
              /\ transferList' = Unqueued(t)
              /\ EngineStop
        /\ UNCHANGED <<nents, tfer, descLock, reqs, xidx, xnum, xlast, shutdown,
                       descIdx, dequeued, ring, workVars, hwPos, hwCount,
                       hwStat, armed, devVars, histVars>>

\* transfer_destroy, outside the lock; then the next transfer of the request,
\* or the return.
Destroy(r) ==
    LET t == <<r, 1>>
        more == xstate[t] = "completed" /\ nents[r] > 0
    IN  /\ pc[r] = "destroy"
        /\ ring' = Recycle({t})
        /\ xstate' = [xstate EXCEPT ![t] = "none"]
        /\ pc' = [pc EXCEPT ![r] = IF more THEN "init" ELSE "idle"]
        /\ descLock' = IF more THEN descLock ELSE None
        /\ UNCHANGED <<nents, tfer, done, reqs, xidx, xnum, xlast, running,
                       shutdown, transferList, descIdx, dequeued, workVars,
                       hwVars, devVars, histVars>>
-----------------------------------------------------------------------------
\* The hardware channel.

\* Moves the data of one descriptor; the last one of a chain stops the
\* channel and raises its interrupt.
HwMove ==
    LET d == ring[hwPos]
    IN  /\ hwBusy /\ d.own # None
        /\ moved' = [moved EXCEPT ![d.own[1]] = @ + 1]
        /\ hwCount' = hwCount + 1
        /\ IF d.last
           THEN /\ hwBusy' = FALSE
                /\ hwStat' = hwStat \cup {"done"}
                /\ UNCHANGED hwPos
           ELSE /\ hwPos' = hwPos + 1
                /\ UNCHANGED <<hwBusy, hwStat>>
        /\ UNCHANGED <<reqVars, xferVars, engVars, workVars, armed, devVars,
                       hwXfer, faulted, impatient>>

\* A descriptor error: a read error, or a descriptor without its magic number.
DescriptorBad ==
    ring[hwPos].own = None \/ (CanFail /\ (hwCount > 0 \/ FailAtFirst))

HwError ==
    /\ hwBusy /\ DescriptorBad
    /\ hwBusy' = FALSE
    /\ hwStat' = hwStat \cup {"err"}
    /\ faulted' = faulted \cup {hwXfer}
    /\ UNCHANGED <<reqVars, xferVars, engVars, workVars, hwPos, hwCount, armed,
                   devVars, hwXfer, moved, impatient>>

\* xdma_channel_irq: masks the engine's interrupt and schedules the work item.
ChannelIrq ==
    /\ irqOn /\ armed /\ hwStat # {}
    /\ armed' = FALSE
    /\ work' = TRUE
    /\ UNCHANGED <<reqVars, xferVars, engVars, wpc, werr, wcount, hwBusy,
                   hwPos, hwCount, hwStat, devVars, histVars>>
-----------------------------------------------------------------------------
\* The work item: engine_service_work and engine_service(engine, 0).

\* The engine was not running: the status is cleared, no more.
WorkIdle ==
    /\ work /\ LockFree /\ ~running
    /\ work' = FALSE
    /\ hwStat' = {}
    /\ Rearm
    /\ UNCHANGED <<reqVars, xferVars, engVars, wpc, werr, wcount, hwBusy,
                   hwPos, hwCount, devVars, histVars>>

\* The status is read and cleared; an engine that is no longer busy is stopped.
WorkBegin ==
    /\ work /\ LockFree /\ running
    /\ work' = FALSE
    /\ wpc' = "count"
    /\ werr' = ("err" \in hwStat)
    /\ hwStat' = {}
    /\ running' = hwBusy
    /\ UNCHANGED <<reqVars, xferVars, shutdown, transferList, descIdx, dequeued,
                   ring, wcount, hwBusy, hwPos, hwCount, armed, devVars, histVars>>

\* The completed count is read; zero ends the service.
WorkCount ==
    /\ wpc = "count"
    /\ IF hwCount = 0
       THEN wpc' = "idle" /\ Rearm /\ UNCHANGED wcount
       ELSE wpc' = "list" /\ wcount' = (hwCount - dequeued) % CountMod /\ UNCHANGED armed
    /\ UNCHANGED <<reqVars, xferVars, engVars, work, werr, hwBusy,
                   hwPos, hwCount, hwStat, devVars, histVars>>

\* xdma_xfer_completion of a non-blocking request r whose last transfer just
\* got its outcome (st: the states with that outcome).  The first transfer
\* that failed ends it; the transfers after that are not recycled.
Reaped(r, st) ==
    {t \in {<<r, 1>>, <<r, 2>>} :
        /\ t[2] <= tfer[r]
        /\ t[2] = 2 => st[<<r, 1>>] = "completed"}

EndsRequest(t) == t[1] \in Aio /\ xlast[t]

\* engine_transfer_completion of t, whose state becomes s.
Complete(t, s) ==
    LET r == t[1]
        st == [xstate EXCEPT ![t] = s]
        ts == Reaped(r, st)
        Len1(x) == IF x \in ts /\ st[x] = "completed" THEN xnum[x] ELSE 0
    IN  IF EndsRequest(t)
        THEN /\ xstate' = [x \in Xfers |-> IF x[1] = r THEN "none" ELSE st[x]]
             /\ ring' = Recycle(ts)
             /\ done' = [done EXCEPT ![r] = Len1(<<r, 1>>) + Len1(<<r, 2>>)]
             /\ pc' = [pc EXCEPT ![r] = "idle"]
        ELSE /\ xstate' = st
             /\ UNCHANGED <<ring, done, pc>>

\* One iteration of engine_service_transfer_list.
WorkPop ==
    LET t == Head(transferList)
    IN  /\ wpc = "list"
        /\ transferList # <<>> /\ wcount > xnum[t]
        /\ wcount' = wcount - xnum[t]
        /\ transferList' = Tail(transferList)
        /\ dequeued' = dequeued + xnum[t]
        /\ Complete(t, "completed")
        /\ UNCHANGED <<nents, tfer, descLock, reqs, xidx, xnum, xlast, running,
                       shutdown, descIdx, work, wpc, werr, hwVars, devVars,
                       histVars>>

\* A stopped engine is not started again for the transfers that wait.
Resume_NoRestart(q, run, deq) ==
    /\ running' = (run /\ q # <<>>)
    /\ hwBusy' = (hwBusy /\ run /\ q # <<>>)
    /\ dequeued' = deq
    /\ UNCHANGED <<shutdown, hwPos, hwCount, hwXfer>>

\* engine_service_resume with the queue q, an engine that runs or not, and deq
\* descriptors dequeued.
Resume(q, run, deq) ==
    IF q # <<>> /\ ~run
    THEN EngineStart(q)
    ELSE /\ running' = (run /\ q # <<>>)
         /\ hwBusy' = (hwBusy /\ run /\ q # <<>>)
         /\ shutdown' = IF ~run /\ ShutdownRequested
                        THEN shutdown \cup {"IDLE"} ELSE shutdown
         /\ dequeued' = deq
         /\ UNCHANGED <<hwPos, hwCount, hwXfer>>

\* The transfer is taken for completed, without a look.
Outcome_Completed(t) == "completed"

\* engine_service_final_transfer: the outcome of the transfer at the head.
Outcome(t) == IF werr \/ wcount < xnum[t] THEN "failed" ELSE "completed"

\* engine_service_final_transfer, engine_service_resume, the unmasking of the
\* interrupt and the unlock.
WorkFinal ==
    LET t == Head(transferList)
    IN  /\ wpc = "list"
        /\ transferList # <<>> => wcount <= xnum[t]
        /\ IF transferList = <<>>
           THEN /\ Resume(transferList, running, dequeued)
                /\ UNCHANGED <<xstate, transferList, ring, done, pc>>
           ELSE /\ Complete(t, Outcome(t))
                /\ transferList' = Tail(transferList)
                /\ Resume(Tail(transferList), running /\ ~werr,
                          IF werr THEN dequeued ELSE dequeued + xnum[t])
        /\ wpc' = "idle"
        /\ Rearm
        /\ UNCHANGED <<nents, tfer, descLock, reqs, xidx, xnum, xlast, descIdx,
                       work, werr, wcount, hwStat, devVars, moved, faulted, impatient>>
-----------------------------------------------------------------------------
\* The PCI error path.

\* xdma_device_offline: the flag, ...
OfflineFlag ==
    /\ dpc = "up" /\ resets < MaxResets
    /\ resets' = resets + 1
    /\ offline' = TRUE
    /\ dpc' = "stop"
    /\ UNCHANGED <<reqVars, xferVars, engVars, workVars, hwVars, irqOn, histVars>>

\* ... the engine, under its lock, ...
OfflineStop ==
    /\ dpc = "stop" /\ LockFree
    /\ shutdown' = shutdown \cup {"REQUEST"}
    /\ EngineStop
    /\ dpc' = "irq"
    /\ UNCHANGED <<reqVars, xferVars, transferList, descIdx, dequeued, ring,
                   workVars, hwPos, hwCount, hwStat, armed, irqOn, offline,
                   resets, histVars>>

\* ... and the interrupts; the device is then reset.
OfflineIrq ==
    /\ dpc = "irq"
    /\ irqOn' = FALSE
    /\ hwStat' = {} /\ hwBusy' = FALSE
    /\ dpc' = "down"
    /\ UNCHANGED <<reqVars, xferVars, engVars, workVars, hwPos, hwCount, armed,
                   offline, resets, histVars>>

\* xdma_device_online: engine_init_regs and the end of the shutdown, ...
OnlineEngine ==
    /\ dpc = "down" /\ LockFree
    /\ Rearm
    /\ shutdown' = shutdown \ {"REQUEST"}
    /\ dpc' = "online"
    /\ UNCHANGED <<reqVars, xferVars, running, transferList, descIdx, dequeued,
                   ring, workVars, hwBusy, hwPos, hwCount, hwStat, irqOn,
                   offline, resets, histVars>>

\* ... the interrupts, the flag.
OnlineFlag ==
    /\ dpc = "online"
    /\ irqOn' = TRUE
    /\ offline' = FALSE
    /\ dpc' = "up"
    /\ UNCHANGED <<reqVars, xferVars, engVars, workVars, hwVars, resets, histVars>>
-----------------------------------------------------------------------------
Requester(r) ==
    \/ Submit(r) \/ LockDesc(r) \/ TransferInit(r) \/ QueueCheck(r)
    \/ Enqueue(r) \/ EnqueueRefused(r)
    \/ Woken(r) \/ Reap(r) \/ Destroy(r)

Hardware == HwMove \/ HwError
Work == WorkIdle \/ WorkBegin \/ WorkCount \/ WorkPop \/ WorkFinal
Device == OfflineFlag \/ OfflineStop \/ OfflineIrq \/ OnlineEngine \/ OnlineFlag

Next ==
    \/ \E r \in Reqs : Requester(r)
    \/ Hardware
    \/ ChannelIrq
    \/ Work
    \/ Device

Spec == Init /\ [][Next]_vars

\* The scheduler runs every thread and the work queue, the channel makes
\* progress, the interrupt is delivered, a wait with a timeout ends.  Nothing
\* obliges anyone to make a request or the device to go offline.
Fairness ==
    /\ \A r \in Sync : SF_vars(LockDesc(r))
    /\ \A r \in Reqs : WF_vars(TransferInit(r) \/ QueueCheck(r) \/ Enqueue(r)
                               \/ EnqueueRefused(r) \/ Woken(r) \/ Reap(r) \/ Destroy(r))
    /\ WF_vars(Hardware)
    /\ WF_vars(ChannelIrq)
    /\ WF_vars(Work)
    /\ WF_vars(OfflineStop \/ OfflineIrq \/ OnlineEngine \/ OnlineFlag)

FairSpec == Spec /\ Fairness
-----------------------------------------------------------------------------
\* Correctness.

ReqTypeOK ==
    /\ pc \in [Reqs -> PCs] /\ nents \in [Reqs -> Nat]
    /\ tfer \in [Reqs -> {1, 2}] /\ done \in [Reqs -> Nat]
    /\ descLock \in Reqs \cup {None} /\ reqs \in Nat
XferTypeOK ==
    /\ xstate \in [Xfers -> XferStates]
    /\ xidx \in [Xfers -> Ring] /\ xnum \in [Xfers -> Nat] /\ xlast \in [Xfers -> BOOLEAN]
EngTypeOK ==
    /\ running \in BOOLEAN /\ shutdown \in SUBSET {"REQUEST", "IDLE"}
    /\ transferList \in Seq(Xfers)
    /\ descIdx \in Ring /\ dequeued \in Nat /\ ring \in [Ring -> Descriptors]
WorkTypeOK ==
    work \in BOOLEAN /\ wpc \in {"idle", "count", "list"} /\ werr \in BOOLEAN /\ wcount \in Nat
HwTypeOK ==
    /\ hwBusy \in BOOLEAN /\ armed \in BOOLEAN
    /\ hwPos \in Ring /\ hwCount \in Nat /\ hwStat \in SUBSET {"done", "err"}
DevTypeOK ==
    /\ irqOn \in BOOLEAN /\ offline \in BOOLEAN
    /\ dpc \in {"up", "stop", "irq", "down", "online"} /\ resets \in Nat
HistTypeOK ==
    hwXfer \in Xfers \cup {None} /\ moved \in [Reqs -> Nat] /\ faulted \in SUBSET Xfers
    /\ impatient \in BOOLEAN

TypeOK ==
    ReqTypeOK /\ XferTypeOK /\ EngTypeOK /\ WorkTypeOK /\ HwTypeOK /\ DevTypeOK /\ HistTypeOK

\* As long as no wait times out: while the channel runs, the descriptor it is
\* about to fetch is one of the transfer it was started for (no recycled, reused
\* or overwritten descriptor is ever fetched), and between the calls of the work
\* item that transfer is the head of the queue.
RunOwnsDescriptors ==
    ~impatient =>
        /\ hwBusy => ring[hwPos].own = hwXfer
        /\ LockFree /\ running => transferList # <<>> /\ hwXfer = Head(transferList)

\* What the driver counts as done for a request (and returns to its caller)
\* the channel has moved.
DoneMeansMoved ==
    \A r \in Reqs :
        LET Ended(k) == IF xstate[<<r, k>>] = "completed" /\ pc[r] # "destroy"
                        THEN xnum[<<r, k>>] ELSE 0
        IN  done[r] + Ended(1) + Ended(2) <= moved[r]

\* As long as no wait times out, the outcome of a transfer is the channel's:
\* what is counted as done was moved, and what failed was running when the
\* channel reported an error.
OutcomeIsTrue ==
    ~impatient =>
        DoneMeansMoved /\ \A t \in Xfers : xstate[t] = "failed" => t \in faulted

\* From the moment xdma_device_offline stops the engine to xdma_device_online
\* nothing starts it, whoever was about to, and nothing forgets the request.
QuiescedOffline ==
    dpc \in {"irq", "down"} => "REQUEST" \in shutdown /\ ~running /\ ~hwBusy

\* The channel never runs behind the driver's back: an engine the driver takes
\* for idle, and may start, is idle.
BusyIsRunning == hwBusy => running

\* A cause of interrupt is never lost: the interrupt is armed, or the work
\* item that will clear it and arm it is on its way.
InterruptNotLost == hwStat # {} /\ irqOn => armed \/ work \/ wpc # "idle"

\* An engine nobody looks after does nothing that needs looking after: the
\* channel runs only while the driver takes it to run, and its causes of
\* interrupt have an armed interrupt or a work item on its way.
EngineAttended == BusyIsRunning /\ InterruptNotLost

\* engine->transfer_list holds what is in flight and nothing else: every
\* outcome, abort or end takes a transfer off it, and a blocking request on it
\* is inside its wait and holds desc_lock, so that no other can be.
QueueIsInFlight ==
    \A i \in 1 .. Len(transferList) :
        LET r == transferList[i][1]
        IN  /\ xstate[transferList[i]] = "submitted"
            /\ r \in Sync => descLock = r /\ pc[r] \in {"wait", "reap"}

\* Every request returns, or is completed by its callback: blocking ones, among
\* themselves, because their waits time out; with non-blocking ones among them,
\* as long as none does.
EveryRequestEnds ==
    \A r \in Reqs : pc[r] # "idle" /\ (impatient <=> Aio = {}) ~> pc[r] = "idle"
=============================================================================
