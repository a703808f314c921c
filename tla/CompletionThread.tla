--------------------------- MODULE CompletionThread ---------------------------
(***************************************************************************)
(* Polled mode: a completion thread (xdma_thread.c) serves the engines on  *)
(* its work list by polling the place where the hardware writes the number *)
(* of completed descriptors back (engine_service_poll in libxdma.c),       *)
(* instead of waiting for interrupts.  With it, the blocking requests it   *)
(* completes, the hardware, and the closing of the device, which takes the *)
(* engines off the work list and then stops the thread.                    *)
(*                                                                         *)
(* desc_lock allows one blocking request at a time on an engine, so an     *)
(* engine's queue has at most one transfer and desc_dequeued is zero       *)
(* whenever the engine runs.  A run of the hardware is one step; rings,    *)
(* splits and the interrupt path are in DmaEngine.                         *)
(***************************************************************************)
EXTENDS Integers, Sequences, FiniteSets, SequencesExt

CONSTANTS
    Engines,       \* the engines this thread serves
    Reqs,          \* callers of xdma_xfer_submit
    None,
    Counts,        \* the descriptor counts a transfer may have
    MaxReqs,       \* bound: requests made in a behaviour
    CanTimeout,    \* the waits of callers and the polling may time out, in some
                   \* behaviours
    CanFail        \* the hardware may report an error

ASSUME ThreadAssumption ==
    /\ None \notin Reqs \cup Engines \cup {"thread"}
    /\ IsFiniteSet(Engines) /\ Engines # {}
    /\ Counts \subseteq Nat \ {0}
    /\ MaxReqs \in Nat
    /\ {CanTimeout, CanFail} \subseteq BOOLEAN

VARIABLES
    \* the callers: where each is, the engine it uses, its transfer
    pc, eng, xnum, xstate, reqs,
    \* struct xdma_engine: the holder of desc_lock, the transfer queue,
    \* running, and whether engine->status shows an error
    descLock, queued, running, serr,
    \* the hardware: the caller whose transfer the channel runs, the
    \* completed count and error of its registers, the writeback location
    hwRun, hwCount, hwErr, wb,
    \* struct xdma_kthread: who holds its lock, its list and its flags
    threadLock, workList, schedule, should_stop,
    \* xthread_main: where it is, the engines left in this round, the count
    \* it expects, the writeback it read
    tpc, todo, texp, twb,
    \* the closing of the device
    dpc,
    \* whether waits time out in this behaviour
    impatient,
    \* history: the callers whose present transfer the hardware has moved
    moved

reqVars == <<pc, eng, xnum, xstate, reqs>>
engVars == <<descLock, queued, running, serr>>
hwVars == <<hwRun, hwCount, hwErr, wb>>
thrVars == <<threadLock, workList, schedule, should_stop>>
locVars == <<tpc, todo, texp, twb>>
devVars == <<dpc, impatient>>
vars == <<reqVars, engVars, hwVars, thrVars, locVars, devVars, moved>>

NoWb == [count |-> 0, err |-> FALSE]
Writebacks == [count : Nat, err : BOOLEAN]

Init ==
    /\ pc = [r \in Reqs |-> "idle"] /\ eng = [r \in Reqs |-> CHOOSE e \in Engines : TRUE]
    /\ xnum = [r \in Reqs |-> 0] /\ xstate = [r \in Reqs |-> "none"] /\ reqs = 0
    /\ descLock = [e \in Engines |-> None] /\ queued = [e \in Engines |-> None]
    /\ running = [e \in Engines |-> FALSE] /\ serr = [e \in Engines |-> FALSE]
    /\ hwRun = [e \in Engines |-> None] /\ hwCount = [e \in Engines |-> 0]
    /\ hwErr = [e \in Engines |-> FALSE] /\ wb = [e \in Engines |-> NoWb]
    /\ threadLock = None /\ workList = SetToSeq(Engines)
    /\ schedule = FALSE /\ should_stop = FALSE
    /\ tpc = "top" /\ todo = <<>> /\ texp = 0 /\ twb = NoWb
    /\ dpc = "open"
    /\ impatient \in BOOLEAN /\ (impatient => CanTimeout)
    /\ moved = {}
-----------------------------------------------------------------------------
\* An operator X_Fault, written before X, is X with the fault its comment
\* names: no specification uses it, it is there to be put in the place of X, to
\* see that a property notices.

\* engine_start on the transfer of r: the status register is read into
\* engine->status and not cleared; the writeback location is left as it is.
EngineStart(e, r) ==
    /\ running' = [running EXCEPT ![e] = TRUE]
    /\ hwRun' = [hwRun EXCEPT ![e] = r]
    /\ hwCount' = [hwCount EXCEPT ![e] = 0]
    /\ serr' = [serr EXCEPT ![e] = hwErr[e]]

\* A request enters xdma_xfer_submit.
Submit(r) ==
    /\ pc[r] = "idle" /\ reqs < MaxReqs /\ dpc = "open"
    /\ \E e \in Engines, n \in Counts :
        /\ eng' = [eng EXCEPT ![r] = e]
        /\ xnum' = [xnum EXCEPT ![r] = n]
    /\ xstate' = [xstate EXCEPT ![r] = "new"]
    /\ reqs' = reqs + 1
    /\ pc' = [pc EXCEPT ![r] = "lock"]
    /\ UNCHANGED <<engVars, hwVars, thrVars, locVars, devVars, moved>>

\* mutex_lock(&engine->desc_lock)
LockDesc(r) ==
    /\ pc[r] = "lock" /\ descLock[eng[r]] = None
    /\ descLock' = [descLock EXCEPT ![eng[r]] = r]
    /\ pc' = [pc EXCEPT ![r] = "queue"]
    /\ UNCHANGED <<eng, xnum, xstate, reqs, queued, running, serr, hwVars,
                   thrVars, locVars, devVars, moved>>

\* transfer_queue, under engine->lock.
Queue(r) ==
    LET e == eng[r]
    IN  /\ pc[r] = "queue"
        /\ xstate' = [xstate EXCEPT ![r] = "submitted"]
        /\ queued' = [queued EXCEPT ![e] = r]
        /\ IF running[e] THEN UNCHANGED <<running, hwRun, hwCount, serr>>
                         ELSE EngineStart(e, r)
        /\ pc' = [pc EXCEPT ![r] = "wake"]
        /\ UNCHANGED <<eng, xnum, reqs, descLock, hwErr, wb, thrVars, locVars,
                       devVars, moved>>

\* The thread is not woken.
Wake_Forgotten(r) ==
    /\ pc[r] = "wake"
    /\ pc' = [pc EXCEPT ![r] = "wait"]
    /\ UNCHANGED <<eng, xnum, xstate, reqs, engVars, hwVars, thrVars, locVars,
                   devVars, moved>>

\* A wake-up makes a sleeping thread look at its condition again.
WakeThread ==
    /\ tpc' = IF tpc = "asleep" THEN "look" ELSE tpc
    /\ UNCHANGED <<todo, texp, twb>>

\* xdma_kthread_wakeup
Wake(r) ==
    /\ pc[r] = "wake"
    /\ schedule' = TRUE
    /\ WakeThread
    /\ pc' = [pc EXCEPT ![r] = "wait"]
    /\ UNCHANGED <<eng, xnum, xstate, reqs, engVars, hwVars, threadLock,
                   workList, should_stop, devVars, moved>>

\* The wait of the caller ends.
Woken(r) ==
    /\ pc[r] = "wait"
    /\ xstate[r] # "submitted" \/ impatient
    /\ pc' = [pc EXCEPT ![r] = "reap"]
    /\ UNCHANGED <<eng, xnum, xstate, reqs, engVars, hwVars, thrVars, locVars,
                   devVars, moved>>

\* transfer_abort
Unqueued(e, r) == IF queued[e] = r THEN None ELSE queued[e]

\* The switch on xfer->state: a transfer still submitted is aborted and the
\* engine stopped; then transfer_destroy, the unlock and the return.
Reap(r) ==
    LET e == eng[r]
    IN  /\ pc[r] = "reap"
        /\ IF xstate[r] = "submitted"
           THEN /\ queued' = [queued EXCEPT ![e] = Unqueued(e, r)]
                /\ running' = [running EXCEPT ![e] = FALSE]
                /\ hwRun' = [hwRun EXCEPT ![e] = None]
                /\ serr' = [serr EXCEPT ![e] = hwErr[e]]
           ELSE UNCHANGED <<queued, running, hwRun, serr>>
        /\ xstate' = [xstate EXCEPT ![r] = "none"]
        /\ descLock' = [descLock EXCEPT ![e] = None]
        /\ pc' = [pc EXCEPT ![r] = "idle"]
        /\ xnum' = [xnum EXCEPT ![r] = 0]
        /\ moved' = moved \ {r}
        /\ UNCHANGED <<eng, reqs, hwCount, hwErr, wb, thrVars, locVars, devVars>>
-----------------------------------------------------------------------------
\* The hardware, at any moment of a run: the chain is moved, ...
HwDone(e) ==
    LET r == hwRun[e]
    IN  /\ r # None
        /\ moved' = moved \cup {r}
        /\ hwCount' = [hwCount EXCEPT ![e] = xnum[r]]
        /\ wb' = [wb EXCEPT ![e] = [count |-> xnum[r], err |-> FALSE]]
        /\ hwRun' = [hwRun EXCEPT ![e] = None]
        /\ UNCHANGED <<reqVars, engVars, hwErr, thrVars, locVars, devVars>>

\* ... or it stops in the middle with an error.  (At the first descriptor only
\* if waits time out: nothing else ends the request then, see ThreadService.)
HwFail(e) ==
    LET r == hwRun[e]
    IN  /\ r # None /\ CanFail
        /\ \E k \in (IF impatient THEN 0 ELSE 1) .. xnum[r] - 1 :
            /\ hwCount' = [hwCount EXCEPT ![e] = k]
            /\ wb' = [wb EXCEPT ![e] = [count |-> k, err |-> TRUE]]
        /\ hwErr' = [hwErr EXCEPT ![e] = TRUE]
        /\ hwRun' = [hwRun EXCEPT ![e] = None]
        /\ UNCHANGED <<reqVars, engVars, thrVars, locVars, devVars, moved>>
-----------------------------------------------------------------------------
\* xthread_main.

ThreadOnly == UNCHANGED <<reqVars, engVars, hwVars, devVars, moved>>

\* list_for_each_safe: on to the next engine; the locals are dead.
ThreadNext ==
    /\ todo' = Tail(todo) /\ tpc' = "work"
    /\ texp' = 0 /\ twb' = NoWb

\* while (!kthread_should_stop())
ThreadTop ==
    /\ tpc = "top"
    /\ tpc' = IF should_stop THEN "exited" ELSE "pending"
    /\ ThreadOnly /\ UNCHANGED <<thrVars, todo, texp, twb>>

\* xthread_work_pending, under the thread's lock and each engine's: the
\* thread keeps its lock if an engine on its list has a transfer.
ThreadPending ==
    /\ tpc = "pending" /\ threadLock = None
    /\ IF \E i \in 1 .. Len(workList) : queued[workList[i]] # None
       THEN tpc' = "clear" /\ threadLock' = "thread"
       ELSE tpc' = "look" /\ UNCHANGED threadLock
    /\ ThreadOnly /\ UNCHANGED <<workList, schedule, should_stop, todo, texp, twb>>

\* xthread_reschedule: wait_event_interruptible on schedule alone.
ThreadWait ==
    /\ tpc = "look"
    /\ tpc' = IF schedule THEN "relock" ELSE "asleep"
    /\ ThreadOnly /\ UNCHANGED <<thrVars, todo, texp, twb>>

ThreadRelock ==
    /\ tpc = "relock" /\ threadLock = None
    /\ threadLock' = "thread"
    /\ tpc' = "clear"
    /\ ThreadOnly /\ UNCHANGED <<workList, schedule, should_stop, todo, texp, twb>>

\* The round begins.
ThreadClear ==
    /\ tpc = "clear"
    /\ schedule' = FALSE
    /\ todo' = workList
    /\ tpc' = "work"
    /\ ThreadOnly /\ UNCHANGED <<threadLock, workList, should_stop, texp, twb>>

\* The round ends.
ThreadUnlock ==
    /\ tpc = "work" /\ todo = <<>>
    /\ threadLock' = None
    /\ tpc' = "top"
    /\ ThreadOnly /\ UNCHANGED <<workList, schedule, should_stop, todo, texp, twb>>

\* xdma_thread_cmpl_status_proc: the head of the queue is read without
\* engine->lock.  Of an empty queue the field read lies in the engine, in the
\* lock of its shutdown_wq, which is zero; zero ends the polling at once.
ThreadLook ==
    /\ tpc = "work" /\ todo # <<>>
    /\ LET r == queued[Head(todo)]
       IN  IF r = None
           THEN todo' = Tail(todo) /\ UNCHANGED <<tpc, texp>>
           ELSE tpc' = "read" /\ texp' = xnum[r] /\ UNCHANGED todo
    /\ ThreadOnly /\ UNCHANGED <<thrVars, twb>>

\* engine_service_wb_monitor: the writeback location is read, ...
ThreadRead ==
    /\ tpc = "read"
    /\ twb' = wb[Head(todo)]
    /\ tpc' = IF wb[Head(todo)] = NoWb THEN "test" ELSE "zero"
    /\ ThreadOnly /\ UNCHANGED <<thrVars, todo, texp>>

\* ... cleared if it was not zero, ...
ThreadZero ==
    /\ tpc = "zero"
    /\ wb' = [wb EXCEPT ![Head(todo)] = NoWb]
    /\ tpc' = "test"
    /\ UNCHANGED <<reqVars, engVars, hwRun, hwCount, hwErr, thrVars, todo, texp,
                   twb, devVars, moved>>

Enough == twb.err \/ twb.count >= texp

\* ... and compared; on a timeout what was read is what there is.
ThreadTest ==
    /\ tpc = "test"
    /\ \/ ~Enough /\ tpc' = "read" /\ UNCHANGED <<todo, texp, twb>>
       \/ /\ Enough \/ (impatient /\ twb # NoWb)
          /\ tpc' = "service" /\ UNCHANGED <<todo, texp, twb>>
       \/ impatient /\ twb = NoWb /\ ThreadNext
    /\ ThreadOnly /\ UNCHANGED thrVars

\* Whatever was written back completes the transfer.
Outcome_Completed(n, count, err) == "completed"

\* engine_service_transfer_list completes a transfer of n descriptors the
\* count goes beyond, engine_service_final_transfer decides on the last one.
Outcome(n, count, err) ==
    IF count <= n /\ (err \/ count < n) THEN "failed" ELSE "completed"

\* engine_service(engine, desc_wb), under engine->lock.  Of a writeback with
\* an error, or without a count, status and count are read from the registers;
\* a count of zero leaves the transfer on the queue.
ThreadService ==
    LET e == Head(todo)
        r == queued[e]
        readStatus == ~running[e] \/ twb.count = 0 \/ twb.err
        err == IF readStatus THEN hwErr[e] ELSE serr[e]
        count == IF twb.count = 0 THEN hwCount[e] ELSE twb.count
        stops == running[e] /\ (twb.count # 0 \/ hwRun[e] = None)
    IN  /\ tpc = "service"
        /\ serr' = [serr EXCEPT ![e] = err]
        /\ hwErr' = [hwErr EXCEPT ![e] = @ /\ ~readStatus]
        /\ running' = [running EXCEPT ![e] = @ /\ ~stops]
        /\ hwRun' = [hwRun EXCEPT ![e] = IF stops THEN None ELSE @]
        /\ IF running[e] /\ count # 0 /\ r # None
           THEN /\ queued' = [queued EXCEPT ![e] = None]
                /\ xstate' = [xstate EXCEPT ![r] = Outcome(xnum[r], count, err)]
           ELSE UNCHANGED <<queued, xstate>>
        /\ ThreadNext
        /\ UNCHANGED <<pc, eng, xnum, reqs, descLock, hwCount, wb, thrVars,
                       devVars, moved>>

Thread ==
    \/ ThreadTop \/ ThreadPending \/ ThreadWait \/ ThreadRelock \/ ThreadClear
    \/ ThreadUnlock \/ ThreadLook \/ ThreadRead \/ ThreadZero \/ ThreadTest
    \/ ThreadService
-----------------------------------------------------------------------------
\* The device is closed.  Submitters are gone by then.

\* The thread's lock is not taken.
CloseRemove_Unlocked ==
    /\ dpc \in {"open", "closing"} /\ \A r \in Reqs : pc[r] = "idle"
    /\ workList # <<>>
    /\ workList' = Tail(workList)
    /\ dpc' = "closing"
    /\ UNCHANGED <<reqVars, engVars, hwVars, threadLock, schedule, should_stop,
                   locVars, impatient, moved>>

\* xdma_thread_remove_work for each engine, whose memory is cleared after it; ...
CloseRemove ==
    /\ dpc \in {"open", "closing"} /\ \A r \in Reqs : pc[r] = "idle"
    /\ workList # <<>> /\ threadLock = None
    /\ workList' = Tail(workList)
    /\ dpc' = "closing"
    /\ UNCHANGED <<reqVars, engVars, hwVars, threadLock, schedule, should_stop,
                   locVars, impatient, moved>>

\* The thread is stopped without being given something to do.
StopSchedule_Not ==
    /\ dpc = "closing" /\ workList = <<>>
    /\ dpc' = "stop"
    /\ UNCHANGED <<reqVars, engVars, hwVars, thrVars, locVars, impatient, moved>>

\* ... then xdma_kthread_stop: schedule is set, without a wake-up, ...
StopSchedule ==
    /\ dpc = "closing" /\ workList = <<>>
    /\ schedule' = TRUE
    /\ dpc' = "stop"
    /\ UNCHANGED <<reqVars, engVars, hwVars, threadLock, workList, should_stop,
                   locVars, impatient, moved>>

\* ... kthread_stop tells the thread to stop and wakes it, ...
StopStop ==
    /\ dpc = "stop"
    /\ should_stop' = TRUE
    /\ WakeThread
    /\ dpc' = "join"
    /\ UNCHANGED <<reqVars, engVars, hwVars, threadLock, workList, schedule,
                   impatient, moved>>

\* ... and waits for its end.
StopJoin ==
    /\ dpc = "join" /\ tpc = "exited"
    /\ dpc' = "closed"
    /\ UNCHANGED <<reqVars, engVars, hwVars, thrVars, locVars, impatient, moved>>
-----------------------------------------------------------------------------
Caller(r) == LockDesc(r) \/ Queue(r) \/ Wake(r) \/ Woken(r) \/ Reap(r)
Hardware(e) == HwDone(e) \/ HwFail(e)
Close == CloseRemove \/ StopSchedule \/ StopStop \/ StopJoin

Next ==
    \/ \E r \in Reqs : Submit(r) \/ Caller(r)
    \/ \E e \in Engines : Hardware(e)
    \/ Thread
    \/ Close

Spec == Init /\ [][Next]_vars

\* Callers inside a call and the thread are scheduled, desc_lock is handed to
\* its waiters, a run of the hardware ends, a closing that began goes on.
Fairness ==
    /\ \A r \in Reqs : SF_vars(LockDesc(r))
                       /\ WF_vars(Queue(r) \/ Wake(r) \/ Woken(r) \/ Reap(r))
    /\ \A e \in Engines : WF_vars(Hardware(e))
    /\ WF_vars(Thread)
    /\ WF_vars(StopSchedule \/ StopStop \/ StopJoin)

FairSpec == Spec /\ Fairness
-----------------------------------------------------------------------------
\* Correctness.

ReqTypeOK ==
    /\ pc \in [Reqs -> {"idle", "lock", "queue", "wake", "wait", "reap"}]
    /\ eng \in [Reqs -> Engines] /\ xnum \in [Reqs -> Nat] /\ reqs \in Nat
    /\ xstate \in [Reqs -> {"none", "new", "submitted", "completed", "failed"}]
    /\ moved \subseteq Reqs

EngTypeOK ==
    /\ descLock \in [Engines -> Reqs \cup {None}] /\ queued \in [Engines -> Reqs \cup {None}]
    /\ running \in [Engines -> BOOLEAN] /\ serr \in [Engines -> BOOLEAN]

HwTypeOK ==
    /\ hwRun \in [Engines -> Reqs \cup {None}] /\ hwCount \in [Engines -> Nat]
    /\ hwErr \in [Engines -> BOOLEAN] /\ wb \in [Engines -> Writebacks]

ThreadTypeOK ==
    /\ threadLock \in {None, "thread"} /\ schedule \in BOOLEAN /\ should_stop \in BOOLEAN
    /\ workList \in Seq(Engines) /\ todo \in Seq(Engines)
    /\ texp \in Nat /\ twb \in Writebacks
    /\ tpc \in {"top", "pending", "look", "asleep", "relock", "clear", "work", "read",
                "zero", "test", "service", "exited"}
    /\ tpc \in {"read", "zero", "test", "service"} => todo # <<>>

TypeOK ==
    /\ ReqTypeOK /\ EngTypeOK /\ HwTypeOK /\ ThreadTypeOK
    /\ dpc \in {"open", "closing", "stop", "join", "closed"} /\ impatient \in BOOLEAN

\* A transfer reported as completed has been moved by the hardware.
CompletedMeansMoved == \A r \in Reqs : xstate[r] = "completed" => r \in moved

\* So it is as long as no wait times out.
PatientlyMoved == ~impatient => CompletedMeansMoved

\* No wake-up is lost: the thread does not sleep on an engine with a transfer
\* unless the caller is still about to wake it.
NoSleepOnWork ==
    tpc = "asleep" =>
        \A e \in Engines : queued[e] # None => pc[queued[e]] = "wake"

\* The thread polls, and services, only engines on its work list: an engine
\* whose memory is cleared is not in its hands.
PollsWorkList ==
    tpc \in {"read", "zero", "test", "service"} =>
        \E i \in 1 .. Len(workList) : workList[i] = Head(todo)

\* A transfer on the queue belongs to a caller that is inside
\* xdma_xfer_submit and holds desc_lock; the hardware runs no other.
QueuedIsHeld ==
    \A e \in Engines :
        /\ queued[e] # None =>
               descLock[e] = queued[e] /\ pc[queued[e]] \in {"wake", "wait", "reap"}
        /\ hwRun[e] # None => running[e] /\ queued[e] = hwRun[e]

\* xdma_threads_destroy ends when it finds the thread asleep.  (A thread that is
\* awake may use up the wake-up that was meant to end it, and sleep for ever.)
DestroyEnds ==
    dpc = "closing" /\ workList = <<>> /\ tpc = "asleep" ~> dpc = "closed"
=============================================================================
