----------------------------- MODULE ThreadPool -----------------------------
(***************************************************************************)
(* The list of devices (libxdma.c) and the completion threads the devices  *)
(* share in polled mode (xdma_thread.c): the threads come with the first   *)
(* device and go with the last, and every engine is given to one of them   *)
(* when it is set up and taken from it when it is destroyed.  Devices are  *)
(* opened and closed side by side; poll_mode can be written at any time.   *)
(*                                                                         *)
(* What a thread does for its engines is in CompletionThread.              *)
(***************************************************************************)
EXTENDS Naturals, Sequences, FiniteSets, SequencesExt

CONSTANTS
    Devices, None,
    NumThreads,    \* the channels a device can have
    Cpus,          \* that are online
    MaxEngines,    \* bound: engines of a device
    MaxIdx,        \* bound: the number given to a device
    MaxSwitches    \* bound: writes of poll_mode

\* What is assumed of the constants; the modules this one is checked in assume it.
PoolAssumption ==
    /\ None \notin Nat /\ IsFiniteSet(Devices)
    /\ {NumThreads, Cpus} \subseteq Nat \ {0}
    /\ {MaxEngines, MaxIdx, MaxSwitches} \subseteq Nat

VARIABLES
    \* the module parameter, and how often it was written
    poll_mode, switches,
    \* by device: where it is, its number, the engines that are set up; the list
    pos, idx, alive, xdev_list,
    \* cs_threads and thread_cnt, threads that run, by thread the engines on its
    \* list (in what order is left out) and their count, by engine the thread
    cs_threads, thread_cnt, tasks, work_list, work_cnt, cmplthp,
    \* xdma_thread_add_work, by device: the thread it looks at, v and idx, and
    \* whether no other engine came or went since it began
    look, v, best, undisturbed,
    \* what went wrong; after a crash, or with threads in freed memory, anything
    \* can happen
    mishap

devVars == <<pos, idx, alive, xdev_list>>
poolVars == <<cs_threads, thread_cnt, tasks, work_list, work_cnt, cmplthp>>
scanVars == <<look, v, best, undisturbed>>
poolAll == <<poll_mode, switches, devVars, poolVars, scanVars, mishap>>

Engines == Devices \X (1 .. MaxEngines)
Most == IF NumThreads < Cpus THEN NumThreads ELSE Cpus
Threads == 0 .. Most - 1

Init ==
    /\ poll_mode \in BOOLEAN /\ switches = 0
    /\ pos = [d \in Devices |-> "closed"] /\ idx = [d \in Devices |-> 0]
    /\ alive = [d \in Devices |-> {}] /\ xdev_list = <<>>
    /\ cs_threads = FALSE /\ thread_cnt = 0 /\ tasks = {}
    /\ work_list = [t \in Threads |-> {}] /\ work_cnt = [t \in Threads |-> 0]
    /\ cmplthp = [e \in Engines |-> None]
    /\ look = [d \in Devices |-> 0] /\ v = [d \in Devices |-> 0]
    /\ best = [d \in Devices |-> 0] /\ undisturbed = [d \in Devices |-> TRUE]
    /\ mishap = {}
-----------------------------------------------------------------------------
\* An operator X_Fault, written before X, is X with the fault its comment
\* names: no specification uses it, it is there to be put in the place of X, to
\* see that a property notices.

At(d, from, to) == pos[d] = from /\ pos' = [pos EXCEPT ![d] = to]

\* xdma_threads_create, by the first device, is to make threads.
Creates == xdev_list = <<>> /\ poll_mode /\ thread_cnt = 0

\* xdev_list_add, under xdev_mutex.
ListAdd(d) ==
    /\ At(d, "closed", "probe")
    /\ LET n == IF xdev_list = <<>> THEN 0 ELSE idx[Last(xdev_list)] + 1
       IN  n <= MaxIdx /\ idx' = [idx EXCEPT ![d] = n]
    /\ xdev_list' = Append(xdev_list, d)
    /\ IF Creates
       THEN /\ cs_threads' = TRUE /\ thread_cnt' = Most /\ tasks' = Threads
            /\ work_list' = [t \in Threads |-> {}] /\ work_cnt' = [t \in Threads |-> 0]
            /\ UNCHANGED cmplthp
       ELSE UNCHANGED poolVars
    /\ UNCHANGED <<poll_mode, switches, alive, scanVars, mishap>>

\* There is no memory, or a thread cannot be started: the memory is freed, with
\* the threads before it running in it.
ListAddFails ==
    /\ Creates
    /\ \E d \in Devices : pos[d] = "closed"
    /\ \E started \in SUBSET Threads :
        /\ \E n \in Threads : started = 0 .. n - 1
        /\ tasks' = tasks \cup started
        /\ mishap' = IF started = {} THEN mishap ELSE mishap \cup {"strays"}
    /\ UNCHANGED <<poll_mode, switches, devVars, cs_threads, thread_cnt, work_list, work_cnt,
                   cmplthp, scanVars>>

\* engine_init: the next engine is set up, and in polled mode is to get a thread.
EngineInit(d) ==
    /\ Cardinality(alive[d]) < MaxEngines
    /\ At(d, "probe", IF poll_mode THEN "scan" ELSE "probe")
    /\ alive' = [alive EXCEPT ![d] = @ \cup {Cardinality(@) + 1}]
    /\ look' = [look EXCEPT ![d] = 0] /\ v' = [v EXCEPT ![d] = 0]
    /\ best' = [best EXCEPT ![d] = thread_cnt]
    /\ undisturbed' = [undisturbed EXCEPT ![d] = TRUE]
    /\ UNCHANGED <<poll_mode, switches, idx, xdev_list, poolVars, mishap>>

\* xdma_thread_add_work looks at a thread, under the thread's lock: the first is
\* taken, another instead if it has less to do than the first had, and the first
\* of the others that is idle ends the search.
Look(d) ==
    LET t == look[d]
        idle == work_cnt[t] = 0 /\ best[d] # thread_cnt
    IN
    /\ pos[d] = "scan" /\ t < thread_cnt
    /\ IF best[d] = thread_cnt
       THEN best' = [best EXCEPT ![d] = t] /\ v' = [v EXCEPT ![d] = work_cnt[t]]
       ELSE /\ best' = IF idle \/ work_cnt[t] < v[d] THEN [best EXCEPT ![d] = t] ELSE best
            /\ UNCHANGED v
    /\ look' = [look EXCEPT ![d] = IF idle THEN thread_cnt ELSE t + 1]
    /\ UNCHANGED <<poll_mode, switches, devVars, poolVars, undisturbed, mishap>>

Disturbed(d) == undisturbed' = [o \in Devices |-> undisturbed[o] /\ o = d]

\* The engine is put on the list of the thread.
Place(d) ==
    LET e == <<d, Cardinality(alive[d])>>
        t == best[d]
    IN
    /\ thread_cnt > 0 /\ look[d] >= thread_cnt
    /\ At(d, "scan", "probe")
    /\ work_list' = [work_list EXCEPT ![t] = @ \cup {e}]
    /\ work_cnt' = [work_cnt EXCEPT ![t] = @ + 1]
    /\ cmplthp' = [cmplthp EXCEPT ![e] = t]
    /\ Disturbed(d)
    /\ UNCHANGED <<poll_mode, switches, idx, alive, xdev_list, cs_threads, thread_cnt, tasks,
                   look, v, best, mishap>>

\* There is no thread: the lock at cs_threads, which is NULL, is taken.
PlaceCrash(d) ==
    /\ pos[d] = "scan" /\ thread_cnt = 0
    /\ mishap' = mishap \cup {"crash"}
    /\ UNCHANGED <<poll_mode, switches, devVars, poolVars, scanVars>>

\* The last engine was found, the device is open.
Probed(d) ==
    /\ At(d, "probe", "open")
    /\ UNCHANGED <<poll_mode, switches, idx, alive, xdev_list, poolVars, scanVars, mishap>>

\* The device is closed, or its open fails.
Close(d) ==
    /\ At(d, "open", "closing")
    /\ UNCHANGED <<poll_mode, switches, idx, alive, xdev_list, poolVars, scanVars, mishap>>

\* The engine stays on its thread's list.
RemoveWork_Left(e) == cmplthp' = [cmplthp EXCEPT ![e] = None] /\ UNCHANGED <<work_list, work_cnt>>

\* xdma_thread_remove_work
RemoveWork(e) ==
    LET t == cmplthp[e] IN
    IF t = None THEN UNCHANGED <<work_list, work_cnt, cmplthp>>
    ELSE /\ cmplthp' = [cmplthp EXCEPT ![e] = None]
         /\ work_list' = [work_list EXCEPT ![t] = @ \ {e}]
         /\ work_cnt' = [work_cnt EXCEPT ![t] = @ - 1]

\* engine_destroy, of the first engine there is; its memory is cleared, with the
\* links of the list it may still be on.
EngineDestroy(d) ==
    /\ pos[d] = "closing" /\ alive[d] # {}
    /\ \E k \in alive[d] :
        /\ \A o \in alive[d] : k <= o
        /\ alive' = [alive EXCEPT ![d] = @ \ {k}]
        /\ IF poll_mode
           THEN RemoveWork(<<d, k>>) /\ UNCHANGED mishap
           ELSE /\ mishap' = IF cmplthp[<<d, k>>] = None THEN mishap ELSE mishap \cup {"crash"}
                /\ UNCHANGED <<work_list, work_cnt, cmplthp>>
    /\ Disturbed(d)
    /\ UNCHANGED <<poll_mode, switches, pos, idx, xdev_list, cs_threads, thread_cnt, tasks,
                   look, v, best>>

\* xdma_threads_destroy: the threads are stopped, their memory is freed.
ThreadsDestroy ==
    /\ cs_threads' = FALSE /\ thread_cnt' = 0
    /\ tasks' = tasks \ (0 .. thread_cnt - 1)
    /\ UNCHANGED <<work_list, work_cnt, cmplthp>>

\* xdev_list_remove, under xdev_mutex; the device is freed.
ListRemove(d) ==
    /\ alive[d] = {}
    /\ At(d, "closing", "closed")
    /\ \E i \in DOMAIN xdev_list : xdev_list[i] = d /\ xdev_list' = RemoveAt(xdev_list, i)
    /\ idx' = [idx EXCEPT ![d] = 0]
    /\ IF poll_mode /\ xdev_list' = <<>> THEN ThreadsDestroy ELSE UNCHANGED poolVars
    /\ UNCHANGED <<poll_mode, switches, alive, scanVars, mishap>>

\* /sys/module/.../poll_mode is written.
Switch ==
    /\ switches < MaxSwitches
    /\ switches' = switches + 1 /\ poll_mode' = ~poll_mode
    /\ mishap' = IF xdev_list = <<>> THEN mishap ELSE mishap \cup {"switched"}
    /\ UNCHANGED <<devVars, poolVars, scanVars>>

Next ==
    /\ mishap \subseteq {"switched"}
    /\ \/ \E d \in Devices :
            \/ ListAdd(d) \/ EngineInit(d) \/ Look(d) \/ Place(d) \/ PlaceCrash(d)
            \/ Probed(d) \/ Close(d) \/ EngineDestroy(d) \/ ListRemove(d)
       \/ ListAddFails \/ Switch

Spec == Init /\ [][Next]_poolAll
-----------------------------------------------------------------------------
\* Properties.

Where == {"closed", "probe", "scan", "open", "closing"}

\* Types.
TypeOK ==
    /\ pos \in [Devices -> Where] /\ idx \in [Devices -> 0 .. MaxIdx]
    /\ alive \in [Devices -> SUBSET (1 .. MaxEngines)] /\ xdev_list \in Seq(Devices)
    /\ {poll_mode, cs_threads} \subseteq BOOLEAN
    /\ thread_cnt \in 0 .. Most /\ tasks \subseteq Threads
    /\ work_list \in [Threads -> SUBSET Engines] /\ work_cnt \in [Threads -> Nat]
    /\ cmplthp \in [Engines -> Threads \cup {None}]
    /\ best \in [Devices -> 0 .. Most] /\ mishap \subseteq {"strays", "crash", "switched"}

\* The engines of a device that are set up, and not just getting a thread.
Served == {e \in Engines : /\ e[2] \in alive[e[1]]
                           /\ pos[e[1]] = "scan" => e[2] < Cardinality(alive[e[1]])}

\* In polled mode each engine that is set up is on the list of one thread, once,
\* and that thread runs; no engine that was destroyed is on a list
\* (xdma_thread_add_work, xdma_thread_remove_work).
EachEngineServed ==
    \A t \in Threads :
        /\ work_cnt[t] = Cardinality(work_list[t])
        /\ work_list[t] = {e \in Served : poll_mode /\ cmplthp[e] = t}
        /\ work_cnt[t] > 0 => t \in tasks /\ t < thread_cnt
EachHasThread == poll_mode => \A e \in Served : cmplthp[e] \in Threads

\* The threads are there while a polled device is, however devices come and go
\* (xdev_list_add, xdev_list_remove).
ThreadsWithDevices ==
    /\ cs_threads <=> poll_mode /\ xdev_list # <<>>
    /\ tasks = 0 .. thread_cnt - 1 /\ (cs_threads <=> thread_cnt > 0)

\* The devices on the list have numbers of their own (xdev_list_add).
OwnNumbers == \A d, o \in ToSet(xdev_list) : idx[d] = idx[o] => d = o

\* While a thread is idle, no other engine is added to a busy one, unless others
\* were added or removed during the search (xdma_thread_add_work).
IdleFirst ==
    \A d \in Devices :
        pos[d] = "scan" /\ thread_cnt > 0 /\ look[d] >= thread_cnt /\ undisturbed[d] =>
            work_cnt[best[d]] = 0 \/ \A t \in 0 .. thread_cnt - 1 : work_cnt[t] > 0

\* All of it, unless poll_mode is changed under a device or a thread that does
\* not start leaves others behind.
PoolHolds ==
    /\ TypeOK /\ OwnNumbers
    /\ mishap = {} => EachEngineServed /\ EachHasThread /\ ThreadsWithDevices /\ IdleFirst
=============================================================================
