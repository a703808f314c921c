------------------------------ MODULE PerfRun ------------------------------
(***************************************************************************)
(* The performance measurement of an engine (the PERF ioctls of            *)
(* cdev_sgdma.c, xdma_performance_submit and engine_cyclic_stop of         *)
(* libxdma.c): a ring of descriptors linked to itself moves one buffer     *)
(* over and over until it is stopped, on an engine that blocking requests  *)
(* of other threads use as well.                                           *)
(*                                                                         *)
(* The ioctls take no lock of their own.  How requests are built and       *)
(* completed is in DmaEngine; here they are what the measurement meets.    *)
(* After a step that uses or frees memory that is not there or not its own *)
(* nothing is said of the system (wild).                                   *)
(***************************************************************************)
EXTENDS Integers, Sequences, FiniteSets

CONSTANTS
    Requests,      \* blocking requests, each made again and again
    Askers,        \* threads that make the ioctls
    MaxStarts      \* bound: measurements asked for

\* What is assumed of the constants; the modules this one is checked in assume it.
PerfAssumption ==
    MaxStarts \in Nat /\ "cyclic" \notin Requests /\ "none" \notin Requests

VARIABLES
    \* engine->xdma_perf and engine->perf_buf_virt
    xdma_perf, perf_buf,
    \* engine->transfer_list, engine->running; whether engine->desc is there;
    \* whose descriptors are in the first slots of the ring
    list, runs, desc, slots,
    \* where each request and each ioctl is, and the transfer a stop picked
    state, at, pick,
    \* the device is offline
    gone,
    \* what went wrong or met; memory was misused; measurements asked for
    trouble, wrecked, starts

driverVars == <<xdma_perf, perf_buf, list, runs, desc, slots>>
perfVars == <<driverVars, state, at, pick, gone, trouble, wrecked, starts>>

Cyclic == "cyclic"

Init ==
    /\ xdma_perf = FALSE /\ perf_buf = FALSE
    /\ list = <<>> /\ runs = FALSE /\ desc = TRUE /\ slots = "free"
    /\ state = [r \in Requests |-> "idle"]
    /\ at = [i \in Askers |-> "idle"] /\ pick = [i \in Askers |-> "none"]
    /\ gone = FALSE /\ trouble = {} /\ wrecked = FALSE /\ starts = 0

Listed(t) == \E p \in DOMAIN list : list[p] = t

\* list_del: an entry of t leaves the list.
Without(t) ==
    LET p == CHOOSE k \in DOMAIN list : list[k] = t
    IN  IF Listed(t) THEN [k \in 1 .. Len(list) - 1 |-> IF k < p THEN list[k] ELSE list[k + 1]]
        ELSE list

Busy == \E r \in Requests : state[r] # "idle"
Goes(i, from, to) == at[i] = from /\ at' = [at EXCEPT ![i] = to]

\* An ioctl comes while another one is under way.
Raced(i) == IF \E j \in Askers \ {i} : at[j] # "idle" THEN {"raced"} ELSE {}
-----------------------------------------------------------------------------
\* An operator X_Fault, written before X, is X with the fault its comment
\* names: no specification uses it, it is there to be put in the place of X, to
\* see that a property notices.

\* ioctl_do_perf_start finds no measurement; otherwise it returns -EBUSY.
StartCheck(i) ==
    /\ Goes(i, "idle", "claim") /\ ~xdma_perf
    /\ starts < MaxStarts /\ starts' = starts + 1
    /\ trouble' = trouble \cup Raced(i)
    /\ UNCHANGED <<driverVars, state, pick, gone, wrecked>>

\* engine->xdma_perf is allocated.
StartClaim(i) ==
    /\ Goes(i, "claim", "fill")
    /\ xdma_perf' = TRUE
    /\ trouble' = trouble \cup (IF Busy THEN {"shared"} ELSE {})
    /\ UNCHANGED <<perf_buf, list, runs, desc, slots, state, pick, gone, wrecked, starts>>

\* The version is another one, the buffer too large, or memory short: the
\* ioctl returns the error, and engine->xdma_perf stays.
StartFails(i) ==
    /\ Goes(i, "fill", "idle")
    /\ trouble' = trouble \cup {"refused"}
    /\ UNCHANGED <<driverVars, state, pick, gone, wrecked, starts>>

\* xdma_performance_submit allocates the buffer and fills the ring from its
\* first slot on, whoever has descriptors there.
Fill(i) ==
    /\ Goes(i, "fill", "queue")
    /\ perf_buf' = TRUE /\ slots' = Cyclic /\ desc' = TRUE
    /\ UNCHANGED <<xdma_perf, list, runs, state, pick, gone, trouble, wrecked, starts>>

\* transfer_queue: a transfer goes on the list, and an engine at rest starts.
Enqueue(t) == list' = Append(list, t) /\ runs' = TRUE

PerfQueue(i) ==
    /\ Goes(i, "queue", "idle") /\ ~gone
    /\ Enqueue(Cyclic)
    /\ UNCHANGED <<xdma_perf, perf_buf, desc, slots, state, pick, gone, trouble, wrecked, starts>>

\* transfer_queue refuses, the device is offline: engine->desc is forgotten,
\* and a transfer that is on no list is deleted from it.
PerfRefused(i) ==
    /\ Goes(i, "queue", "idle") /\ gone
    /\ desc' = FALSE /\ wrecked' = TRUE
    /\ UNCHANGED <<xdma_perf, perf_buf, list, runs, slots, state, pick, gone, trouble, starts>>

\* engine_cyclic_stop, without engine->lock, picks the head of the list; with
\* no measurement, or nothing on the list, the ioctl returns an error.
StopPick(i) ==
    /\ Goes(i, "idle", "stop") /\ xdma_perf /\ list # <<>>
    /\ pick' = [pick EXCEPT ![i] = Head(list)]
    /\ trouble' = trouble \cup Raced(i)
    /\ UNCHANGED <<driverVars, state, gone, wrecked, starts>>

\* The buffer stays.
StopDelete_Buffer(i) ==
    /\ Goes(i, "stop", "copy")
    /\ runs' = FALSE
    /\ IF pick[i] = Cyclic
       THEN /\ list' = Without(Cyclic)
            /\ wrecked' = ~Listed(Cyclic)
       ELSE UNCHANGED <<list, wrecked>>
    /\ UNCHANGED <<xdma_perf, perf_buf, desc, slots, state, pick, gone, trouble, starts>>

\* It stops the engine; a cyclic transfer is deleted from the list, where
\* another may have done it by now, and the buffer freed.  A transfer that is
\* not cyclic stays on it.
StopDelete(i) ==
    /\ Goes(i, "stop", "copy")
    /\ runs' = FALSE
    /\ IF pick[i] = Cyclic
       THEN /\ list' = Without(Cyclic) /\ perf_buf' = FALSE
            /\ slots' = (IF slots = Cyclic THEN "free" ELSE slots)
            /\ wrecked' = ~Listed(Cyclic)
       ELSE UNCHANGED <<list, perf_buf, slots, wrecked>>
    /\ UNCHANGED <<xdma_perf, desc, state, pick, gone, trouble, starts>>

\* ioctl_do_perf_stop reads the counters and copies them; the copy faults, and
\* the transfer and the measurement stay.
CopyFails(i) ==
    /\ Goes(i, "copy", "idle")
    /\ trouble' = trouble \cup {"refused"}
    /\ UNCHANGED <<driverVars, state, pick, gone, wrecked, starts>>

\* It frees the measurement and the transfer, cyclic or part of a request.
StopFree(i) ==
    /\ Goes(i, "copy", "idle")
    /\ xdma_perf' = FALSE
    /\ wrecked' = (pick[i] # Cyclic)
    /\ UNCHANGED <<perf_buf, list, runs, desc, slots, state, pick, gone, trouble, starts>>
-----------------------------------------------------------------------------
\* A blocking request, which has desc_lock until it has its answer: its
\* descriptors are put in the ring, where they may come to the first slots, and
\* its transfer on the list.
Request(r) ==
    /\ ~Busy /\ ~gone
    /\ slots' \in {slots, r}
    /\ Enqueue(r)
    /\ state' = [state EXCEPT ![r] = "submitted"]
    /\ trouble' = trouble \cup (IF xdma_perf THEN {"shared"} ELSE {})
    /\ UNCHANGED <<xdma_perf, perf_buf, desc, at, pick, gone, wrecked, starts>>

\* The engine completes the request at the head and goes on with the next; the
\* measurement is never complete, its descriptors go round.
Complete ==
    /\ runs /\ list # <<>> /\ Head(list) # Cyclic
    /\ state' = [state EXCEPT ![Head(list)] = "done"]
    /\ list' = Tail(list)
    /\ runs' = (Len(list) > 1)
    /\ UNCHANGED <<xdma_perf, perf_buf, desc, slots, at, pick, gone, trouble, wrecked, starts>>

\* The caller has its answer and clears its descriptors.
Reap(r) ==
    /\ state[r] = "done"
    /\ state' = [state EXCEPT ![r] = "idle"]
    /\ slots' = IF slots = r THEN "free" ELSE slots
    /\ UNCHANGED <<xdma_perf, perf_buf, list, runs, desc, at, pick, gone, trouble, wrecked, starts>>

\* Its time is over: the engine is stopped, and the transfer leaves the list if
\* it is its head (transfer_abort); its memory is the caller's stack.
GiveUp(r) ==
    /\ state[r] = "submitted"
    /\ list' = IF Head(list) = r THEN Tail(list) ELSE list
    /\ runs' = FALSE
    /\ wrecked' = (Head(list) # r)
    /\ state' = [state EXCEPT ![r] = "idle"]
    /\ slots' = IF slots = r THEN "free" ELSE slots
    /\ UNCHANGED <<xdma_perf, perf_buf, desc, at, pick, gone, trouble, starts>>

\* The channel reports an error on the measurement: engine_service_perf notes
\* that it stopped, and wakes nobody; the transfer leaves the list.
PerfError ==
    /\ runs /\ list # <<>> /\ Head(list) = Cyclic
    /\ list' = Tail(list)
    /\ runs' = (Len(list) > 1)
    /\ trouble' = trouble \cup {"error"}
    /\ UNCHANGED <<xdma_perf, perf_buf, desc, slots, state, at, pick, gone, wrecked, starts>>

\* xdma_device_offline
Offline ==
    /\ ~gone /\ gone' = TRUE /\ runs' = FALSE
    /\ trouble' = trouble \cup {"offline"}
    /\ UNCHANGED <<xdma_perf, perf_buf, list, desc, slots, state, at, pick, wrecked, starts>>
-----------------------------------------------------------------------------
Asker(i) == StartCheck(i) \/ StartClaim(i) \/ StartFails(i) \/ Fill(i) \/ PerfQueue(i)
            \/ PerfRefused(i) \/ StopPick(i) \/ StopDelete(i) \/ CopyFails(i) \/ StopFree(i)

Next ==
    /\ ~wrecked
    /\ \/ \E i \in Askers : Asker(i)
       \/ \E r \in Requests : Request(r) \/ Reap(r) \/ GiveUp(r)
       \/ Complete \/ PerfError \/ Offline

Spec == Init /\ [][Next]_perfVars
-----------------------------------------------------------------------------
\* Properties.

\* Types.
TypeOK ==
    /\ {xdma_perf, perf_buf, runs, desc, gone, wrecked} \subseteq BOOLEAN
    /\ list \in Seq(Requests \cup {Cyclic})
    /\ slots \in Requests \cup {Cyclic, "free"}
    /\ state \in [Requests -> {"idle", "submitted", "done"}]
    /\ at \in [Askers -> {"idle", "claim", "fill", "queue", "stop", "copy"}]
    /\ pick \in [Askers -> Requests \cup {Cyclic, "none"}]
    /\ trouble \subseteq {"refused", "raced", "shared", "error", "offline"}
    /\ starts \in 0 .. MaxStarts

\* Between ioctls made one after the other, on an engine nobody else uses and
\* that reports no error, a measurement is there with its transfer and its
\* buffer, or is gone with both: it can be stopped, and started again
\* (xdma_performance_submit, engine_cyclic_stop).
Whole ==
    trouble = {} /\ (\A i \in Askers : at[i] = "idle")
        => /\ xdma_perf = perf_buf
           /\ xdma_perf = Listed(Cyclic)
           /\ xdma_perf => runs

\* The measurement overwrites the descriptors of a request only if the request
\* is made while a measurement is there, or the measurement while a request is.
RingKept ==
    \A r \in Requests :
        state[r] = "submitted" /\ trouble = {} => slots # Cyclic

\* Memory is misused only when the engine is shared, ioctls overlap, the
\* channel reports an error or the device goes: a start or a copy that fails
\* makes the engine unusable for measurements, and harms nobody else.
HarmNeedsCompany == wrecked => trouble \ {"refused"} # {}

MeasuredAlone == TypeOK /\ Whole /\ RingKept /\ HarmNeedsCompany
=============================================================================
