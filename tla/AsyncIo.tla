------------------------------- MODULE AsyncIo -------------------------------
(***************************************************************************)
(* Asynchronous calls on an SG DMA character device (cdev_sgdma.c): one    *)
(* aio_write or aio_read submits an array of elements, each a request of   *)
(* its own (xdma_xfer_submit_nowait), and returns; async_io_handler counts *)
(* the elements as the engine completes them, and the last one ends the    *)
(* call.                                                                   *)
(*                                                                         *)
(* All elements of a call are on one engine, and the handler runs under    *)
(* engine->lock: it is one action, and its trylock always succeeds.  How   *)
(* the engine completes a request is in DmaEngine; here it is the head of  *)
(* a queue that leaves it, moved or failed.  After a step that uses memory *)
(* already freed nothing is said of the system (wild).                     *)
(***************************************************************************)
EXTENDS Integers, Sequences, FiniteSets

CONSTANTS
    Calls,         \* the calls made, each at most once
    Lengths,       \* the numbers of elements a call may have
    MaxResets      \* bound: times the device goes offline

\* What is assumed of the constants; the modules this one is checked in assume it.
AioAssumption ==
    /\ Lengths \subseteq Nat \ {0}
    /\ MaxResets \in Nat

VARIABLES
    \* the call: where it is in its loop, i + 1, count, what it returned
    pc, at, count, result,
    \* struct cdev_async_io: whether the object is there, its counts
    caio, cmpl_cnt, res,
    \* times the call was completed with ki_complete
    ended,
    \* the elements of each call whose pages are pinned, those that were
    \* refused by xdma_xfer_submit_nowait, those whose data was moved
    pinned, refused, moved,
    \* the engine and the device
    queue, running, offline, resets,
    \* memory was used after it was freed
    wild

callVars == <<pc, at, count, result>>
caioVars == <<caio, cmpl_cnt, res, ended>>
setVars == <<pinned, refused, moved>>
engVars == <<queue, running, offline, resets>>
vars == <<callVars, caioVars, setVars, engVars, wild>>

Elements == Calls \X (Nat \ {0})

Init ==
    /\ pc = [c \in Calls |-> "idle"]
    /\ at = [c \in Calls |-> 1]
    /\ count = [c \in Calls |-> 0]
    /\ result = [c \in Calls |-> "none"]
    /\ caio = [c \in Calls |-> "none"]
    /\ cmpl_cnt = [c \in Calls |-> 0]
    /\ res = [c \in Calls |-> 0]
    /\ ended = [c \in Calls |-> 0]
    /\ pinned = [c \in Calls |-> {}]
    /\ refused = [c \in Calls |-> {}]
    /\ moved = [c \in Calls |-> {}]
    /\ queue = <<>> /\ running = FALSE /\ offline = FALSE /\ resets = 0
    /\ wild = FALSE
-----------------------------------------------------------------------------
\* An operator X_Fault, written before X, is X with the fault its comment
\* names: no specification uses it, it is there to be put in the place of X, to
\* see that a property notices.

\* A call enters cdev_aio_write or cdev_aio_read with n elements: the caio and
\* its array of callbacks are allocated, req_cnt is n.
Call(c) ==
    /\ pc[c] = "idle"
    /\ \E n \in Lengths : count' = [count EXCEPT ![c] = n]
    /\ caio' = [caio EXCEPT ![c] = "live"]
    /\ pc' = [pc EXCEPT ![c] = "check"]
    /\ UNCHANGED <<at, result, cmpl_cnt, res, ended, setVars, engVars, wild>>

Return(c, r) ==
    /\ pc' = [pc EXCEPT ![c] = "over"]
    /\ result' = [result EXCEPT ![c] = r]
    /\ UNCHANGED <<at, count>>

MoreElements(c) == pc[c] = "check" /\ at[c] <= count[c]

\* check_transfer_align refuses the element: the caio is freed, whatever was
\* submitted before it, and its array is left.
Misaligned(c) ==
    /\ MoreElements(c)
    /\ caio' = [caio EXCEPT ![c] = "freed"]
    /\ Return(c, "error")
    /\ UNCHANGED <<cmpl_cnt, res, ended, setVars, engVars, wild>>

\* char_sgdma_map_user_buf_to_sgl fails and gives its pages back: nothing is freed.
MapFails(c) ==
    /\ MoreElements(c)
    /\ Return(c, "error")
    /\ UNCHANGED <<caioVars, setVars, engVars, wild>>

\* The pages of the element are pinned.
Map(c) ==
    /\ MoreElements(c)
    /\ pinned' = [pinned EXCEPT ![c] = @ \cup {at[c]}]
    /\ pc' = [pc EXCEPT ![c] = "submit"]
    /\ UNCHANGED <<at, count, result, caioVars, refused, moved, engVars, wild>>

NextElement(c) ==
    /\ pc' = [pc EXCEPT ![c] = "check"]
    /\ at' = [at EXCEPT ![c] = @ + 1]
    /\ UNCHANGED <<count, result>>

\* A refused element is counted, and its pages stay pinned.
SubmitRefused_Counts(c) ==
    /\ pc[c] = "submit"
    /\ refused' = [refused EXCEPT ![c] = @ \cup {at[c]}]
    /\ cmpl_cnt' = [cmpl_cnt EXCEPT ![c] = @ + 1]
    /\ NextElement(c)
    /\ UNCHANGED <<caio, res, ended, pinned, moved, engVars, wild>>

\* xdma_xfer_submit_nowait returns -EBUSY, the device being offline, -EIO, the
\* scatter list not being mapped, or -ENOMEM, there being no request; its result
\* is ignored, the pages stay pinned, and the loop goes on.
SubmitRefused(c) ==
    /\ pc[c] = "submit"
    /\ refused' = [refused EXCEPT ![c] = @ \cup {at[c]}]
    /\ NextElement(c)
    /\ UNCHANGED <<caioVars, pinned, moved, engVars, wild>>

\* xdma_xfer_submit_nowait puts the element on the engine's queue, and starts
\* the engine if it does not run (its steps are taken apart in DmaEngine).
Submit(c) ==
    /\ pc[c] = "submit" /\ ~offline
    /\ queue' = Append(queue, <<c, at[c]>>)
    /\ running' = TRUE
    /\ NextElement(c)
    /\ UNCHANGED <<caioVars, setVars, offline, resets, wild>>

\* -EIOCBQUEUED
ReturnQueued(c) ==
    /\ pc[c] = "check" /\ at[c] > count[c]
    /\ Return(c, "queued")
    /\ UNCHANGED <<caioVars, setVars, engVars, wild>>
-----------------------------------------------------------------------------
\* The call is over when the elements submitted so far are done.
IsLast_Submitted(c) == cmpl_cnt[c] + 1 = at[c] - 1

\* caio->cmpl_cnt == caio->req_cnt, after the increment.
IsLast(c) == cmpl_cnt[c] + 1 = count[c]

\* An element that failed is not counted.
Handle_SkipsFailed(c, k, ok) ==
    /\ pinned' = [pinned EXCEPT ![c] = @ \ {k}]
    /\ cmpl_cnt' = IF ok THEN [cmpl_cnt EXCEPT ![c] = @ + 1] ELSE cmpl_cnt
    /\ res' = [res EXCEPT ![c] = IF ok THEN @ + 1 ELSE @]
    /\ IF ok /\ IsLast(c)
       THEN /\ ended' = [ended EXCEPT ![c] = @ + 1]
            /\ caio' = [caio EXCEPT ![c] = "freed"]
       ELSE UNCHANGED <<ended, caio>>

\* async_io_handler for element k of the call c, moved or not: the pages are
\* given back, the bytes and the element counted (a failed element counts
\* no bytes and, as err is zero, no error), and the last one ends the call.
Handle(c, k, ok) ==
    /\ pinned' = [pinned EXCEPT ![c] = @ \ {k}]
    /\ cmpl_cnt' = [cmpl_cnt EXCEPT ![c] = @ + 1]
    /\ res' = [res EXCEPT ![c] = IF ok THEN @ + 1 ELSE @]
    /\ IF IsLast(c)
       THEN /\ ended' = [ended EXCEPT ![c] = @ + 1]
            /\ caio' = [caio EXCEPT ![c] = "freed"]
       ELSE UNCHANGED <<ended, caio>>

\* The engine completes the request at the head of its queue and calls the
\* handler; a caio that is gone by then is memory of somebody else.
Complete ==
    /\ running /\ queue # <<>>
    /\ LET c == Head(queue)[1]
           k == Head(queue)[2]
       IN  \E ok \in BOOLEAN :
            /\ moved' = IF ok THEN [moved EXCEPT ![c] = @ \cup {k}] ELSE moved
            /\ IF caio[c] = "live"
               THEN Handle(c, k, ok) /\ UNCHANGED wild
               ELSE wild' = TRUE /\ UNCHANGED <<pinned, caioVars>>
    /\ queue' = Tail(queue)
    /\ running' = (Len(queue) > 1)
    /\ UNCHANGED <<callVars, refused, offline, resets>>

\* xdma_device_offline stops the engine with the requests on its queue;
\* xdma_device_online leaves it stopped until the next submission.
Offline ==
    /\ ~offline /\ resets < MaxResets
    /\ offline' = TRUE /\ running' = FALSE /\ resets' = resets + 1
    /\ UNCHANGED <<callVars, caioVars, setVars, queue, wild>>

Online ==
    /\ offline
    /\ offline' = FALSE
    /\ UNCHANGED <<callVars, caioVars, setVars, queue, running, resets, wild>>
-----------------------------------------------------------------------------
Caller(c) == Call(c) \/ Misaligned(c) \/ MapFails(c) \/ Map(c)
             \/ SubmitRefused(c) \/ Submit(c) \/ ReturnQueued(c)

Next ==
    /\ ~wild
    /\ \/ \E c \in Calls : Caller(c)
       \/ Complete
       \/ Offline \/ Online

Inside(c) == pc[c] # "idle" /\ Caller(c) /\ ~wild

\* A call that was made is executed, a running engine completes its requests.
Fairness ==
    /\ \A c \in Calls : WF_vars(Inside(c))
    /\ WF_vars(Complete /\ ~wild)

Spec == Init /\ [][Next]_vars /\ Fairness
-----------------------------------------------------------------------------
\* Properties.

OnQueue(c) == \E p \in DOMAIN queue : queue[p][1] = c

\* The call was refused at an element after others were submitted.
RefusedLate(c) == result[c] = "error" /\ caio[c] = "freed" /\ at[c] > 1

\* Types.
TypeOK ==
    /\ pc \in [Calls -> {"idle", "check", "submit", "over"}]
    /\ count \in [Calls -> Nat]
    /\ at \in [Calls -> Nat] /\ \A c \in Calls : at[c] \in 1 .. count[c] + 1
    /\ result \in [Calls -> {"none", "queued", "error"}]
    /\ caio \in [Calls -> {"none", "live", "freed"}]
    /\ cmpl_cnt \in [Calls -> Nat] /\ res \in [Calls -> Nat] /\ ended \in [Calls -> Nat]
    /\ pinned \in [Calls -> SUBSET Nat] /\ refused \in [Calls -> SUBSET Nat]
    /\ moved \in [Calls -> SUBSET Nat]
    /\ queue \in Seq(Elements)
    /\ running \in BOOLEAN /\ offline \in BOOLEAN /\ resets \in 0 .. MaxResets
    /\ wild \in BOOLEAN

\* A call has one outcome: it returns an error, which ends it, or it is
\* completed by the handler, and then only once (async_io_handler, ki_complete).
OneOutcome ==
    \A c \in Calls : ended[c] + (IF result[c] = "error" THEN 1 ELSE 0) <= 1

\* ki_complete comes after the last element: nothing of the call is pinned or
\* on the queue, none was refused, and the result is what was moved.
EndsAfterLast ==
    /\ TypeOK
    /\ \A c \in Calls : ended[c] > 0 =>
        /\ at[c] > count[c]
        /\ pinned[c] = {} /\ refused[c] = {}
        /\ ~OnQueue(c)
        /\ res[c] = Cardinality(moved[c])

\* A call ends once, and after all its elements.
EndsOnceAtLast == OneOutcome /\ EndsAfterLast

\* The handler works on a freed caio only if the call that made it was refused
\* at a later element (cdev_aio_write frees it then, line 472).
FreedOnlyByRefusal == wild => \E c \in Calls : RefusedLate(c)

\* Calls end as they should, and their objects with them (cdev_aio_write,
\* async_io_handler).
AioHolds == EndsOnceAtLast /\ FreedOnlyByRefusal

\* A call that is made ends, with an error or a completion, unless one of its
\* elements was refused, the device was reset, or a freed caio was used.
CallEnds ==
    \A c \in Calls :
        pc[c] = "check" ~> \/ result[c] = "error" \/ ended[c] = 1
                           \/ refused[c] # {} \/ resets > 0 \/ wild
=============================================================================
