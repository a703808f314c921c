---------------------------- MODULE VideoChannel ----------------------------
(***************************************************************************)
(* One video channel of the capture driver (struct xdma_video_channel in   *)
(* xdma_video.c): the frame sync interrupt, the channel's kernel thread    *)
(* that moves one frame per event into the first queued buffer, the        *)
(* streaming callbacks videobuf2 makes on behalf of the application, and   *)
(* the removal of the driver.                                              *)
(*                                                                         *)
(* events_irq is a mailbox with one place between the interrupt handler    *)
(* and the thread.  The handler and the thread take several steps, because *)
(* the code reads the flags under one lock and uses them after releasing   *)
(* it.  wait_event_interruptible is modelled down to the wait queue, which *)
(* stop_streaming inspects.                                                *)
(***************************************************************************)
EXTENDS Integers, Sequences, FiniteSets

CONSTANTS
    Bufs,          \* the videobuf2 buffers
    None,
    MinBufs,       \* vidq.min_buffers_needed
    DummyFrames,   \* syncs during which the handler sets streaming_running
    MaxSyncs,      \* bound: frame syncs in a behaviour
    MaxSessions,   \* bound: times streaming is started
    SyncAtSwitch,  \* a frame sync may be handled while streaming starts or stops
    Surprise       \* the device may be removed while it streams

ASSUME ChannelAssumption ==
    /\ None \notin Bufs
    /\ {MinBufs, DummyFrames, MaxSyncs, MaxSessions} \subseteq Nat
    /\ {SyncAtSwitch, Surprise} \subseteq BOOLEAN

VARIABLES
    \* struct video_kthread
    streaming_started, streaming_running, dummy_frame,
    \* struct xdma_video_channel
    events_irq, onWq, vidq_queued, sequence, frame_count, frame_loss,
    frame_sync_loss,
    \* frame_sync_isr: where it is, what it read
    ipc, istarted, idummy, syncs,
    \* xthread_video: where it is, what it read, whether kthread_stop woke it
    tpc, trunning, tbuf, should_stop, kicked,
    \* videobuf2 and the application: where the streaming calls are, who has
    \* each buffer
    vpc, bstate, sessions,
    \* xdma_video_remove
    rpc,
    \* history: the sequence number of the last buffer delivered
    outSeq

flagVars == <<streaming_started, streaming_running, dummy_frame>>
countVars == <<sequence, frame_count, frame_loss, frame_sync_loss, outSeq>>
isrVars == <<ipc, istarted, idummy, syncs>>
thrVars == <<tpc, trunning, tbuf, should_stop, kicked>>
vb2Vars == <<vpc, bstate, sessions>>
vars == <<flagVars, countVars, isrVars, thrVars, vb2Vars, events_irq, onWq,
          vidq_queued, rpc>>

ThreadPCs == {"top", "wait", "prepare", "recheck", "asleep", "check", "look",
              "look2", "grab", "del", "done", "clear", "exited"}
\* The steps of the thread between the event it waits for and the end of the
\* iteration that serves it.
Serving == {"check", "look", "look2", "grab", "del", "done", "clear"}
VPCs == {"off", "enqueue", "flags", "counts", "on", "stop",
         "stopflags", "stopclear"}
BufStates == {"user", "prepared", "driver", "done"}

\* An operator X_Fault, written before X, is X with the fault its comment names:
\* no specification uses it, it is there to be put in the place of X, to see that
\* a property notices.

Init ==
    /\ streaming_started = FALSE /\ streaming_running = FALSE /\ dummy_frame = 0
    /\ events_irq = FALSE /\ onWq = FALSE /\ vidq_queued = <<>>
    /\ sequence = 0 /\ frame_count = 0 /\ frame_loss = 0 /\ frame_sync_loss = 0
    /\ ipc = "idle" /\ istarted = FALSE /\ idummy = 0 /\ syncs = 0
    /\ tpc = "top" /\ trunning = FALSE /\ tbuf = None
    /\ should_stop = FALSE /\ kicked = FALSE
    /\ vpc = "off" /\ bstate = [b \in Bufs |-> "user"] /\ sessions = 0
    /\ rpc = "bound"
    /\ outSeq = -1
-----------------------------------------------------------------------------
\* frame_sync_isr.

\* The assumption that stands for SyncAtSwitch = FALSE: the source of frame
\* syncs is quiet while start_streaming and stop_streaming change the flags
\* and the counters.
Quiet == SyncAtSwitch \/ vpc \notin {"counts", "stop", "stopflags"}

\* A frame sync: the flags are read under kthread.lock.
IsrRead ==
    /\ ipc = "idle" /\ syncs < MaxSyncs /\ Quiet
    /\ syncs' = syncs + 1
    /\ istarted' = streaming_started
    /\ idummy' = dummy_frame
    /\ ipc' = "decide"
    /\ UNCHANGED <<flagVars, countVars, thrVars, vb2Vars, events_irq, onWq,
                   vidq_queued, rpc>>

\* Without the lock, the first frames of a session set streaming_running.
IsrDecide ==
    /\ ipc = "decide"
    /\ IF istarted /\ idummy < DummyFrames
       THEN dummy_frame' = dummy_frame + 1 /\ streaming_running' = TRUE
       ELSE UNCHANGED <<dummy_frame, streaming_running>>
    /\ ipc' = IF istarted /\ streaming_running' THEN "post" ELSE "idle"
    /\ UNCHANGED <<streaming_started, countVars, istarted, idummy, syncs,
                   thrVars, vb2Vars, events_irq, onWq, vidq_queued, rpc>>

\* The event is posted and the thread not woken.
IsrPost_NoWake ==
    /\ ipc = "post"
    /\ IF events_irq
       THEN frame_sync_loss' = frame_sync_loss + 1 /\ UNCHANGED <<sequence, events_irq>>
       ELSE sequence' = sequence + 1 /\ events_irq' = TRUE /\ UNCHANGED frame_sync_loss
    /\ ipc' = "idle"
    /\ UNCHANGED <<flagVars, frame_count, frame_loss, outSeq, istarted, idummy,
                   syncs, thrVars, vb2Vars, onWq, vidq_queued, rpc>>

\* Under events_lock: the event is posted and the thread woken, or the sync is
\* counted as lost.  Waking takes the thread off the wait queue.
IsrPost ==
    /\ ipc = "post"
    /\ IF events_irq
       THEN /\ frame_sync_loss' = frame_sync_loss + 1
            /\ UNCHANGED <<sequence, events_irq, onWq>>
       ELSE /\ sequence' = sequence + 1
            /\ events_irq' = TRUE
            /\ onWq' = FALSE
            /\ UNCHANGED frame_sync_loss
    /\ ipc' = "idle"
    /\ UNCHANGED <<flagVars, frame_count, frame_loss, outSeq, istarted, idummy,
                   syncs, thrVars, vb2Vars, vidq_queued, rpc>>
-----------------------------------------------------------------------------
\* xthread_video.

ThreadGoto(from, to) == tpc = from /\ tpc' = to
ThreadOnly == UNCHANGED <<flagVars, isrVars, vb2Vars, should_stop, rpc>>

\* while (!kthread_should_stop())
ThreadTop ==
    /\ ThreadGoto("top", IF should_stop THEN "exited" ELSE "wait")
    /\ ThreadOnly
    /\ UNCHANGED <<countVars, trunning, tbuf, kicked, events_irq, onWq, vidq_queued>>

\* wait_event_interruptible: the condition, ...
ThreadWait ==
    /\ ThreadGoto("wait", IF events_irq THEN "check" ELSE "prepare")
    /\ ThreadOnly
    /\ UNCHANGED <<countVars, trunning, tbuf, kicked, events_irq, onWq, vidq_queued>>

\* ... prepare_to_wait_event, ...
ThreadPrepare ==
    /\ ThreadGoto("prepare", "recheck")
    /\ onWq' = TRUE
    /\ kicked' = FALSE
    /\ ThreadOnly
    /\ UNCHANGED <<countVars, trunning, tbuf, events_irq, vidq_queued>>

\* ... the condition again, with finish_wait when it holds, ...
ThreadRecheck ==
    /\ ThreadGoto("recheck", IF events_irq THEN "check" ELSE "asleep")
    /\ onWq' = (onWq /\ ~events_irq)
    /\ ThreadOnly
    /\ UNCHANGED <<countVars, trunning, tbuf, kicked, events_irq, vidq_queued>>

\* ... and schedule(), which returns when the interrupt handler or
\* kthread_stop woke the thread.
ThreadWoken ==
    /\ ThreadGoto("asleep", "prepare")
    /\ ~onWq \/ kicked
    /\ ThreadOnly
    /\ UNCHANGED <<countVars, trunning, tbuf, kicked, events_irq, onWq, vidq_queued>>

\* streaming_running is read under kthread.lock.
ThreadCheck ==
    /\ ThreadGoto("check", "look")
    /\ trunning' = streaming_running
    /\ ThreadOnly
    /\ UNCHANGED <<countVars, tbuf, kicked, events_irq, onWq, vidq_queued>>

\* The first test of the queue, without qlock.
ThreadLook ==
    /\ ThreadGoto("look", IF vidq_queued = <<>> THEN "look2"
                          ELSE IF trunning THEN "grab" ELSE "clear")
    /\ tbuf' = IF vidq_queued # <<>> /\ trunning THEN Head(vidq_queued) ELSE tbuf
    /\ ThreadOnly
    /\ UNCHANGED <<countVars, trunning, kicked, events_irq, onWq, vidq_queued>>

\* The second test of the queue, in the else branch.
ThreadLook2 ==
    /\ ThreadGoto("look2", "clear")
    /\ frame_loss' = IF vidq_queued = <<>> /\ trunning THEN frame_loss + 1 ELSE frame_loss
    /\ ThreadOnly
    /\ UNCHANGED <<sequence, frame_count, frame_sync_loss, outSeq, trunning,
                   tbuf, kicked, events_irq, onWq, vidq_queued>>

\* grab_one_frame, whose result is ignored: it takes time, no more.
ThreadGrab ==
    /\ ThreadGoto("grab", "del")
    /\ ThreadOnly
    /\ UNCHANGED <<countVars, trunning, tbuf, kicked, events_irq, onWq, vidq_queued>>

\* The buffer stays on the list.
ThreadDel_Kept ==
    /\ ThreadGoto("del", "done")
    /\ ThreadOnly
    /\ UNCHANGED <<countVars, trunning, tbuf, kicked, events_irq, onWq, vidq_queued>>

\* The list without the buffer b, wherever it is.
Unlisted(b) ==
    LET at == {i \in 1 .. Len(vidq_queued) : vidq_queued[i] = b}
    IN  IF at = {} THEN vidq_queued
        ELSE LET p == CHOOSE i \in at : TRUE
             IN  SubSeq(vidq_queued, 1, p - 1)
                     \o SubSeq(vidq_queued, p + 1, Len(vidq_queued))

\* list_del under qlock.
ThreadDel ==
    /\ ThreadGoto("del", "done")
    /\ vidq_queued' = Unlisted(tbuf)
    /\ ThreadOnly
    /\ UNCHANGED <<countVars, trunning, tbuf, kicked, events_irq, onWq>>

\* xdma_video_buf_done; videobuf2 ignores a buffer that is not the driver's.
ThreadDone ==
    /\ ThreadGoto("done", "clear")
    /\ bstate' = [bstate EXCEPT ![tbuf] = IF @ = "driver" THEN "done" ELSE @]
    /\ outSeq' = sequence
    /\ frame_count' = frame_count + 1
    /\ tbuf' = None
    /\ UNCHANGED <<flagVars, isrVars, vpc, sessions, should_stop, rpc, sequence,
                   frame_loss, frame_sync_loss, trunning, kicked, events_irq,
                   onWq, vidq_queued>>

\* The event is left in the mailbox.
ThreadClear_Forgets ==
    /\ ThreadGoto("clear", "top")
    /\ ThreadOnly
    /\ UNCHANGED <<countVars, trunning, tbuf, kicked, events_irq, onWq, vidq_queued>>

\* The event is cleared under events_lock.
ThreadClear ==
    /\ ThreadGoto("clear", "top")
    /\ events_irq' = FALSE
    /\ ThreadOnly
    /\ UNCHANGED <<countVars, trunning, tbuf, kicked, onWq, vidq_queued>>

Thread ==
    \/ ThreadTop \/ ThreadWait \/ ThreadPrepare \/ ThreadRecheck \/ ThreadWoken
    \/ ThreadCheck \/ ThreadLook \/ ThreadLook2 \/ ThreadGrab \/ ThreadDel
    \/ ThreadDone \/ ThreadClear
-----------------------------------------------------------------------------
\* videobuf2 and the application.  Calls that hold vb_mutex exclude each other.

AppOnly == UNCHANGED <<isrVars, thrVars, rpc>>

\* list_add instead of list_add_tail.
Queued_AtHead(b) == <<b>> \o vidq_queued

\* xdma_video_buf_queue, under qlock.
Queued(b) == Append(vidq_queued, b)

\* VIDIOC_QBUF, before and while streaming.
AppQueue(b) ==
    /\ bstate[b] = "user" /\ vpc \in {"off", "on"} /\ (rpc = "bound" \/ Surprise)
    /\ bstate' = [bstate EXCEPT ![b] = IF vpc = "on" THEN "driver" ELSE "prepared"]
    /\ vidq_queued' = IF vpc = "on" THEN Queued(b) ELSE vidq_queued
    /\ AppOnly
    /\ UNCHANGED <<flagVars, countVars, vpc, sessions, events_irq, onWq>>

\* VIDIOC_DQBUF
AppDequeue(b) ==
    /\ bstate[b] = "done" /\ vpc = "on"
    /\ bstate' = [bstate EXCEPT ![b] = "user"]
    /\ AppOnly
    /\ UNCHANGED <<flagVars, countVars, vpc, sessions, events_irq, onWq, vidq_queued>>

\* VIDIOC_STREAMON with enough buffers: they are handed to the driver, ...
StreamOn ==
    /\ vpc = "off" /\ sessions < MaxSessions /\ rpc = "bound"
    /\ Cardinality({b \in Bufs : bstate[b] = "prepared"}) >= MinBufs
    /\ sessions' = sessions + 1
    /\ vpc' = "enqueue"
    /\ AppOnly
    /\ UNCHANGED <<flagVars, countVars, bstate, events_irq, onWq, vidq_queued>>

StreamOnQueue(b) ==
    /\ vpc = "enqueue" /\ bstate[b] = "prepared"
    /\ bstate' = [bstate EXCEPT ![b] = "driver"]
    /\ vidq_queued' = Queued(b)
    /\ AppOnly
    /\ UNCHANGED <<flagVars, countVars, vpc, sessions, events_irq, onWq>>

\* ... then xdma_video_start_streaming clears the mailbox, ...
StartEvents ==
    /\ vpc = "enqueue" /\ \A b \in Bufs : bstate[b] # "prepared"
    /\ events_irq' = FALSE
    /\ vpc' = "flags"
    /\ AppOnly
    /\ UNCHANGED <<flagVars, countVars, bstate, sessions, onWq, vidq_queued>>

\* ... sets the flags, under kthread.lock, ...
StartFlags ==
    /\ vpc = "flags"
    /\ streaming_started' = TRUE
    /\ streaming_running' = FALSE
    /\ dummy_frame' = 0
    /\ outSeq' = -1
    /\ vpc' = "counts"
    /\ AppOnly
    /\ UNCHANGED <<sequence, frame_count, frame_loss, frame_sync_loss, bstate, sessions, events_irq, onWq, vidq_queued>>

\* ... and the counters, under no lock.
StartCounts ==
    /\ vpc = "counts"
    /\ sequence' = 0 /\ frame_count' = 0 /\ frame_loss' = 0 /\ frame_sync_loss' = 0
    /\ vpc' = "on"
    /\ AppOnly
    /\ UNCHANGED <<flagVars, outSeq, bstate, sessions, events_irq, onWq, vidq_queued>>

\* VIDIOC_STREAMOFF: xdma_video_stop_streaming spins until the thread is on
\* the wait queue, ...
StreamOff ==
    /\ vpc = "on"
    /\ vpc' = "stop"
    /\ AppOnly
    /\ UNCHANGED <<flagVars, countVars, bstate, sessions, events_irq, onWq, vidq_queued>>

StopSpin ==
    /\ vpc = "stop" /\ onWq
    /\ SyncAtSwitch \/ (tpc = "asleep" /\ ipc = "idle")
    /\ vpc' = "stopflags"
    /\ AppOnly
    /\ UNCHANGED <<flagVars, countVars, bstate, sessions, events_irq, onWq, vidq_queued>>

\* ... clears the flags under kthread.lock, ...
StopFlags ==
    /\ vpc = "stopflags"
    /\ streaming_started' = FALSE
    /\ streaming_running' = FALSE
    /\ dummy_frame' = 0
    /\ vpc' = "stopclear"
    /\ AppOnly
    /\ UNCHANGED <<countVars, bstate, sessions, events_irq, onWq, vidq_queued>>

\* ... and gives the queued buffers back (xdma_video_clear_queue), under qlock.
\* videobuf2 then returns every buffer to the application.
StopClear ==
    /\ vpc = "stopclear"
    /\ vidq_queued' = <<>>
    /\ bstate' = [b \in Bufs |-> "user"]
    /\ vpc' = "off"
    /\ AppOnly
    /\ UNCHANGED <<flagVars, countVars, sessions, events_irq, onWq>>
-----------------------------------------------------------------------------
\* xdma_video_free, as the device goes away.

\* events_irq is set, without a wake-up, ...
FreeEvent ==
    /\ rpc = "bound" /\ (vpc = "off" \/ Surprise)
    /\ events_irq' = TRUE
    /\ rpc' = "event"
    /\ UNCHANGED <<flagVars, countVars, isrVars, thrVars, vb2Vars, onWq, vidq_queued>>

\* The thread is told to stop and not woken.
FreeStop_NoWake ==
    /\ rpc = "event"
    /\ should_stop' = TRUE
    /\ rpc' = "join"
    /\ UNCHANGED <<flagVars, countVars, isrVars, tpc, trunning, tbuf, kicked,
                   vb2Vars, events_irq, onWq, vidq_queued>>

\* ... kthread_stop tells the thread to stop and wakes it, ...
FreeStop ==
    /\ rpc = "event"
    /\ should_stop' = TRUE
    /\ kicked' = TRUE
    /\ rpc' = "join"
    /\ UNCHANGED <<flagVars, countVars, isrVars, tpc, trunning, tbuf, vb2Vars,
                   events_irq, onWq, vidq_queued>>

\* ... and waits for its end.
FreeJoin ==
    /\ rpc = "join" /\ tpc = "exited"
    /\ rpc' = "removed"
    /\ UNCHANGED <<flagVars, countVars, isrVars, thrVars, vb2Vars, events_irq,
                   onWq, vidq_queued>>
-----------------------------------------------------------------------------
Isr == IsrRead \/ IsrDecide \/ IsrPost
Start == StreamOn \/ (\E b \in Bufs : StreamOnQueue(b)) \/ StartEvents
         \/ StartFlags \/ StartCounts
Stop == StreamOff \/ StopSpin \/ StopFlags \/ StopClear
App == \E b \in Bufs : AppQueue(b) \/ AppDequeue(b)
Free == FreeEvent \/ FreeStop \/ FreeJoin

Next == Isr \/ Thread \/ Start \/ Stop \/ App \/ Free

Spec == Init /\ [][Next]_vars

\* The thread, the interrupt handler and the calls already begun make
\* progress; frame syncs, applications and removals come when they like.
Fairness ==
    /\ WF_vars(Thread)
    /\ WF_vars(IsrDecide \/ IsrPost)
    /\ WF_vars((\E b \in Bufs : StreamOnQueue(b)) \/ StartEvents \/ StartFlags \/ StartCounts)
    /\ WF_vars(StopSpin \/ StopFlags \/ StopClear)
    /\ WF_vars(FreeStop \/ FreeJoin)

FairSpec == Spec /\ Fairness
-----------------------------------------------------------------------------
\* Correctness.

TypeOK ==
    /\ {streaming_started, streaming_running} \subseteq BOOLEAN
    /\ dummy_frame \in Nat
    /\ {events_irq, onWq} \subseteq BOOLEAN
    /\ vidq_queued \in Seq(Bufs)
    /\ {sequence, frame_count, frame_loss, frame_sync_loss} \subseteq Nat
    /\ ipc \in {"idle", "decide", "post"}
    /\ istarted \in BOOLEAN /\ {idummy, syncs} \subseteq Nat
    /\ tpc \in ThreadPCs /\ tbuf \in Bufs \cup {None}
    /\ tpc \in {"grab", "del", "done"} => tbuf \in Bufs
    /\ {trunning, should_stop, kicked} \subseteq BOOLEAN
    /\ vpc \in VPCs /\ bstate \in [Bufs -> BufStates] /\ sessions \in Nat
    /\ rpc \in {"bound", "event", "join", "removed"}
    /\ outSeq \in Nat \cup {-1}

\* While the thread serves an event the mailbox stays full, so that the
\* interrupt handler neither posts another event nor moves the sequence number
\* that the buffer being filled will be given.
MailboxHeld == rpc = "bound" /\ tpc \in Serving => events_irq

\* The driver answers for every buffer it was given: it is queued once, or the
\* thread is about to give it back.  The one the thread fills without holding
\* qlock stays the head of the queue until the thread takes it off: nobody else
\* gives it back.
DriverOwnsQueued ==
    /\ TypeOK
    /\ tpc \in {"grab", "del"} => vidq_queued # <<>> /\ Head(vidq_queued) = tbuf
    /\ \A b \in Bufs :
        bstate[b] = "driver" <=> \/ \E i \in 1 .. Len(vidq_queued) : vidq_queued[i] = b
                                 \/ tpc = "done" /\ tbuf = b
    /\ \A i, j \in 1 .. Len(vidq_queued) : vidq_queued[i] = vidq_queued[j] => i = j

\* So the frame the thread fills keeps its buffer and its number.
FrameKept == MailboxHeld /\ DriverOwnsQueued

\* A sync that raised the sequence number is delivered, or counted as a lost
\* frame, at most once.
CountedOnce ==
    vpc \in {"on", "stop"} /\ rpc = "bound" =>
        frame_count + frame_loss
            + (IF tpc \in Serving \ {"clear"} THEN 1 ELSE 0) <= sequence

\* xdma_video_stop_streaming ends, whatever the thread was doing, unless the
\* driver is being removed.
StopEnds == vpc = "stop" /\ rpc = "bound" ~> vpc = "off" \/ rpc # "bound"

\* A posted event is served, unless the driver is being removed.
EventServed == events_irq /\ rpc = "bound" ~> ~events_irq \/ rpc # "bound"

\* xdma_video_free ends when it finds the thread asleep and the channel not
\* streaming.
RemoveEnds ==
    rpc = "event" /\ vpc = "off" /\ tpc = "asleep" /\ onWq /\ events_irq
        ~> rpc = "removed"

\* So nothing waits for the thread in vain.
StopAndRemoveEnd == StopEnds /\ RemoveEnds
-----------------------------------------------------------------------------
\* The promise to videobuf2 (FrameQueue): a buffer on the list, or taken off
\* it and not yet given back, is in the driver's hands.
InHand == IF tpc = "done" THEN <<tbuf>> \o vidq_queued ELSE vidq_queued
Owner ==
    [b \in Bufs |-> CASE bstate[b] = "driver" -> "driver"
                      [] bstate[b] = "done" -> "done"
                      [] OTHER -> "user"]
Vb2 == INSTANCE FrameQueue WITH queue <- InHand, owner <- Owner, last <- outSeq

\* The channel implements the contract.
RefinesFrameQueue == Vb2!Spec
=============================================================================
