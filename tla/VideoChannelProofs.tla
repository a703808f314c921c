-------------------------- MODULE VideoChannelProofs --------------------------
(***************************************************************************)
(* What holds of VideoChannel for any number of buffers, frames, sessions  *)
(* and frame syncs, when the source of frame syncs is quiet while          *)
(* streaming starts and stops and the device is removed after it stopped:  *)
(* the frame that is being filled keeps its buffer and its number, syncs   *)
(* are counted once, and the channel implements FrameQueue.                *)
(***************************************************************************)
EXTENDS VideoChannel, SequenceTheorems, TLAPS

\* What the theorems assume of the world around the channel.
Orderly == ~SyncAtSwitch /\ ~Surprise

\* Lists of buffers.
Listed(q, b) == \E i \in 1 .. Len(q) : q[i] = b
Once(q) == \A i, j \in 1 .. Len(q) : q[i] = q[j] => i = j

\* Before streaming is started, and once its flags are being cleared.
NotStreaming == {"off", "enqueue", "flags", "stopflags", "stopclear"}
Resting == {"top", "wait", "prepare", "recheck", "asleep"}

\* The device is removed when the channel does not stream, and the thread stops for
\* no other reason.
RemovedIdle ==
    IF rpc = "bound" THEN ~should_stop /\ ~kicked /\ tpc # "exited" ELSE vpc = "off"

\* While the channel does not stream, the thread rests, its mailbox is empty, and no
\* handler is about to post.
Rests ==
    rpc = "bound" /\ vpc \in NotStreaming \cup {"counts"} =>
        /\ ~events_irq /\ tpc \in Resting
        /\ ipc # "post" /\ (ipc = "decide" => ~istarted)

FlagDown == vpc \in NotStreaming \ {"stopflags"} => ~streaming_started

\* A thread on the wait queue has nothing in its mailbox.
WaitsForNothing == rpc = "bound" /\ tpc = "asleep" /\ onWq => ~events_irq

\* Nothing is queued, and nothing is being filled, before and after a session.
NothingQueued == vpc = "off" => vidq_queued = <<>> /\ tpc \notin {"grab", "del", "done"}

\* The buffer that is being given back is off the list.
TakenOff == tpc = "done" => ~Listed(vidq_queued, tbuf)

\* A sync whose number was not given to a buffer yet is in the mailbox.
Unserved == IF events_irq /\ tpc # "clear" THEN 1 ELSE 0
Numbered ==
    /\ vpc = "counts" => outSeq = -1
    /\ rpc = "bound" /\ vpc \in {"on", "stop"} =>
        /\ outSeq + Unserved <= sequence
        /\ frame_count + frame_loss + Unserved <= sequence

ChannelInv ==
    /\ FrameKept /\ RemovedIdle /\ Rests /\ FlagDown /\ WaitsForNothing
    /\ NothingQueued /\ TakenOff /\ Numbered

USE ChannelAssumption
USE DEF flagVars, countVars, isrVars, thrVars, vb2Vars, vars, ThreadGoto, ThreadOnly, AppOnly
-----------------------------------------------------------------------------
LEMMA AppendList ==
    ASSUME NEW q \in Seq(Bufs), NEW b \in Bufs, ~Listed(q, b), Once(q)
    PROVE  /\ Append(q, b) \in Seq(Bufs) /\ Append(q, b) # <<>> /\ Once(Append(q, b))
           /\ q # <<>> => Head(Append(q, b)) = Head(q)
           /\ \A c : Listed(Append(q, b), c) <=> Listed(q, c) \/ c = b
<1>1. /\ Append(q, b) \in Seq(Bufs) /\ Len(Append(q, b)) = Len(q) + 1 /\ Len(q) \in Nat
      /\ \A i \in 1 .. Len(q) : Append(q, b)[i] = q[i]
      /\ Append(q, b)[Len(q) + 1] = b
  OBVIOUS
<1>2. Once(Append(q, b))
  BY <1>1 DEF Once, Listed
<1>3. q # <<>> => Head(Append(q, b)) = Head(q)
  BY <1>1
<1>4. ASSUME NEW c PROVE Listed(Append(q, b), c) <=> Listed(q, c) \/ c = b
  <2>1. ASSUME NEW i \in 1 .. Len(q) + 1, Append(q, b)[i] = c PROVE Listed(q, c) \/ c = b
    <3>1. CASE i = Len(q) + 1
      BY <1>1, <2>1, <3>1
    <3>2. CASE i # Len(q) + 1
      <4>1. i \in 1 .. Len(q)
        BY <1>1, <3>2
      <4>2. q[i] = c
        BY <1>1, <2>1, <4>1
      <4>3. QED BY <4>1, <4>2 DEF Listed
    <3>3. QED BY <3>1, <3>2
  <2>2. ASSUME NEW i \in 1 .. Len(q), q[i] = c PROVE Listed(Append(q, b), c)
    BY <1>1, <2>2 DEF Listed
  <2>3. Len(q) + 1 \in 1 .. Len(Append(q, b))
    BY <1>1
  <2>4. Listed(Append(q, b), b)
    BY <1>1, <2>3 DEF Listed
  <2>5. Listed(Append(q, b), c) => \E i \in 1 .. Len(q) + 1 : Append(q, b)[i] = c
    BY <1>1 DEF Listed
  <2>6. Listed(q, c) => Listed(Append(q, b), c)
    BY <2>2 DEF Listed
  <2>7. Listed(Append(q, b), c) => Listed(q, c) \/ c = b
    BY <2>1, <2>5
  <2>8. QED BY <2>4, <2>6, <2>7
<1>5. Append(q, b) # <<>>
  BY <1>1
<1>6. QED BY <1>1, <1>2, <1>3, <1>4, <1>5

LEMMA TailList ==
    ASSUME NEW q \in Seq(Bufs), q # <<>>, Once(q)
    PROVE  /\ Tail(q) \in Seq(Bufs) /\ Once(Tail(q)) /\ Head(q) \in Bufs
           /\ \A c : Listed(Tail(q), c) <=> Listed(q, c) /\ c # Head(q)
<1>1. /\ Tail(q) \in Seq(Bufs) /\ Len(Tail(q)) = Len(q) - 1 /\ Len(q) \in Nat /\ Len(q) > 0
      /\ \A i \in 1 .. Len(q) - 1 : Tail(q)[i] = q[i + 1]
      /\ Head(q) = q[1] /\ Head(q) \in Bufs
  OBVIOUS
<1>2. Once(Tail(q))
  BY <1>1 DEF Once
<1>3. ASSUME NEW c PROVE Listed(Tail(q), c) <=> Listed(q, c) /\ c # Head(q)
  <2>1. ASSUME NEW i \in 1 .. Len(q) - 1, Tail(q)[i] = c PROVE Listed(q, c) /\ c # Head(q)
    BY <1>1, <2>1 DEF Listed, Once
  <2>2. ASSUME NEW i \in 1 .. Len(q), q[i] = c, c # Head(q) PROVE Listed(Tail(q), c)
    <3>1. i # 1 /\ i - 1 \in 1 .. Len(q) - 1
      BY <1>1, <2>2
    <3>2. Tail(q)[i - 1] = c
      BY <1>1, <2>2, <3>1
    <3>3. QED BY <1>1, <3>1, <3>2 DEF Listed
  <2>3. QED BY <1>1, <2>1, <2>2 DEF Listed
<1>4. QED BY <1>1, <1>2, <1>3

\* list_del of the buffer at the head of the list.
LEMMA UnlistedHead ==
    ASSUME vidq_queued \in Seq(Bufs), vidq_queued # <<>>, Once(vidq_queued)
    PROVE  Unlisted(Head(vidq_queued)) = Tail(vidq_queued)
<1> DEFINE q == vidq_queued
           at == {i \in 1 .. Len(q) : q[i] = Head(q)}
<1>1. at = {1}
  BY DEF Once
<1>2. (CHOOSE i \in at : TRUE) = 1
  BY <1>1
<1>3. Unlisted(Head(q)) = SubSeq(q, 1, 0) \o SubSeq(q, 2, Len(q))
  BY <1>1, <1>2 DEF Unlisted
<1>4. SubSeq(q, 1, 0) \o SubSeq(q, 2, Len(q)) = Tail(q)
  OBVIOUS
<1>5. QED BY <1>3, <1>4
-----------------------------------------------------------------------------
LEMMA FrameKeptParts ==
    FrameKept <=> /\ MailboxHeld /\ TypeOK /\ Once(vidq_queued)
                  /\ tpc \in {"grab", "del"} => vidq_queued # <<>> /\ Head(vidq_queued) = tbuf
                  /\ \A b \in Bufs :
                        bstate[b] = "driver" <=> Listed(vidq_queued, b) \/ (tpc = "done" /\ tbuf = b)
  BY DEF FrameKept, DriverOwnsQueued, Once, Listed

LEMMA ChannelInit == Init => ChannelInv
<1> SUFFICES ASSUME Init PROVE ChannelInv
  OBVIOUS
<1>1. TypeOK
  <2>1. bstate \in [Bufs -> BufStates] /\ vidq_queued \in Seq(Bufs)
    BY DEF Init, BufStates
  <2>2. /\ {streaming_started, streaming_running} \subseteq BOOLEAN /\ dummy_frame \in Nat
        /\ {events_irq, onWq} \subseteq BOOLEAN /\ istarted \in BOOLEAN
        /\ {trunning, should_stop, kicked} \subseteq BOOLEAN
    BY DEF Init
  <2>3. /\ {sequence, frame_count, frame_loss, frame_sync_loss} \subseteq Nat
        /\ {idummy, syncs} \subseteq Nat /\ sessions \in Nat /\ outSeq \in Nat \cup {-1}
    BY DEF Init
  <2>4. /\ ipc \in {"idle", "decide", "post"} /\ tpc \in ThreadPCs /\ tbuf \in Bufs \cup {None}
        /\ vpc \in VPCs /\ rpc \in {"bound", "event", "join", "removed"}
        /\ tpc \in {"grab", "del", "done"} => tbuf \in Bufs
    BY DEF Init, ThreadPCs, VPCs
  <2>5. QED BY <2>1, <2>2, <2>3, <2>4 DEF TypeOK
<1>2. vidq_queued = <<>> /\ Len(vidq_queued) = 0
  BY DEF Init
<1>3. FrameKept
  BY <1>1, <1>2, FrameKeptParts DEF Init, Once, Listed, MailboxHeld, Serving
<1>4. /\ RemovedIdle /\ Rests /\ FlagDown /\ WaitsForNothing /\ NothingQueued /\ TakenOff
      /\ Numbered
  BY DEF Init, TakenOff, RemovedIdle, Rests, Resting, FlagDown, WaitsForNothing, NothingQueued, Numbered, Unserved
<1>5. QED BY <1>3, <1>4 DEF ChannelInv

\* The step conjunct by conjunct; first those about where everybody is.
LEMMA RemovedIdleStep ==
    ASSUME Orderly, ChannelInv, [Next]_vars PROVE RemovedIdle'
<1>. USE DEF ChannelInv, RemovedIdle
<1>1. CASE UNCHANGED vars BY <1>1
<1>2. CASE Isr BY <1>2 DEF Isr, IsrRead, IsrDecide, IsrPost
<1>3. CASE Thread
  BY <1>3 DEF Thread, ThreadTop, ThreadWait, ThreadPrepare, ThreadRecheck, ThreadWoken, ThreadCheck,
              ThreadLook, ThreadLook2, ThreadGrab, ThreadDel, ThreadDone, ThreadClear
<1>4. CASE Start BY <1>4 DEF Start, StreamOn, StreamOnQueue, StartEvents, StartFlags, StartCounts
<1>5. CASE Stop BY <1>5 DEF Stop, StreamOff, StopSpin, StopFlags, StopClear
<1>6. CASE App BY <1>6 DEF App, AppQueue, AppDequeue
<1>7. CASE Free BY <1>7 DEF Free, FreeEvent, FreeStop, FreeJoin, Orderly
<1>8. QED BY <1>1, <1>2, <1>3, <1>4, <1>5, <1>6, <1>7 DEF Next

LEMMA RestsStep ==
    ASSUME Orderly, ChannelInv, [Next]_vars PROVE Rests'
<1>. USE DEF ChannelInv, RemovedIdle, Rests, FlagDown, WaitsForNothing, NotStreaming, Resting
<1>1. CASE UNCHANGED vars BY <1>1
<1>2. CASE Isr BY <1>2 DEF Isr, IsrRead, IsrDecide, IsrPost, Quiet, Orderly
<1>3. CASE Thread
  BY <1>3 DEF Thread, ThreadTop, ThreadWait, ThreadPrepare, ThreadRecheck, ThreadWoken, ThreadCheck,
              ThreadLook, ThreadLook2, ThreadGrab, ThreadDel, ThreadDone, ThreadClear
<1>4. CASE Start BY <1>4 DEF Start, StreamOn, StreamOnQueue, StartEvents, StartFlags, StartCounts
<1>5. CASE Stop BY <1>5 DEF Stop, StreamOff, StopSpin, StopFlags, StopClear, Orderly
<1>6. CASE App BY <1>6 DEF App, AppQueue, AppDequeue
<1>7. CASE Free BY <1>7 DEF Free, FreeEvent, FreeStop, FreeJoin
<1>8. QED BY <1>1, <1>2, <1>3, <1>4, <1>5, <1>6, <1>7 DEF Next

LEMMA FlagDownStep ==
    ASSUME Orderly, ChannelInv, [Next]_vars PROVE FlagDown'
<1>. USE DEF ChannelInv, FlagDown, NotStreaming
<1>1. CASE UNCHANGED vars BY <1>1
<1>2. CASE Isr BY <1>2 DEF Isr, IsrRead, IsrDecide, IsrPost
<1>3. CASE Thread
  BY <1>3 DEF Thread, ThreadTop, ThreadWait, ThreadPrepare, ThreadRecheck, ThreadWoken, ThreadCheck,
              ThreadLook, ThreadLook2, ThreadGrab, ThreadDel, ThreadDone, ThreadClear
<1>4. CASE Start BY <1>4 DEF Start, StreamOn, StreamOnQueue, StartEvents, StartFlags, StartCounts
<1>5. CASE Stop BY <1>5 DEF Stop, StreamOff, StopSpin, StopFlags, StopClear
<1>6. CASE App BY <1>6 DEF App, AppQueue, AppDequeue
<1>7. CASE Free BY <1>7 DEF Free, FreeEvent, FreeStop, FreeJoin
<1>8. QED BY <1>1, <1>2, <1>3, <1>4, <1>5, <1>6, <1>7 DEF Next

LEMMA WaitsStep ==
    ASSUME Orderly, ChannelInv, [Next]_vars PROVE WaitsForNothing'
<1>. USE DEF ChannelInv, WaitsForNothing
<1>1. CASE UNCHANGED vars BY <1>1
<1>2. CASE Isr BY <1>2 DEF Isr, IsrRead, IsrDecide, IsrPost
<1>3. CASE Thread
  BY <1>3 DEF Thread, ThreadTop, ThreadWait, ThreadPrepare, ThreadRecheck, ThreadWoken, ThreadCheck,
              ThreadLook, ThreadLook2, ThreadGrab, ThreadDel, ThreadDone, ThreadClear
<1>4. CASE Start BY <1>4 DEF Start, StreamOn, StreamOnQueue, StartEvents, StartFlags, StartCounts
<1>5. CASE Stop BY <1>5 DEF Stop, StreamOff, StopSpin, StopFlags, StopClear
<1>6. CASE App BY <1>6 DEF App, AppQueue, AppDequeue
<1>7. CASE Free BY <1>7 DEF Free, FreeEvent, FreeStop, FreeJoin
<1>8. QED BY <1>1, <1>2, <1>3, <1>4, <1>5, <1>6, <1>7 DEF Next

LEMMA MailboxStep ==
    ASSUME Orderly, ChannelInv, [Next]_vars PROVE MailboxHeld'
<1>. USE DEF ChannelInv, FrameKept, MailboxHeld, Serving, Rests, Resting, NotStreaming
<1>1. CASE UNCHANGED vars BY <1>1
<1>2. CASE Isr BY <1>2 DEF Isr, IsrRead, IsrDecide, IsrPost
<1>3. CASE Thread
  BY <1>3 DEF Thread, ThreadTop, ThreadWait, ThreadPrepare, ThreadRecheck, ThreadWoken, ThreadCheck,
              ThreadLook, ThreadLook2, ThreadGrab, ThreadDel, ThreadDone, ThreadClear
<1>4. CASE Start BY <1>4 DEF Start, StreamOn, StreamOnQueue, StartEvents, StartFlags, StartCounts
<1>5. CASE Stop BY <1>5 DEF Stop, StreamOff, StopSpin, StopFlags, StopClear
<1>6. CASE App BY <1>6 DEF App, AppQueue, AppDequeue
<1>7. CASE Free BY <1>7 DEF Free, FreeEvent, FreeStop, FreeJoin
<1>8. QED BY <1>1, <1>2, <1>3, <1>4, <1>5, <1>6, <1>7 DEF Next

-----------------------------------------------------------------------------
\* The types, by groups of variables.
FlagTypes ==
    /\ streaming_started \in BOOLEAN /\ streaming_running \in BOOLEAN /\ dummy_frame \in Nat
    /\ events_irq \in BOOLEAN /\ onWq \in BOOLEAN
    /\ ipc \in {"idle", "decide", "post"}
    /\ istarted \in BOOLEAN /\ idummy \in Nat /\ syncs \in Nat
    /\ trunning \in BOOLEAN /\ should_stop \in BOOLEAN /\ kicked \in BOOLEAN
    /\ vpc \in VPCs /\ sessions \in Nat
    /\ rpc \in {"bound", "event", "join", "removed"}
CountTypes ==
    /\ sequence \in Nat /\ frame_count \in Nat /\ frame_loss \in Nat /\ frame_sync_loss \in Nat
    /\ outSeq \in Nat \cup {-1}
BufferTypes ==
    /\ vidq_queued \in Seq(Bufs) /\ bstate \in [Bufs -> BufStates]
    /\ tpc \in ThreadPCs /\ tbuf \in Bufs \cup {None}
    /\ tpc \in {"grab", "del", "done"} => tbuf \in Bufs

LEMMA TypeGroups == TypeOK <=> FlagTypes /\ CountTypes /\ BufferTypes
  BY DEF TypeOK, FlagTypes, CountTypes, BufferTypes

LEMMA FlagTypesStep ==
    ASSUME TypeOK, [Next]_vars PROVE FlagTypes'
<1>. USE TypeGroups DEF FlagTypes
<1>1. CASE UNCHANGED vars BY <1>1
<1>2. CASE Isr
  <2>1. CASE IsrDecide
    <3>1. dummy_frame' \in Nat /\ streaming_running' \in BOOLEAN
      <4>1. CASE istarted /\ idummy < DummyFrames BY <2>1, <4>1 DEF IsrDecide
      <4>2. CASE ~(istarted /\ idummy < DummyFrames) BY <2>1, <4>2 DEF IsrDecide
      <4>3. QED BY <4>1, <4>2
    <3>2. ipc' \in {"post", "idle"}
      BY <2>1 DEF IsrDecide
    <3>3. QED BY <2>1, <3>1, <3>2 DEF IsrDecide
  <2>2. CASE IsrRead BY <2>2 DEF IsrRead
  <2>3. CASE IsrPost BY <2>3 DEF IsrPost
  <2>4. QED BY <1>2, <2>1, <2>2, <2>3 DEF Isr
<1>3. CASE Thread
  <2>1. CASE ThreadTop BY <2>1 DEF ThreadTop
  <2>2. CASE ThreadWait BY <2>2 DEF ThreadWait
  <2>3. CASE ThreadPrepare BY <2>3 DEF ThreadPrepare
  <2>4. CASE ThreadRecheck BY <2>4 DEF ThreadRecheck
  <2>5. CASE ThreadWoken BY <2>5 DEF ThreadWoken
  <2>6. CASE ThreadCheck BY <2>6 DEF ThreadCheck
  <2>7. CASE ThreadLook BY <2>7 DEF ThreadLook
  <2>8. CASE ThreadLook2 BY <2>8 DEF ThreadLook2
  <2>9. CASE ThreadGrab BY <2>9 DEF ThreadGrab
  <2>10. CASE ThreadDel BY <2>10 DEF ThreadDel
  <2>11. CASE ThreadDone BY <2>11 DEF ThreadDone
  <2>12. CASE ThreadClear BY <2>12 DEF ThreadClear
  <2>13. QED BY <1>3, <2>1, <2>2, <2>3, <2>4, <2>5, <2>6, <2>7, <2>8, <2>9, <2>10, <2>11, <2>12 DEF Thread
<1>4. CASE Start
  <2>1. CASE StreamOn BY <2>1 DEF StreamOn, VPCs
  <2>2. CASE \E b \in Bufs : StreamOnQueue(b) BY <2>2 DEF StreamOnQueue
  <2>3. CASE StartEvents BY <2>3 DEF StartEvents, VPCs
  <2>4. CASE StartFlags BY <2>4 DEF StartFlags, VPCs
  <2>5. CASE StartCounts BY <2>5 DEF StartCounts, VPCs
  <2>6. QED BY <1>4, <2>1, <2>2, <2>3, <2>4, <2>5 DEF Start
<1>5. CASE Stop
  <2>1. CASE StreamOff BY <2>1 DEF StreamOff, VPCs
  <2>2. CASE StopSpin BY <2>2 DEF StopSpin, VPCs
  <2>3. CASE StopFlags BY <2>3 DEF StopFlags, VPCs
  <2>4. CASE StopClear BY <2>4 DEF StopClear, VPCs
  <2>5. QED BY <1>5, <2>1, <2>2, <2>3, <2>4 DEF Stop
<1>6. CASE App BY <1>6 DEF App, AppQueue, AppDequeue
<1>7. CASE Free BY <1>7 DEF Free, FreeEvent, FreeStop, FreeJoin
<1>8. QED BY <1>1, <1>2, <1>3, <1>4, <1>5, <1>6, <1>7 DEF Next

LEMMA CountTypesStep ==
    ASSUME TypeOK, [Next]_vars PROVE CountTypes'
<1>. USE TypeGroups DEF CountTypes
<1>1. CASE UNCHANGED vars BY <1>1
<1>2. CASE Isr BY <1>2 DEF Isr, IsrRead, IsrDecide, IsrPost
<1>3. CASE Thread
  <2>1. CASE ThreadTop BY <2>1 DEF ThreadTop
  <2>2. CASE ThreadWait BY <2>2 DEF ThreadWait
  <2>3. CASE ThreadPrepare BY <2>3 DEF ThreadPrepare
  <2>4. CASE ThreadRecheck BY <2>4 DEF ThreadRecheck
  <2>5. CASE ThreadWoken BY <2>5 DEF ThreadWoken
  <2>6. CASE ThreadCheck BY <2>6 DEF ThreadCheck
  <2>7. CASE ThreadLook BY <2>7 DEF ThreadLook
  <2>8. CASE ThreadLook2 BY <2>8 DEF ThreadLook2
  <2>9. CASE ThreadGrab BY <2>9 DEF ThreadGrab
  <2>10. CASE ThreadDel BY <2>10 DEF ThreadDel
  <2>11. CASE ThreadDone BY <2>11 DEF ThreadDone
  <2>12. CASE ThreadClear BY <2>12 DEF ThreadClear
  <2>13. QED BY <1>3, <2>1, <2>2, <2>3, <2>4, <2>5, <2>6, <2>7, <2>8, <2>9, <2>10, <2>11, <2>12 DEF Thread
<1>4. CASE Start BY <1>4 DEF Start, StreamOn, StreamOnQueue, StartEvents, StartFlags, StartCounts
<1>5. CASE Stop BY <1>5 DEF Stop, StreamOff, StopSpin, StopFlags, StopClear
<1>6. CASE App BY <1>6 DEF App, AppQueue, AppDequeue
<1>7. CASE Free BY <1>7 DEF Free, FreeEvent, FreeStop, FreeJoin
<1>8. QED BY <1>1, <1>2, <1>3, <1>4, <1>5, <1>6, <1>7 DEF Next

\* Who has which buffer.
Buffers ==
    /\ BufferTypes /\ Once(vidq_queued) /\ NothingQueued /\ TakenOff
    /\ tpc \in {"grab", "del"} => vidq_queued # <<>> /\ Head(vidq_queued) = tbuf
    /\ \A b \in Bufs :
          bstate[b] = "driver" <=> Listed(vidq_queued, b) \/ (tpc = "done" /\ tbuf = b)

LEMMA BuffersOf == ChannelInv => Buffers
  BY FrameKeptParts, TypeGroups DEF ChannelInv, Buffers

\* Steps that neither hand buffers on nor move the thread to or from one.
LEMMA BuffersUnchanged ==
    ASSUME Buffers, UNCHANGED <<vidq_queued, bstate, tbuf>>,
           tpc' = tpc \/ (tpc' \notin {"grab", "del", "done"} /\ tpc # "done" /\ tpc' \in ThreadPCs)
               \/ (tpc = "grab" /\ tpc' = "del"),
           vpc' = "off" => vpc = "off"
    PROVE  Buffers'
<1>1. BufferTypes'
  BY DEF Buffers, BufferTypes, ThreadPCs
<1>2. NothingQueued' /\ TakenOff'
  BY DEF Buffers, NothingQueued, TakenOff, Listed
<1>3. Once(vidq_queued)'
  BY DEF Buffers, Once
<1>4. QED BY <1>1, <1>2, <1>3 DEF Buffers, Listed

\* A buffer is handed to the driver.
LEMMA GiveBuffers ==
    ASSUME Buffers, NEW b \in Bufs, bstate[b] # "driver", vpc # "off",
           bstate' = [bstate EXCEPT ![b] = "driver"], vidq_queued' = Queued(b),
           UNCHANGED <<tpc, tbuf, vpc>>
    PROVE  Buffers'
<1>1. vidq_queued \in Seq(Bufs) /\ Once(vidq_queued) /\ ~Listed(vidq_queued, b) /\ vidq_queued' = Append(vidq_queued, b)
  BY DEF Buffers, BufferTypes, Queued
<1>2. /\ vidq_queued' \in Seq(Bufs) /\ vidq_queued' # <<>> /\ Once(vidq_queued')
      /\ vidq_queued # <<>> => Head(vidq_queued') = Head(vidq_queued)
      /\ \A c : Listed(vidq_queued', c) <=> Listed(vidq_queued, c) \/ c = b
  BY <1>1, AppendList
<1>3. bstate' \in [Bufs -> BufStates]
  BY DEF Buffers, BufferTypes, BufStates
<1>4. BufferTypes' /\ NothingQueued' /\ TakenOff'
  <2>1. BufferTypes' /\ NothingQueued'
    BY <1>2, <1>3 DEF Buffers, BufferTypes, NothingQueued
  <2>2. tpc = "done" => tbuf \in Bufs /\ tbuf # b
    BY DEF Buffers, BufferTypes
  <2>3. ASSUME tpc = "done" PROVE ~Listed(vidq_queued', tbuf)
    BY <1>2, <2>2, <2>3 DEF Buffers, TakenOff
  <2>4. QED BY <2>1, <2>3 DEF TakenOff, Listed
<1>5. \A c \in Bufs : bstate'[c] = "driver" <=> Listed(vidq_queued', c) \/ (tpc' = "done" /\ tbuf' = c)
  <2>1. ASSUME NEW c \in Bufs, c # b
        PROVE  bstate'[c] = "driver" <=> Listed(vidq_queued', c) \/ (tpc' = "done" /\ tbuf' = c)
    BY <1>2, <2>1 DEF Buffers, BufferTypes
  <2>2. bstate'[b] = "driver" /\ Listed(vidq_queued', b)
    BY <1>2 DEF Buffers, BufferTypes
  <2>3. QED BY <2>1, <2>2
<1>6. QED BY <1>2, <1>4, <1>5 DEF Buffers, Once, Listed

LEMMA BuffersStep ==
    ASSUME Orderly, ChannelInv, [Next]_vars PROVE Buffers'
<1>. USE BuffersOf
<1>1. CASE UNCHANGED vars BY <1>1, BuffersUnchanged
<1>2. CASE Isr BY <1>2, BuffersUnchanged DEF Isr, IsrRead, IsrDecide, IsrPost
<1>3. CASE ThreadTop \/ ThreadWait \/ ThreadPrepare \/ ThreadRecheck \/ ThreadWoken \/ ThreadCheck
           \/ ThreadLook2 \/ ThreadGrab \/ ThreadClear
  <2>1. UNCHANGED <<vidq_queued, bstate, tbuf, vpc>>
    BY <1>3 DEF ThreadTop, ThreadWait, ThreadPrepare, ThreadRecheck, ThreadWoken, ThreadCheck,
                ThreadLook2, ThreadGrab, ThreadClear
  <2>2. \/ tpc' \notin {"grab", "del", "done"} /\ tpc # "done" /\ tpc' \in ThreadPCs
        \/ tpc = "grab" /\ tpc' = "del"
    BY <1>3 DEF ThreadTop, ThreadWait, ThreadPrepare, ThreadRecheck, ThreadWoken, ThreadCheck,
                ThreadLook2, ThreadGrab, ThreadClear, ThreadPCs
  <2>3. QED BY <2>1, <2>2, BuffersUnchanged
<1>4. CASE ThreadLook
  <2>1. CASE vidq_queued # <<>> /\ trunning
    <3>1. tpc' = "grab" /\ tbuf' = Head(vidq_queued) /\ UNCHANGED <<vidq_queued, bstate, vpc>> /\ tpc = "look"
      BY <1>4, <2>1 DEF ThreadLook
    <3>2. Head(vidq_queued) \in Bufs
      BY <2>1, TailList DEF Buffers, BufferTypes
    <3>3. vpc # "off"
      BY <2>1 DEF Buffers, NothingQueued
    <3>4. BufferTypes' /\ NothingQueued' /\ TakenOff' /\ Once(vidq_queued)'
      BY <3>1, <3>2, <3>3 DEF Buffers, BufferTypes, NothingQueued, TakenOff, ThreadPCs, Once
    <3>5. QED BY <2>1, <3>1, <3>4 DEF Buffers, Listed
  <2>2. CASE ~(vidq_queued # <<>> /\ trunning)
    BY <1>4, <2>2, BuffersUnchanged DEF ThreadLook, ThreadPCs
  <2>3. QED BY <2>1, <2>2
<1>5. CASE ThreadDel
  <2>1. /\ tpc = "del" /\ tpc' = "done" /\ vidq_queued' = Unlisted(tbuf)
        /\ UNCHANGED <<bstate, tbuf, vpc>>
    BY <1>5 DEF ThreadDel
  <2>2. vidq_queued \in Seq(Bufs) /\ vidq_queued # <<>> /\ Head(vidq_queued) = tbuf /\ Once(vidq_queued)
    BY <2>1 DEF Buffers, BufferTypes
  <2>3. vidq_queued' = Tail(vidq_queued)
    BY <2>1, <2>2, UnlistedHead
  <2>4. /\ vidq_queued' \in Seq(Bufs) /\ Once(vidq_queued') /\ tbuf \in Bufs
        /\ \A c : Listed(vidq_queued', c) <=> Listed(vidq_queued, c) /\ c # tbuf
    BY <2>2, <2>3, TailList
  <2>5. vpc # "off"
    BY <2>2 DEF Buffers, NothingQueued
  <2>6. BufferTypes' /\ NothingQueued' /\ TakenOff'
    <3>1. BufferTypes' /\ NothingQueued'
      BY <2>1, <2>4, <2>5 DEF Buffers, BufferTypes, NothingQueued, ThreadPCs
    <3>2. ~Listed(vidq_queued', tbuf)
      BY <2>4
    <3>3. QED BY <2>1, <3>1, <3>2 DEF TakenOff, Listed
  <2>7. Listed(vidq_queued, tbuf)
    <3>1. 1 \in 1 .. Len(vidq_queued) /\ vidq_queued[1] = tbuf
      BY <2>2
    <3>2. QED BY <3>1 DEF Listed
  <2>8. \A c \in Bufs : bstate'[c] = "driver" <=> Listed(vidq_queued', c) \/ (tpc' = "done" /\ tbuf' = c)
    BY <2>1, <2>4, <2>7 DEF Buffers
  <2>9. QED BY <2>1, <2>4, <2>6, <2>8 DEF Buffers, Once, Listed
<1>6. CASE ThreadDone
  <2>1. /\ tpc = "done" /\ tpc' = "clear" /\ tbuf' = None /\ UNCHANGED <<vidq_queued, vpc>>
        /\ bstate' = [bstate EXCEPT ![tbuf] = IF @ = "driver" THEN "done" ELSE @]
    BY <1>6 DEF ThreadDone
  <2>2. tbuf \in Bufs /\ bstate \in [Bufs -> BufStates] /\ bstate[tbuf] = "driver"
    BY <2>1 DEF Buffers, BufferTypes
  <2>3. ~Listed(vidq_queued, tbuf)
    BY <2>1 DEF Buffers, TakenOff
  <2>4. /\ bstate' \in [Bufs -> BufStates] /\ bstate'[tbuf] = "done"
        /\ \A b \in Bufs : b # tbuf => bstate'[b] = bstate[b]
    BY <2>1, <2>2 DEF BufStates
  <2>5. BufferTypes' /\ NothingQueued' /\ TakenOff' /\ Once(vidq_queued)'
    BY <2>1, <2>4 DEF Buffers, BufferTypes, NothingQueued, TakenOff, ThreadPCs, Once
  <2>6. \A b \in Bufs : bstate'[b] = "driver" <=> Listed(vidq_queued, b)
    BY <2>1, <2>2, <2>3, <2>4 DEF Buffers
  <2>7. QED BY <2>1, <2>5, <2>6 DEF Buffers, Listed
<1>7. CASE Start
  <2>1. ASSUME NEW b \in Bufs, StreamOnQueue(b) PROVE Buffers'
    <3>1. /\ bstate[b] # "driver" /\ vpc # "off"
          /\ bstate' = [bstate EXCEPT ![b] = "driver"] /\ vidq_queued' = Queued(b)
          /\ UNCHANGED <<tpc, tbuf, vpc>>
      BY <2>1 DEF StreamOnQueue
    <3>2. QED BY <3>1, GiveBuffers
  <2>2. CASE StreamOn \/ StartEvents \/ StartFlags \/ StartCounts
    BY <2>2, BuffersUnchanged DEF StreamOn, StartEvents, StartFlags, StartCounts
  <2>3. QED BY <1>7, <2>1, <2>2 DEF Start
<1>8. CASE Stop
  <2>1. CASE StopClear
    <3>1. vidq_queued' = <<>> /\ bstate' = [b \in Bufs |-> "user"] /\ vpc = "stopclear" /\ UNCHANGED <<tpc, tbuf>>
      BY <2>1 DEF StopClear
    <3>2. tpc \notin {"grab", "del", "done"}
      BY <3>1 DEF ChannelInv, RemovedIdle, Rests, NotStreaming, Resting
    <3>3. Len(vidq_queued') = 0 /\ vidq_queued' \in Seq(Bufs)
      BY <3>1
    <3>4. BufferTypes' /\ NothingQueued' /\ TakenOff'
      BY <3>1, <3>2, <3>3 DEF Buffers, BufferTypes, NothingQueued, TakenOff, BufStates
    <3>5. Once(vidq_queued') /\ \A b : ~Listed(vidq_queued', b)
      BY <3>3 DEF Once, Listed
    <3>6. QED BY <3>1, <3>2, <3>4, <3>5 DEF Buffers, Once, Listed
  <2>2. CASE StreamOff \/ StopSpin \/ StopFlags
    BY <2>2, BuffersUnchanged DEF StreamOff, StopSpin, StopFlags
  <2>3. QED BY <1>8, <2>1, <2>2 DEF Stop
<1>9. CASE App
  <2>1. PICK b \in Bufs : AppQueue(b) \/ AppDequeue(b)
    BY <1>9 DEF App
  <2>2. CASE AppQueue(b) /\ vpc = "on"
    <3>1. /\ bstate[b] # "driver" /\ vpc # "off"
          /\ bstate' = [bstate EXCEPT ![b] = "driver"] /\ vidq_queued' = Queued(b)
          /\ UNCHANGED <<tpc, tbuf, vpc>>
      BY <2>2 DEF AppQueue
    <3>2. QED BY <3>1, GiveBuffers
  <2>3. CASE (AppQueue(b) /\ vpc # "on") \/ AppDequeue(b)
    <3>1. PICK x : /\ bstate' = [bstate EXCEPT ![b] = x] /\ x \in {"prepared", "user"}
                   /\ bstate[b] # "driver" /\ UNCHANGED <<vidq_queued, tpc, tbuf, vpc>>
      BY <2>3 DEF AppQueue, AppDequeue
    <3>2. bstate' \in [Bufs -> BufStates] /\ \A c \in Bufs : bstate'[c] = "driver" <=> bstate[c] = "driver"
      BY <3>1 DEF Buffers, BufferTypes, BufStates
    <3>3. BufferTypes' /\ NothingQueued' /\ TakenOff' /\ Once(vidq_queued)'
      BY <3>1, <3>2 DEF Buffers, BufferTypes, NothingQueued, TakenOff, Listed, Once
    <3>4. QED BY <3>1, <3>2, <3>3 DEF Buffers, Listed
  <2>4. QED BY <2>1, <2>2, <2>3
<1>10. CASE Free
  BY <1>10, BuffersUnchanged DEF Free, FreeEvent, FreeStop, FreeJoin
<1>11. QED BY <1>1, <1>2, <1>3, <1>4, <1>5, <1>6, <1>7, <1>8, <1>9, <1>10 DEF Next, Thread
-----------------------------------------------------------------------------
\* Numbers and counters.
LEMMA NumberedStep ==
    ASSUME Orderly, ChannelInv, [Next]_vars PROVE Numbered'
<1>. /\ CountTypes /\ RemovedIdle /\ Rests /\ MailboxHeld
     /\ vpc = "counts" => outSeq = -1
     /\ rpc = "bound" /\ vpc \in {"on", "stop"} =>
           outSeq + Unserved <= sequence /\ frame_count + frame_loss + Unserved <= sequence
  BY TypeGroups DEF ChannelInv, FrameKept, DriverOwnsQueued, Numbered
<1>. USE DEF CountTypes, Numbered, Unserved
<1>1. CASE UNCHANGED vars BY <1>1
<1>2. CASE Isr
  <2>1. CASE IsrRead BY <2>1 DEF IsrRead
  <2>2. CASE IsrDecide BY <2>2 DEF IsrDecide
  <2>3. CASE IsrPost BY <2>3 DEF IsrPost
  <2>4. QED BY <1>2, <2>1, <2>2, <2>3 DEF Isr
<1>3. CASE Thread
  <2>1. CASE ThreadTop BY <2>1 DEF ThreadTop
  <2>2. CASE ThreadWait BY <2>2 DEF ThreadWait
  <2>3. CASE ThreadPrepare BY <2>3 DEF ThreadPrepare
  <2>4. CASE ThreadRecheck BY <2>4 DEF ThreadRecheck
  <2>5. CASE ThreadWoken BY <2>5 DEF ThreadWoken
  <2>6. CASE ThreadCheck BY <2>6 DEF ThreadCheck
  <2>7. CASE ThreadLook BY <2>7 DEF ThreadLook
  <2>8. CASE ThreadLook2 BY <2>8 DEF ThreadLook2, MailboxHeld, Serving
  <2>9. CASE ThreadGrab BY <2>9 DEF ThreadGrab
  <2>10. CASE ThreadDel BY <2>10 DEF ThreadDel
  <2>11. CASE ThreadDone
    <3>1. vpc # "counts"
      BY <2>11 DEF ThreadDone, RemovedIdle, Rests, Resting
    <3>2. QED BY <2>11, <3>1 DEF ThreadDone, MailboxHeld, Serving
  <2>12. CASE ThreadClear BY <2>12 DEF ThreadClear
  <2>13. QED BY <1>3, <2>1, <2>2, <2>3, <2>4, <2>5, <2>6, <2>7, <2>8, <2>9, <2>10, <2>11, <2>12 DEF Thread
<1>4. CASE Start
  <2>1. CASE StreamOn BY <2>1 DEF StreamOn
  <2>2. CASE \E b \in Bufs : StreamOnQueue(b) BY <2>2 DEF StreamOnQueue
  <2>3. CASE StartEvents BY <2>3 DEF StartEvents
  <2>4. CASE StartFlags BY <2>4 DEF StartFlags
  <2>5. CASE StartCounts BY <2>5 DEF StartCounts, Rests, RemovedIdle
  <2>6. QED BY <1>4, <2>1, <2>2, <2>3, <2>4, <2>5 DEF Start
<1>5. CASE Stop BY <1>5 DEF Stop, StreamOff, StopSpin, StopFlags, StopClear
<1>6. CASE App BY <1>6 DEF App, AppQueue, AppDequeue
<1>7. CASE Free BY <1>7 DEF Free, FreeEvent, FreeStop, FreeJoin
<1>8. QED BY <1>1, <1>2, <1>3, <1>4, <1>5, <1>6, <1>7 DEF Next

LEMMA ChannelStep == ASSUME Orderly, ChannelInv, [Next]_vars PROVE ChannelInv'
<1>1. MailboxHeld' /\ RemovedIdle' /\ Rests' /\ FlagDown' /\ WaitsForNothing' /\ Numbered'
  BY MailboxStep, RemovedIdleStep, RestsStep, FlagDownStep, WaitsStep, NumberedStep
<1>2. TypeOK
  BY DEF ChannelInv, FrameKept, DriverOwnsQueued
<1>3. FlagTypes' /\ CountTypes' /\ Buffers'
  BY <1>2, FlagTypesStep, CountTypesStep, BuffersStep
<1>4. TypeOK'
  BY <1>3 DEF TypeOK, FlagTypes, CountTypes, Buffers, BufferTypes
<1>5. DriverOwnsQueued'
  BY <1>3, <1>4 DEF DriverOwnsQueued, Buffers, Once, Listed
<1>6. QED BY <1>1, <1>3, <1>5 DEF ChannelInv, FrameKept, Buffers

\* In the channel of an orderly world, the inductive invariant holds.
LEMMA ChannelAlways == ASSUME Orderly PROVE Spec => []ChannelInv
<1>1. Init => ChannelInv
  BY ChannelInit
<1>2. ChannelInv /\ [Next]_vars => ChannelInv'
  BY ChannelStep
<1>3. QED BY <1>1, <1>2, PTL DEF Spec

\* Any number of buffers, frames and sessions: the frame the thread fills keeps
\* its buffer and its number, and the driver answers for each buffer it holds.
THEOREM FilledFrameKept == ASSUME Orderly PROVE Spec => []FrameKept
<1>1. ChannelInv => FrameKept
  BY DEF ChannelInv
<1>2. QED BY <1>1, ChannelAlways, PTL

\* A sync that was numbered is delivered, or counted as lost, at most once.
THEOREM SyncCountedOnce == ASSUME Orderly PROVE Spec => []CountedOnce
<1>1. ChannelInv => CountedOnce
  <2>1. ChannelInv => CountTypes /\ MailboxHeld /\ Numbered
    BY TypeGroups DEF ChannelInv, FrameKept, DriverOwnsQueued
  <2>2. QED BY <2>1 DEF CountTypes, MailboxHeld, Numbered, Unserved, CountedOnce, Serving
<1>2. QED BY <1>1, ChannelAlways, PTL
-----------------------------------------------------------------------------
\* The contract, FrameQueue.
LEMMA StutterStep ==
    ASSUME UNCHANGED <<vidq_queued, bstate, outSeq>>,
           tpc # "done", tpc' # "done" \/ UNCHANGED <<tpc, tbuf>>
    PROVE  UNCHANGED Vb2!vars
  BY DEF Vb2!vars, InHand, Owner

LEMMA StayStep ==
    ASSUME UNCHANGED <<vidq_queued, bstate, outSeq, tpc, tbuf>>
    PROVE  UNCHANGED Vb2!vars
  BY DEF Vb2!vars, InHand, Owner

\* The buffer the thread took off the list is still the driver's, ahead of the others.
LEMMA InHandTypes ==
    ASSUME Buffers
    PROVE  /\ InHand \in Seq(Bufs) /\ bstate \in [Bufs -> BufStates] /\ vidq_queued \in Seq(Bufs)
           /\ tpc = "done" => tbuf \in Bufs /\ <<tbuf>> \in Seq(Bufs)
<1>1. vidq_queued \in Seq(Bufs) /\ bstate \in [Bufs -> BufStates]
  BY DEF Buffers, BufferTypes
<1>2. tpc = "done" => tbuf \in Bufs /\ <<tbuf>> \in Seq(Bufs)
  BY DEF Buffers, BufferTypes
<1>3. tpc = "done" => <<tbuf>> \o vidq_queued \in Seq(Bufs)
  BY <1>1, <1>2, ConcatProperties
<1>4. QED BY <1>1, <1>2, <1>3 DEF InHand

LEMMA GiveStep ==
    ASSUME Buffers, NEW b \in Bufs, bstate[b] \in {"user", "prepared"},
           bstate' = [bstate EXCEPT ![b] = "driver"], vidq_queued' = Queued(b),
           UNCHANGED <<tpc, tbuf, outSeq>>
    PROVE  Vb2!Next
<1>1. InHand' = Append(InHand, b)
  <2>1. vidq_queued' = Append(vidq_queued, b)
    BY DEF Queued
  <2>2. CASE tpc = "done"
    <3>1. /\ tbuf \in Bufs /\ <<tbuf>> \in Seq(Bufs) /\ vidq_queued \in Seq(Bufs) /\ <<b>> \in Seq(Bufs)
          /\ <<tbuf>> \o vidq_queued \in Seq(Bufs)
      BY <2>2, InHandTypes DEF InHand
    <3>2. Append(vidq_queued, b) = vidq_queued \o <<b>>
      BY <3>1, AppendIsConcat
    <3>3. Append(<<tbuf>> \o vidq_queued, b) = (<<tbuf>> \o vidq_queued) \o <<b>>
      BY <3>1, AppendIsConcat
    <3>4. (<<tbuf>> \o vidq_queued) \o <<b>> = <<tbuf>> \o (vidq_queued \o <<b>>)
      BY <3>1, ConcatAssociative
    <3>5. QED BY <2>1, <2>2, <3>2, <3>3, <3>4 DEF InHand
  <2>3. CASE tpc # "done" BY <2>1, <2>3 DEF InHand
  <2>4. QED BY <2>2, <2>3
<1>2. bstate \in [Bufs -> BufStates]
  BY InHandTypes
<1>3. Owner[b] = "user" /\ Owner' = [Owner EXCEPT ![b] = "driver"]
  BY <1>2 DEF Owner
<1>4. Vb2!Give(b)
  BY <1>1, <1>3 DEF Vb2!Give
<1>5. QED BY <1>4 DEF Vb2!Next

LEMMA DeliverStep ==
    ASSUME Orderly, ChannelInv, ThreadDone PROVE Vb2!Deliver
<1>. Buffers
  BY BuffersOf
<1>1. /\ tpc = "done" /\ tpc' = "clear" /\ outSeq' = sequence /\ vidq_queued' = vidq_queued
      /\ bstate' = [bstate EXCEPT ![tbuf] = IF @ = "driver" THEN "done" ELSE @]
  BY DEF ThreadDone
<1>2. /\ tbuf \in Bufs /\ bstate \in [Bufs -> BufStates] /\ vidq_queued \in Seq(Bufs)
      /\ bstate[tbuf] = "driver"
  BY <1>1, InHandTypes DEF Buffers
<1>3. InHand = <<tbuf>> \o vidq_queued /\ InHand' = vidq_queued
  BY <1>1 DEF InHand
<1>4. InHand # <<>> /\ Head(InHand) = tbuf /\ Tail(InHand) = vidq_queued
  <2>1. <<tbuf>> \o vidq_queued # <<>> /\ Head(<<tbuf>> \o vidq_queued) = tbuf
    BY <1>2
  <2>2. Tail(<<tbuf>> \o vidq_queued) = vidq_queued
    BY <1>2
  <2>3. QED BY <1>3, <2>1, <2>2
<1>5. Owner' = [Owner EXCEPT ![tbuf] = "done"]
  BY <1>1, <1>2 DEF Owner
<1>6. outSeq' > outSeq
  <2>1. rpc = "bound" /\ vpc \in {"on", "stop"}
    BY <1>1 DEF ChannelInv, RemovedIdle, NothingQueued, Rests, NotStreaming, Resting, FrameKept,
                DriverOwnsQueued, TypeOK, VPCs
  <2>2. events_irq
    BY <1>1, <2>1 DEF ChannelInv, FrameKept, MailboxHeld, Serving
  <2>3. CountTypes
    BY TypeGroups DEF ChannelInv, FrameKept, DriverOwnsQueued
  <2>4. outSeq + 1 <= sequence
    BY <1>1, <2>1, <2>2 DEF ChannelInv, Numbered, Unserved
  <2>5. QED BY <1>1, <2>3, <2>4 DEF CountTypes
<1>7. QED BY <1>3, <1>4, <1>5, <1>6 DEF Vb2!Deliver

\* list_del leaves in the driver's hands what it held.
LEMMA DelStep ==
    ASSUME ChannelInv, ThreadDel PROVE UNCHANGED Vb2!vars
<1>1. /\ tpc = "del" /\ tpc' = "done" /\ vidq_queued' = Unlisted(tbuf)
      /\ UNCHANGED <<bstate, tbuf, outSeq>>
  BY DEF ThreadDel
<1>2. vidq_queued \in Seq(Bufs) /\ vidq_queued # <<>> /\ Head(vidq_queued) = tbuf /\ Once(vidq_queued)
  BY <1>1, BuffersOf DEF Buffers, BufferTypes
<1>3. vidq_queued' = Tail(vidq_queued)
  BY <1>1, <1>2, UnlistedHead
<1>4. <<Head(vidq_queued)>> \o Tail(vidq_queued) = vidq_queued
  BY <1>2
<1>5. InHand' = InHand
  BY <1>1, <1>2, <1>3, <1>4 DEF InHand
<1>6. QED BY <1>1, <1>5 DEF Vb2!vars, Owner

LEMMA ContractStep == ASSUME Orderly, ChannelInv, [Next]_vars PROVE [Vb2!Next]_Vb2!vars
<1>. Buffers
  BY BuffersOf
<1>1. CASE UNCHANGED vars BY <1>1, StayStep
<1>2. CASE Isr BY <1>2, StayStep DEF Isr, IsrRead, IsrDecide, IsrPost
<1>3. CASE ThreadTop \/ ThreadWait \/ ThreadPrepare \/ ThreadRecheck \/ ThreadWoken \/ ThreadCheck
           \/ ThreadLook \/ ThreadLook2 \/ ThreadGrab \/ ThreadClear
  <2>1. UNCHANGED <<vidq_queued, bstate, outSeq>> /\ tpc # "done" /\ tpc' # "done"
    BY <1>3 DEF ThreadTop, ThreadWait, ThreadPrepare, ThreadRecheck, ThreadWoken, ThreadCheck,
                ThreadLook, ThreadLook2, ThreadGrab, ThreadClear
  <2>2. QED BY <2>1, StutterStep
<1>4. CASE ThreadDel BY <1>4, DelStep
<1>5. CASE ThreadDone BY <1>5, DeliverStep DEF Vb2!Next
<1>6. CASE Start
  <2>1. ASSUME NEW b \in Bufs, StreamOnQueue(b) PROVE Vb2!Next
    BY <2>1, GiveStep DEF StreamOnQueue
  <2>2. CASE StartFlags
    <3>1. outSeq' = -1 /\ UNCHANGED <<vidq_queued, bstate, tpc, tbuf>>
      BY <2>2 DEF StartFlags
    <3>2. Vb2!Restart
      BY <3>1 DEF Vb2!Restart, InHand, Owner
    <3>3. QED BY <3>2 DEF Vb2!Next
  <2>3. CASE StreamOn \/ StartEvents \/ StartCounts
    BY <2>3, StayStep DEF StreamOn, StartEvents, StartCounts
  <2>4. QED BY <1>6, <2>1, <2>2, <2>3 DEF Start
<1>7. CASE Stop
  <2>1. CASE StopClear
    <3>1. /\ vpc = "stopclear" /\ vidq_queued' = <<>> /\ bstate' = [b \in Bufs |-> "user"]
          /\ UNCHANGED <<tpc, tbuf, outSeq>>
      BY <2>1 DEF StopClear
    <3>2. tpc # "done"
      BY <3>1 DEF ChannelInv, RemovedIdle, Rests, NotStreaming, Resting
    <3>3. InHand' = <<>> /\ Owner' = [b \in Bufs |-> "user"]
      BY <3>1, <3>2 DEF InHand, Owner
    <3>4. QED BY <3>1, <3>3 DEF Vb2!Next, Vb2!Flush
  <2>2. CASE StreamOff \/ StopSpin \/ StopFlags
    BY <2>2, StayStep DEF StreamOff, StopSpin, StopFlags
  <2>3. QED BY <1>7, <2>1, <2>2 DEF Stop
<1>8. CASE App
  <2>1. PICK b \in Bufs : AppQueue(b) \/ AppDequeue(b)
    BY <1>8 DEF App
  <2>2. CASE AppQueue(b) /\ vpc = "on"
    BY <2>2, GiveStep DEF AppQueue
  <2>3. bstate \in [Bufs -> BufStates]
    BY InHandTypes
  <2>4. CASE AppQueue(b) /\ vpc # "on"
    <3>1. /\ bstate' = [bstate EXCEPT ![b] = "prepared"] /\ bstate[b] = "user"
          /\ UNCHANGED <<vidq_queued, outSeq, tpc, tbuf>>
      BY <2>4 DEF AppQueue
    <3>2. Owner' = Owner
      BY <2>3, <3>1 DEF Owner
    <3>3. QED BY <3>1, <3>2 DEF Vb2!vars, InHand
  <2>5. CASE AppDequeue(b)
    <3>1. /\ bstate' = [bstate EXCEPT ![b] = "user"] /\ bstate[b] = "done"
          /\ UNCHANGED <<vidq_queued, outSeq, tpc, tbuf>>
      BY <2>5 DEF AppDequeue
    <3>2. Owner[b] = "done" /\ Owner' = [Owner EXCEPT ![b] = "user"]
      BY <2>3, <3>1 DEF Owner
    <3>3. Vb2!Take(b)
      BY <3>1, <3>2 DEF Vb2!Take, InHand
    <3>4. QED BY <3>3 DEF Vb2!Next
  <2>6. QED BY <2>1, <2>2, <2>4, <2>5
<1>9. CASE Free
  BY <1>9, StayStep DEF Free, FreeEvent, FreeStop, FreeJoin
<1>10. QED BY <1>1, <1>2, <1>3, <1>4, <1>5, <1>6, <1>7, <1>8, <1>9 DEF Next, Thread

\* For any number of buffers, the channel keeps its promise to videobuf2: each buffer
\* comes back once, in the order it was given, under numbers that increase.
THEOREM ChannelKeepsContract == ASSUME Orderly PROVE Spec => RefinesFrameQueue
<1>1. Init => Vb2!Init
  BY DEF Init, Vb2!Init, InHand, Owner
<1>2. ChannelInv /\ [Next]_vars => [Vb2!Next]_Vb2!vars
  BY ContractStep
<1>3. QED BY <1>1, <1>2, ChannelAlways, PTL DEF Spec, RefinesFrameQueue, Vb2!Spec
=============================================================================
