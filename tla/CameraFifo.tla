------------------------------ MODULE CameraFifo ------------------------------
(***************************************************************************)
(* The camera library (pcie-hal/src) in its polling form, for one camera:  *)
(* pcie_camera_init makes the camera, step by step, and then a thread      *)
(* (cameraPoll) that waits for frames and captures them                    *)
(* (Camera::CameraCapture); the application takes them from a FIFO         *)
(* (Camera::getYuvFrame) and copies them; pcie_camera_destroy takes        *)
(* everything down without joining the thread.                             *)
(*                                                                         *)
(* A slot of the FIFO does not hold a frame: it points into a buffer       *)
(* shared with the driver, which gets that buffer back at once.  The       *)
(* driver fills buffers in the order they are given to it (FrameQueue).    *)
(* After a step that uses memory already freed nothing is said of the      *)
(* system (wild).                                                          *)
(***************************************************************************)
EXTENDS Integers, Sequences, FiniteSets

CONSTANTS
    Depth,         \* FRAMEFIFODEPTH, the slots of the FIFO and the buffers
    None,
    MaxInits,      \* bound: calls of pcie_camera_init
    MaxFrames      \* bound: frames the driver starts for one camera

Bufs    == 1 .. Depth
Slots   == 0 .. Depth - 1
Threads == 1 .. MaxInits           \* one thread for each call of init

\* What is assumed of the constants; the modules this one is checked in assume it.
FifoAssumption ==
    /\ Depth \in Nat \ {0}
    /\ MaxInits \in Nat /\ MaxFrames \in Nat
    /\ None \notin Bufs

VARIABLES
    \* the application: where it is, and the frame it was given
    apc, got,
    \* the camera objects: which ones these are, and their state
    gen, cam,
    \* struct Camera
    fifo, readIndex, writeIndex,
    \* the poll threads: where each is, the camera it works on, the buffer it
    \* dequeued; the flag they run under
    tpc, tgen, tbuf, pollExit,
    \* the driver: buffers it is to fill, whether it fills the first, filled
    \* buffers, the number of the frame in each, frames started
    vq, filling, doneq, content, frames,
    \* memory was used after it was freed
    wild,
    \* history: the FIFO was corrected, the threads that captured from
    \* this camera
    overrun, users

appVars == <<apc, got>>
camVars == <<gen, cam>>
fifoVars == <<fifo, readIndex, writeIndex>>
thrVars == <<tpc, tgen, tbuf>>
drvVars == <<vq, filling, doneq, content, frames>>
histVars == <<overrun, users>>
vars == <<appVars, camVars, fifoVars, thrVars, pollExit, drvVars, wild, histVars>>

\* A frame: the buffer it is in and its number (buf.sequence).
NoFrame == [buf |-> None, no |-> -1]
Frames == [buf : Bufs, no : Nat] \cup {NoFrame}

Init ==
    /\ apc = "out" /\ got = NoFrame
    /\ gen = 0 /\ cam = "none"
    /\ fifo = [i \in Slots |-> NoFrame] /\ readIndex = 0 /\ writeIndex = 0
    /\ tpc = [t \in Threads |-> "none"] /\ tgen = [t \in Threads |-> 0]
    /\ tbuf = [t \in Threads |-> NoFrame]
    /\ pollExit = FALSE
    /\ vq = <<>> /\ filling = FALSE /\ doneq = <<>>
    /\ content = [b \in Bufs |-> -1] /\ frames = 0
    /\ wild = FALSE
    /\ overrun = FALSE /\ users = {}
-----------------------------------------------------------------------------
\* An operator X_Fault, written before X, is X with the fault its comment
\* names: no specification uses it, it is there to be put in the place of X, to
\* see that a property notices.

\* The application.

\* pcie_camera_init: a new camera, without a descriptor, takes the place of the old
\* one in pcieCamera, ...
CameraInit ==
    /\ apc = "out" /\ gen < MaxInits
    /\ apc' = "open" /\ gen' = gen + 1 /\ cam' = "new"
    /\ fifo' = [i \in Slots |-> NoFrame] /\ readIndex' = 0 /\ writeIndex' = 0
    /\ vq' = <<>> /\ filling' = FALSE /\ doneq' = <<>>
    /\ content' = [b \in Bufs |-> -1] /\ frames' = 0
    /\ overrun' = FALSE /\ users' = {}
    /\ UNCHANGED <<got, thrVars, pollExit, wild>>

Advance(from, to, state) ==
    /\ apc = from /\ apc' = to
    /\ cam' = state
    /\ UNCHANGED <<got, gen, fifoVars, pollExit, filling, doneq, content, frames,
                   wild, histVars>>

\* ... is opened, or deleted if that fails (openCamera), ...
CameraOpen == Advance("open", "start", "opened") /\ UNCHANGED <<thrVars, vq>>
CameraOpenFails == Advance("open", "out", "deleted") /\ UNCHANGED <<thrVars, vq>>

\* ... gives all its buffers to the driver and streams (startCamera), ...
CameraStart ==
    /\ Advance("start", "thread", "streaming")
    /\ vq' = [b \in Bufs |-> b]
    /\ UNCHANGED thrVars

\* ... and gets a thread.
CreateThread ==
    /\ Advance("thread", "in", cam)
    /\ tpc' = [tpc EXCEPT ![gen] = "born"]
    /\ UNCHANGED <<tgen, tbuf, vq>>

\* The oldest frames have been overwritten, or are about to be.
Behind == readIndex < writeIndex - Depth + 1

Corrected == IF Behind THEN writeIndex - Depth + 1 ELSE readIndex

Available == Corrected < writeIndex

\* getYuvFrame (readCamera): the slot is chosen before the correction.
GetYuvFrame ==
    /\ apc = "in"
    /\ overrun' = (overrun \/ Behind)
    /\ IF Available
       THEN /\ got' = fifo[readIndex % Depth]
            /\ readIndex' = Corrected + 1
            /\ apc' = "copy"
       ELSE /\ readIndex' = Corrected
            /\ UNCHANGED <<got, apc>>
    /\ UNCHANGED <<camVars, fifo, writeIndex, thrVars, pollExit, drvVars,
                   wild, users>>

\* memcpy out of the mapped buffer, after indexLock was released.
CopyFrame ==
    /\ apc = "copy"
    /\ got' = NoFrame
    /\ apc' = "in"
    /\ UNCHANGED <<camVars, fifoVars, thrVars, pollExit, drvVars, wild, histVars>>

\* pcie_camera_destroy: the flag, STREAMOFF, the mappings and the descriptor, the object.
Destroy(from, to, state) ==
    /\ apc = from /\ apc' = to
    /\ cam' = state
    /\ UNCHANGED <<got, gen, fifoVars, thrVars, content, frames, wild, histVars>>

DestroyFlag ==
    /\ Destroy("in", "stop", cam)
    /\ pollExit' = FALSE
    /\ UNCHANGED <<vq, filling, doneq>>

CameraStop ==
    /\ Destroy("stop", "close", "stopped")
    /\ vq' = <<>> /\ filling' = FALSE /\ doneq' = <<>>
    /\ UNCHANGED pollExit

CameraClose == Destroy("close", "delete", "closed") /\ UNCHANGED <<pollExit, vq, filling, doneq>>
DeleteCamera == Destroy("delete", "out", "deleted") /\ UNCHANGED <<pollExit, vq, filling, doneq>>
-----------------------------------------------------------------------------
\* The poll thread.

\* The camera the thread works on has been deleted.
Gone(t) == cam = "deleted" \/ tgen[t] # gen

Astray ==
    /\ wild' = TRUE
    /\ UNCHANGED <<appVars, camVars, fifoVars, thrVars, pollExit, drvVars, histVars>>

Goto(t, p) == tpc' = [tpc EXCEPT ![t] = p]

\* The thread begins with pollExit = 1, whatever was asked of it meanwhile.
PollBegin(t) ==
    /\ tpc[t] = "born"
    /\ pollExit' = TRUE
    /\ Goto(t, "loop")
    /\ UNCHANGED <<appVars, camVars, fifoVars, tgen, tbuf, drvVars, wild, histVars>>

\* The flag is read once, before the loop.
PollOn_Hoisted == TRUE
PollOn == pollExit

\* while(pollExit) pcieCamera->pollCamera()
PollLoop(t) ==
    /\ tpc[t] = "loop"
    /\ \/ PollOn /\ cam = "deleted" /\ Astray
       \/ /\ ~(PollOn /\ cam = "deleted")
          /\ Goto(t, IF PollOn THEN "select" ELSE "over")
          /\ tgen' = [tgen EXCEPT ![t] = gen]
          /\ tbuf' = [tbuf EXCEPT ![t] = NoFrame]
          /\ UNCHANGED <<appVars, camVars, fifoVars, pollExit, drvVars, wild, histVars>>

\* select: a frame, an error (a queue that does not stream counts as readable, a
\* closed descriptor does not), or the timeout.  A new camera's descriptor is not
\* initialised.
PollSelect(t) ==
    /\ tpc[t] = "select"
    /\ \/ (Gone(t) \/ cam = "new") /\ Astray
       \/ /\ ~Gone(t)
          /\ \/ (doneq # <<>> \/ cam \in {"opened", "stopped"}) /\ Goto(t, "dqbuf")
             \/ doneq = <<>> /\ Goto(t, "loop")
          /\ UNCHANGED <<appVars, camVars, fifoVars, tgen, tbuf, pollExit, drvVars,
                         wild, histVars>>

\* CameraCapture, VIDIOC_DQBUF; without a buffer it returns.
CaptureDequeue(t) ==
    /\ tpc[t] = "dqbuf"
    /\ \/ Gone(t) /\ Astray
       \/ /\ ~Gone(t) /\ doneq = <<>>
          /\ Goto(t, "loop")
          /\ UNCHANGED <<appVars, camVars, fifoVars, tgen, tbuf, pollExit, drvVars,
                         wild, histVars>>
       \/ /\ ~Gone(t) /\ doneq # <<>>
          /\ tbuf' = [tbuf EXCEPT ![t] = [buf |-> Head(doneq), no |-> content[Head(doneq)]]]
          /\ doneq' = Tail(doneq)
          /\ users' = users \cup {t}
          /\ Goto(t, "slot")
          /\ UNCHANGED <<appVars, camVars, fifoVars, tgen, pollExit, vq, filling,
                         content, frames, wild, overrun>>

\* The slot after the next one is used.
CaptureIndex_OffByOne == (writeIndex + 1) % Depth
CaptureIndex == writeIndex % Depth

\* The slot, under indexLock.  It takes the address of the buffer.
CaptureSlot(t) ==
    /\ tpc[t] = "slot"
    /\ \/ (Gone(t) \/ cam = "closed") /\ Astray
       \/ /\ ~Gone(t) /\ cam # "closed"
          /\ fifo' = [fifo EXCEPT ![CaptureIndex] = tbuf[t]]
          /\ writeIndex' = writeIndex + 1
          /\ Goto(t, "qbuf")
          /\ UNCHANGED <<appVars, camVars, readIndex, tgen, tbuf, pollExit, drvVars,
                         wild, histVars>>

\* The buffer is given back before those that wait.
Requeued_First(b) == <<b>> \o vq
Requeued(b) == Append(vq, b)

\* The buffer is not given back.
CaptureRequeue_Kept(t) ==
    /\ tpc[t] = "qbuf"
    /\ Goto(t, "loop")
    /\ UNCHANGED <<appVars, camVars, fifoVars, tgen, tbuf, pollExit, drvVars, wild, histVars>>

\* VIDIOC_QBUF: the driver has the buffer again, the slot still points to it.
CaptureRequeue(t) ==
    /\ tpc[t] = "qbuf"
    /\ \/ Gone(t) /\ Astray
       \/ /\ ~Gone(t)
          /\ vq' = IF cam = "streaming" THEN Requeued(tbuf[t].buf) ELSE vq
          /\ Goto(t, "loop")
          /\ UNCHANGED <<appVars, camVars, fifoVars, tgen, tbuf, pollExit, filling,
                         doneq, content, frames, wild, histVars>>
-----------------------------------------------------------------------------
\* The driver: a frame is written into the first buffer, which is then done.
FillStart ==
    /\ cam = "streaming" /\ vq # <<>> /\ ~filling /\ frames < MaxFrames
    /\ filling' = TRUE
    /\ content' = [content EXCEPT ![Head(vq)] = frames]
    /\ frames' = frames + 1
    /\ UNCHANGED <<appVars, camVars, fifoVars, thrVars, pollExit, vq, doneq, wild, histVars>>

FillEnd ==
    /\ filling
    /\ filling' = FALSE
    /\ doneq' = Append(doneq, Head(vq))
    /\ vq' = Tail(vq)
    /\ UNCHANGED <<appVars, camVars, fifoVars, thrVars, pollExit, content, frames,
                   wild, histVars>>
-----------------------------------------------------------------------------
Application == CameraInit \/ CameraOpen \/ CameraOpenFails \/ CameraStart \/ CreateThread
               \/ GetYuvFrame \/ CopyFrame
               \/ DestroyFlag \/ CameraStop \/ CameraClose \/ DeleteCamera

Poll(t) == PollBegin(t) \/ PollLoop(t) \/ PollSelect(t) \/ CaptureDequeue(t)
           \/ CaptureSlot(t) \/ CaptureRequeue(t)

Driver == FillStart \/ FillEnd

Next ==
    /\ ~wild
    /\ \/ Application
       \/ \E t \in Threads : Poll(t)
       \/ Driver

\* Threads run, the driver goes on.
Fairness ==
    /\ \A t \in Threads : WF_vars(~wild /\ Poll(t))
    /\ WF_vars(~wild /\ Driver)

Spec == Init /\ [][Next]_vars /\ Fairness
-----------------------------------------------------------------------------
\* Properties.

ThreadPCs == {"none", "born", "loop", "select", "dqbuf", "slot", "qbuf", "over"}

\* Types.
TypeOK ==
    /\ apc \in {"out", "open", "start", "thread", "in", "copy", "stop", "close", "delete"}
    /\ got \in Frames
    /\ gen \in 0 .. MaxInits
    /\ cam \in {"none", "new", "opened", "streaming", "stopped", "closed", "deleted"}
    /\ fifo \in [Slots -> Frames] /\ readIndex \in Nat /\ writeIndex \in Nat
    /\ readIndex <= writeIndex
    /\ tpc \in [Threads -> ThreadPCs] /\ tgen \in [Threads -> 0 .. MaxInits]
    /\ tbuf \in [Threads -> Frames]
    /\ vq \in Seq(Bufs) /\ doneq \in Seq(Bufs) /\ content \in [Bufs -> Nat \cup {-1}]
    /\ frames \in 0 .. MaxFrames
    /\ {pollExit, filling, wild, overrun} \subseteq BOOLEAN
    /\ users \subseteq Threads

\* One thread at most has captured from this camera.
Alone == Cardinality(users) <= 1

\* Until the reader is overtaken, and as long as one thread captures, every
\* frame is returned, once and in order (getYuvFrame, readIndex++).
InOrderUntilOverrun ==
    ~overrun /\ Alone /\ apc = "copy" => got.no = readIndex - 1

\* What the application copies out of a buffer is the frame it was promised, unless
\* the driver has since gone once round all the buffers but those other threads
\* hold: this is the time a reader has (CameraCapture gives a buffer back before
\* anybody reads it).
CopiesIntact ==
    apc = "copy" /\ apc' = "in" /\ content[got.buf] # got.no =>
        content[got.buf] - got.no >= Depth - (Cardinality(users) - 1)

\* While the camera streams, every buffer is in one place: with the driver,
\* done, or with a thread about to give it back (CameraCapture).
Held == {t \in Threads : tpc[t] \in {"slot", "qbuf"} /\ tgen[t] = gen}
BuffersConserved ==
    /\ TypeOK
    /\ cam = "streaming" /\ ~wild =>
        \A b \in Bufs : Cardinality({p \in DOMAIN vq : vq[p] = b})
                        + Cardinality({p \in DOMAIN doneq : doneq[p] = b})
                        + Cardinality({t \in Held : tbuf[t].buf = b}) = 1

\* Frames are in order until the reader is overtaken, and intact for a round
\* (getYuvFrame, CameraCapture).
FramesHold == [][InOrderUntilOverrun' /\ CopiesIntact]_vars

\* Once pcie_camera_destroy has cleared pollExit, the poll threads end, unless one
\* had not begun (it then sets the flag again, line 22), the camera is initialised
\* again, or freed memory is used.
PollStops ==
    apc = "stop" /\ ~pollExit /\ (\A t \in Threads : tpc[t] # "born")
        ~> \/ \A t \in Threads : tpc[t] \in {"none", "over"}
           \/ apc = "in" \/ wild
=============================================================================
