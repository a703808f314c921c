----------------------------- MODULE HalCamera -----------------------------
(***************************************************************************)
(* The camera library in its board form (hal_camera.cpp, PcieCamera.cpp):  *)
(* an application initialises a board, starts it, stops it and destroys    *)
(* it; frames are polled for (mode 1) or handed to a callback by a thread  *)
(* of each channel (mode 2).  One flag, running, serves the threads of all *)
(* boards; the threads start before the epoll descriptors they wait on     *)
(* exist; data_mode and the descriptors are not initialised.               *)
(*                                                                         *)
(* The library keeps no locks: calls come from one thread of the           *)
(* application (calling).  What becomes of a frame inside Camera is        *)
(* CameraFifo's subject.  After a step that uses a camera that is gone     *)
(* nothing is said of the system (wild).                                   *)
(***************************************************************************)
EXTENDS Integers, Sequences

CONSTANTS
    Boards, Chans,
    MaxFrames      \* bound: frames the driver delivers for one channel

ASSUME HalAssumption ==
    /\ Boards \subseteq 0 .. 3 /\ Chans \subseteq 0 .. 7
    /\ MaxFrames \in Nat

VARIABLES
    \* the channels of each board that are used (m_chmask)
    chmask,
    \* the call the application is in: its step and its board
    calling,
    \* the boards: cameras[board] and its streaming, data_mode, m_efds
    cam, data_mode, efds,
    running,
    \* callback threads: where each is, what its frameInfo points to
    th, info,
    \* the driver: frames captured and not taken, frames so far
    ready, produced,
    wild

boardVars == <<cam, data_mode, efds>>
thVars == <<th, info>>
driverVars == <<ready, produced>>
halVars == <<chmask, calling, boardVars, running, thVars, driverVars, wild>>

Idle == [step |-> "none", board |-> 0]
On(b) == {c \in Chans : c \in chmask[b]}
Per(v) == [b \in Boards |-> [c \in Chans |-> v]]

\* An operator X_Fault, written before X, is X with the fault its comment names:
\* no specification uses it, it is there to be put in the place of X, to see that
\* a property notices.

HalInit ==
    /\ calling = Idle
    /\ cam = [b \in Boards |-> "none"]
    /\ data_mode = [b \in Boards |-> "unset"] /\ efds = [b \in Boards |-> "garbage"]
    /\ running = FALSE
    /\ th = Per("none") /\ info = Per("garbage")
    /\ ready = Per(0) /\ produced = Per(0)
    /\ wild = FALSE
-----------------------------------------------------------------------------
\* The calls.

At(step) == calling.step = step
Going(step) == calling' = [calling EXCEPT !.step = step]
Called(b, step) == At("none") /\ calling' = [step |-> step, board |-> b]

\* hal_camera_init, with openCamera.
InitBoard(b) ==
    /\ At("none") /\ cam[b] = "none"
    /\ cam' = [cam EXCEPT ![b] = "open"]
    /\ data_mode' = [data_mode EXCEPT ![b] = "unset"]
    /\ efds' = [efds EXCEPT ![b] = "garbage"]
    /\ UNCHANGED <<chmask, calling, running, thVars, driverVars, wild>>

\* hal_camera_start: threads first, if it is to call back.
Start(b, mode) ==
    /\ Called(b, IF mode = 2 THEN "stream" ELSE "streampoll")
    /\ cam[b] = "open" /\ data_mode[b] = "unset"
    /\ IF mode = 2
       THEN /\ running' = TRUE
            /\ data_mode' = [data_mode EXCEPT ![b] = "callback"]
            /\ th' = [th EXCEPT ![b] = [c \in Chans |-> IF c \in On(b) THEN "test" ELSE @[c]]]
       ELSE UNCHANGED <<running, data_mode, th>>
    /\ UNCHANGED <<chmask, cam, efds, info, driverVars, wild>>

\* startCamera: CameraStart of each channel.
StartStream ==
    LET b == calling.board IN
    /\ At("stream") \/ At("streampoll")
    /\ cam' = [cam EXCEPT ![b] = "streaming"]
    /\ Going(IF At("stream") THEN "epolls" ELSE "epoll")
    /\ UNCHANGED <<chmask, data_mode, efds, running, thVars, driverVars, wild>>

\* CameraStart fails and leaves startCamera, whose result is passed on.
StartFails ==
    /\ At("stream") \/ At("streampoll")
    /\ calling' = Idle
    /\ UNCHANGED <<chmask, boardVars, running, thVars, driverVars, wild>>

\* PcieCamera::init: a descriptor for each channel, or one for all.
StartEpoll ==
    LET b == calling.board IN
    /\ At("epolls") \/ At("epoll")
    /\ efds' = [efds EXCEPT ![b] = IF At("epolls") THEN "each" ELSE "all"]
    /\ calling' = Idle
    /\ UNCHANGED <<chmask, cam, data_mode, running, thVars, driverVars, wild>>

\* The threads are told to stop, and not waited for.
Stop_NoJoin(b) ==
    /\ Called(b, "halt") /\ cam[b] \in {"open", "streaming"}
    /\ running' = FALSE
    /\ UNCHANGED <<chmask, boardVars, thVars, driverVars, wild>>

\* hal_camera_stop.  A data_mode that was never set may read as 2: then threads
\* are joined that were never created.
Stop(b) ==
    /\ \/ Called(b, IF data_mode[b] = "callback" THEN "join" ELSE "halt")
       \/ data_mode[b] = "unset" /\ Called(b, "crash")
    /\ cam[b] \in {"open", "streaming"}
    /\ running' = FALSE
    /\ UNCHANGED <<chmask, boardVars, thVars, driverVars, wild>>

StopJoin ==
    /\ At("join") /\ \A c \in On(calling.board) : th[calling.board][c] = "gone"
    /\ Going("halt")
    /\ UNCHANGED <<chmask, boardVars, running, thVars, driverVars, wild>>

\* stopCamera: STREAMOFF; frames not taken are gone.
StopHalt ==
    LET b == calling.board IN
    /\ At("halt")
    /\ cam' = [cam EXCEPT ![b] = "stopped"]
    /\ ready' = [ready EXCEPT ![b] = [c \in Chans |-> 0]]
    /\ calling' = Idle
    /\ UNCHANGED <<chmask, data_mode, efds, running, thVars, produced, wild>>

\* hal_camera_destroy: unmaps the buffers, closes the descriptors, frees.  It also
\* closes the members of m_efds that were never set, whatever they hold; whose
\* descriptors these are is outside the model.
Destroy(b) ==
    /\ At("none") /\ cam[b] = "stopped"
    /\ cam' = [cam EXCEPT ![b] = "destroyed"]
    /\ efds' = [efds EXCEPT ![b] = "closed"]
    /\ UNCHANGED <<chmask, calling, data_mode, running, thVars, driverVars, wild>>

Gone(b) == cam[b] \in {"none", "destroyed"}
-----------------------------------------------------------------------------
\* camera_thread_handle.

Thread(b, c, from, to) == th[b][c] = from /\ th' = [th EXCEPT ![b][c] = to]
ThreadOnly == UNCHANGED <<chmask, calling, boardVars, running, produced>>

CbTest(b, c) ==
    /\ Thread(b, c, "test", IF running THEN "read" ELSE "gone")
    /\ ThreadOnly /\ UNCHANGED <<info, ready, wild>>

\* Without a card nothing is read, but the callback is called.
CbRead(b, c) ==
    /\ Thread(b, c, "read", IF Gone(b) THEN "call" ELSE "wait")
    /\ ThreadOnly /\ UNCHANGED <<info, ready, wild>>

\* readFrameTimeOut: a frame, or -1 after the timeout or for a descriptor that
\* is none.
CbWait(b, c) ==
    /\ Thread(b, c, "wait", "call")
    /\ wild' = (wild \/ Gone(b))
    /\ \/ UNCHANGED <<info, ready>>
       \/ /\ efds[b] = "each" /\ cam[b] = "streaming" /\ ready[b][c] > 0
          /\ ready' = [ready EXCEPT ![b][c] = @ - 1]
          /\ info' = [info EXCEPT ![b][c] = "frame"]
    /\ ThreadOnly

\* The callback, whatever the read returned: with the last frame or, before the
\* first one, with whatever the stack held.
CbCall(b, c) ==
    /\ Thread(b, c, "call", "test")
    /\ wild' = (wild \/ (info[b][c] = "frame" /\ Gone(b)))
    /\ ThreadOnly /\ UNCHANGED <<info, ready>>

\* The driver, while the channel streams.
FrameReady(b, c) ==
    /\ cam[b] = "streaming" /\ c \in On(b) /\ produced[b][c] < MaxFrames
    /\ ready' = [ready EXCEPT ![b][c] = @ + 1]
    /\ produced' = [produced EXCEPT ![b][c] = @ + 1]
    /\ UNCHANGED <<chmask, calling, boardVars, running, thVars, wild>>
-----------------------------------------------------------------------------
Steps == StartStream \/ StartFails \/ StartEpoll \/ StopJoin \/ StopHalt
CbThread(b, c) == CbTest(b, c) \/ CbRead(b, c) \/ CbWait(b, c) \/ CbCall(b, c)

\* An application with callbacks, which keeps to the order of the calls for
\* each board.
CallbackUser == \E b \in Boards :
    On(b) # {} /\ (InitBoard(b) \/ Start(b, 2) \/ Stop(b) \/ Destroy(b))

HalNext ==
    \/ CallbackUser \/ Steps
    \/ \E b \in Boards, c \in Chans : CbThread(b, c) \/ FrameReady(b, c)

HalFairness ==
    /\ WF_halVars(Steps)
    /\ \A b \in Boards, c \in Chans : WF_halVars(CbThread(b, c))
-----------------------------------------------------------------------------
HalTypeOK ==
    /\ chmask \in [Boards -> SUBSET Chans]
    /\ calling \in [step : {"none", "stream", "streampoll", "epolls", "epoll",
                            "join", "halt", "crash"}, board : Boards \cup {0}]
    /\ cam \in [Boards -> {"none", "open", "streaming", "stopped", "destroyed"}]
    /\ data_mode \in [Boards -> {"unset", "callback"}]
    /\ efds \in [Boards -> {"garbage", "each", "all", "closed"}]
    /\ running \in BOOLEAN /\ wild \in BOOLEAN
    /\ th \in [Boards -> [Chans -> {"none", "test", "read", "wait", "call", "gone"}]]
    /\ info \in [Boards -> [Chans -> {"garbage", "frame"}]]
    /\ ready \in [Boards -> [Chans -> Nat]] /\ produced \in [Boards -> [Chans -> Nat]]

\* No thread reads from a camera, and no callback looks at a frame in its
\* buffers, after the camera was destroyed.
CamerasOutlive == ~wild

\* hal_camera_stop comes back from its joins: running stays false until the last
\* thread has seen it, whatever the boards' threads are doing.
StopReturns == At("join") ~> ~At("join")
=============================================================================
