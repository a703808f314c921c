------------------------------ MODULE Viewer ------------------------------
(***************************************************************************)
(* The viewer (pcie_release/sample/view.cpp) on the camera library: one    *)
(* capture thread per board copies every frame it polls into a queue of    *)
(* its channel; the main thread shows one channel (single), or starts a    *)
(* display thread for each channel of the first board and keeps the window *)
(* (multi), or only waits for Ctrl-C (none).  Closing the window or Ctrl-C *)
(* takes everything down: display threads, capture threads, cameras.       *)
(*                                                                         *)
(* The queues have no bound but the frames a run delivers.  A behaviour is *)
(* one of the viewer, or one of any application with callbacks (HalCamera),*)
(* by the choice of app.                                                   *)
(***************************************************************************)
EXTENDS HalCamera, FiniteSetsExt

CONSTANTS
    Masks,         \* channel masks the viewer is started with
    CallbackMasks, \* those of the application with callbacks
    Plays          \* of {"none", "single", "multi"}

ASSUME ViewerAssumption ==
    /\ Masks \subseteq [Boards -> SUBSET Chans] /\ CallbackMasks \subseteq [Boards -> SUBSET Chans]
    /\ Plays \subseteq {"none", "single", "multi"}

VARIABLES
    app, play,
    script,        \* kill_view.sh is where the viewer looks for it
    vpc, mainframe,
    main_exit, shouldExit,
    \* the capture threads: where each is, the channel it polled
    cap, chan,
    \* the display threads: where each is, the frame it shows
    disp, frame,
    dataQueue, pushed, shown

choiceVars == <<app, play, script>>
mainVars == <<vpc, mainframe>>
exitVars == <<main_exit, shouldExit>>
capVars == <<cap, chan>>
dispVars == <<disp, frame>>
queueVars == <<dataQueue, pushed, shown>>
viewVars == <<choiceVars, mainVars, exitVars, capVars, dispVars, queueVars>>
vars == <<halVars, viewVars>>

Used == {b \in Boards : On(b) # {}}
First == Min(Used)                \* the board and the channel single shows
FirstChan == Min(On(First))
Board0 == 0                       \* multi shows the channels of board 0
Tiles == IF 0 \in Boards THEN On(0) ELSE {}
Dead == {"ended", "killed", "crashed"}

Init ==
    /\ HalInit
    /\ \/ app = "view" /\ chmask \in Masks /\ play \in Plays /\ script \in BOOLEAN
       \/ app = "callback" /\ chmask \in CallbackMasks /\ play = "none" /\ script = FALSE
    /\ vpc = "init" /\ mainframe = 0
    /\ main_exit = FALSE /\ shouldExit = FALSE
    /\ cap = [b \in Boards |-> "none"] /\ chan = [b \in Boards |-> 0]
    /\ disp = [c \in Chans |-> "none"] /\ frame = [c \in Chans |-> 0]
    /\ dataQueue = Per(<<>>) /\ pushed = Per(0) /\ shown = Per(0)
-----------------------------------------------------------------------------
\* The main thread.

Goto(from, to) == app = "view" /\ vpc = from /\ vpc' = to
MainOnly == UNCHANGED <<choiceVars, exitVars, capVars, dispVars, queueVars>>

\* View::init: the boards in turn, or none after one that failed.
InitNext ==
    LET left == {b \in Used : cam[b] = "none"} IN
    \/ /\ left # {} /\ Goto("init", "init") /\ InitBoard(Min(left))
       /\ MainOnly /\ UNCHANGED mainframe
    \/ /\ left = {} /\ Goto("init", "display")
       /\ MainOnly /\ UNCHANGED <<halVars, mainframe>>
InitFails ==
    /\ {b \in Used : cam[b] = "none"} # {} /\ Goto("init", "ended")
    /\ MainOnly /\ UNCHANGED <<halVars, mainframe>>

\* View::display: the capture thread of a board, then the board is started.
DisplayThread ==
    LET left == {b \in Used : cap[b] = "none"} IN
    /\ At("none") /\ left # {} /\ Goto("display", "start")
    /\ cap' = [cap EXCEPT ![Min(left)] = "test"]
    /\ UNCHANGED <<halVars, choiceVars, exitVars, mainframe, chan, dispVars, queueVars>>
DisplayStart ==
    /\ Goto("start", "display")
    /\ Start(Max({b \in Used : cap[b] # "none"}), 1)
    /\ MainOnly /\ UNCHANGED mainframe
DisplayDone ==
    /\ At("none") /\ \A b \in Used : cap[b] # "none"
    /\ Goto("display", CASE play = "none" -> "wait" [] play = "single" -> "single"
                         [] play = "multi" -> "multi")
    /\ MainOnly /\ UNCHANGED <<halVars, mainframe>>

Pop(b, c) ==
    /\ dataQueue[b][c] # <<>>
    /\ dataQueue' = [dataQueue EXCEPT ![b][c] = Tail(@)]

\* opencv_single_channel_play.
SinglePop ==
    /\ Goto("single", "singleshow")
    /\ Pop(First, FirstChan) /\ mainframe' = Head(dataQueue[First][FirstChan])
    /\ UNCHANGED <<halVars, choiceVars, exitVars, capVars, dispVars, pushed, shown>>
SingleShow ==
    /\ \/ Goto("singleshow", "single") /\ UNCHANGED exitVars
       \/ Goto("singleshow", "wait")          \* Esc, or the window was closed
          /\ main_exit' = TRUE /\ UNCHANGED shouldExit
    /\ shown' = [shown EXCEPT ![First][FirstChan] = mainframe]
    /\ UNCHANGED <<halVars, choiceVars, mainframe, capVars, dispVars, dataQueue, pushed>>

\* opencv_multi_channel_8_play: a first frame, if there is one, and a thread
\* for each channel.
NextTile == Min({c \in Tiles : disp[c] = "none"})
NoTile == \A c \in Tiles : disp[c] # "none"

MultiPop ==
    /\ ~NoTile /\ Goto("multi", "multishow")
    /\ Pop(Board0, NextTile) /\ mainframe' = Head(dataQueue[0][NextTile])
    /\ UNCHANGED <<halVars, choiceVars, exitVars, capVars, dispVars, pushed, shown>>

\* A channel without a frame gets no thread.
MultiEmpty_Continue ==
    /\ ~NoTile /\ Goto("multi", "multi") /\ dataQueue[0][NextTile] = <<>>
    /\ disp' = [disp EXCEPT ![NextTile] = "gone"]
    /\ UNCHANGED <<halVars, choiceVars, exitVars, mainframe, capVars, frame, queueVars>>
MultiEmpty ==
    /\ ~NoTile /\ Goto("multi", "multi") /\ dataQueue[0][NextTile] = <<>>
    /\ disp' = [disp EXCEPT ![NextTile] = "test"]
    /\ UNCHANGED <<halVars, choiceVars, exitVars, mainframe, capVars, frame, queueVars>>

MultiShow ==
    /\ Goto("multishow", "multi")
    /\ shown' = [shown EXCEPT ![0][NextTile] = mainframe]
    /\ disp' = [disp EXCEPT ![NextTile] = "test"]
    /\ UNCHANGED <<halVars, choiceVars, exitVars, mainframe, capVars, frame, dataQueue, pushed>>
MultiReady ==
    /\ NoTile /\ Goto("multi", "window")
    /\ MainOnly /\ UNCHANGED <<halVars, mainframe>>

\* Esc or the window closed; then the script, which kills every viewer.
WindowClosed ==
    /\ Goto("window", "closed")
    /\ shouldExit' = TRUE
    /\ UNCHANGED <<halVars, choiceVars, mainframe, main_exit, capVars, dispVars, queueVars>>
MainExit ==
    /\ Goto("closed", "kill")
    /\ main_exit' = TRUE
    /\ UNCHANGED <<halVars, choiceVars, mainframe, shouldExit, capVars, dispVars, queueVars>>
Kill ==
    /\ Goto("kill", IF script THEN "killed" ELSE "joindisp")
    /\ MainOnly /\ UNCHANGED <<halVars, mainframe>>
JoinDisplays ==
    /\ Goto("joindisp", "wait") /\ \A c \in Tiles : disp[c] = "gone"
    /\ MainOnly /\ UNCHANGED <<halVars, mainframe>>

\* main's last loop, and View::deinit.
Wait ==
    /\ main_exit /\ Goto("wait", "joincap")
    /\ MainOnly /\ UNCHANGED <<halVars, mainframe>>
JoinCaptures ==
    /\ Goto("joincap", "stop") /\ \A b \in Used : cap[b] = "gone"
    /\ MainOnly /\ UNCHANGED <<halVars, mainframe>>

DeinitStop ==
    LET left == {b \in Used : cam[b] # "destroyed"} IN
    /\ At("none") /\ left # {} /\ cam[Min(left)] # "stopped" /\ Goto("stop", "stop")
    /\ Stop(Min(left))
    /\ MainOnly /\ UNCHANGED mainframe
DeinitDestroy ==
    LET left == {b \in Used : cam[b] # "destroyed"} IN
    /\ At("none") /\ left # {} /\ cam[Min(left)] = "stopped" /\ Goto("stop", "stop")
    /\ Destroy(Min(left))
    /\ MainOnly /\ UNCHANGED mainframe
Exit ==
    /\ At("none") /\ \A b \in Used : cam[b] = "destroyed"
    /\ Goto("stop", "ended")
    /\ MainOnly /\ UNCHANGED <<halVars, mainframe>>
Crash ==
    /\ At("crash") /\ Goto("stop", "crashed")
    /\ MainOnly /\ UNCHANGED <<halVars, mainframe>>

\* my_handler.
CtrlC ==
    /\ app = "view" /\ vpc \notin Dead /\ ~main_exit
    /\ main_exit' = TRUE
    /\ UNCHANGED <<halVars, choiceVars, mainVars, shouldExit, capVars, dispVars, queueVars>>
-----------------------------------------------------------------------------
\* View::cameraRun.

Capture(b, from, to) == vpc \notin Dead /\ cap[b] = from /\ cap' = [cap EXCEPT ![b] = to]
CaptureOnly == UNCHANGED <<choiceVars, mainVars, exitVars, dispVars>>

\* The wrong one of the two flags.
CapTest_OtherFlag(b) ==
    /\ Capture(b, "test", IF shouldExit THEN "gone" ELSE "poll")
    /\ CaptureOnly /\ UNCHANGED <<halVars, chan, queueVars>>
CapTest(b) ==
    /\ Capture(b, "test", IF main_exit THEN "gone" ELSE "poll")
    /\ CaptureOnly /\ UNCHANGED <<halVars, chan, queueVars>>

\* pollFrameTimeOut, which finds its descriptor once the board was started.
CapPoll(b) ==
    /\ \/ Capture(b, "poll", "test") /\ UNCHANGED <<ready, chan>>
       \/ /\ efds[b] = "all" /\ cam[b] = "streaming"
          /\ \E c \in On(b) :
                /\ ready[b][c] > 0
                /\ ready' = [ready EXCEPT ![b][c] = @ - 1]
                /\ chan' = [chan EXCEPT ![b] = c]
          /\ Capture(b, "poll", "push")
    /\ wild' = (wild \/ Gone(b))
    /\ CaptureOnly
    /\ UNCHANGED <<chmask, calling, boardVars, running, thVars, produced, queueVars>>

\* A new frame takes the place of those that wait.
CapPush_Newest(b) ==
    LET c == chan[b]
        n == pushed[b][c] + 1 IN
    /\ Capture(b, "push", "test")
    /\ IF play = "none" THEN UNCHANGED queueVars
       ELSE /\ dataQueue' = [dataQueue EXCEPT ![b][c] = <<n>>]
            /\ pushed' = [pushed EXCEPT ![b][c] = n]
            /\ UNCHANGED shown
    /\ CaptureOnly /\ UNCHANGED <<halVars, chan>>

\* getRealTimeSdlData, under the lock of the channel, if anything is shown.
CapPush(b) ==
    LET c == chan[b]
        n == pushed[b][c] + 1 IN
    /\ Capture(b, "push", "test")
    /\ IF play = "none" THEN UNCHANGED queueVars
       ELSE /\ dataQueue' = [dataQueue EXCEPT ![b][c] = Append(@, n)]
            /\ pushed' = [pushed EXCEPT ![b][c] = n]
            /\ UNCHANGED shown
    /\ CaptureOnly /\ UNCHANGED <<halVars, chan>>

\* processCameraImage3: waits for the channel's queue, shows, and again.
Display(c, from, to) == vpc \notin Dead /\ disp[c] = from /\ disp' = [disp EXCEPT ![c] = to]
DisplayOnly == UNCHANGED <<halVars, choiceVars, mainVars, exitVars, capVars, pushed>>

DispTest(c) ==
    /\ Display(c, "test", IF shouldExit THEN "gone" ELSE "wait")
    /\ DisplayOnly /\ UNCHANGED <<frame, dataQueue, shown>>
DispPop(c) ==
    /\ Display(c, "wait", "show")
    /\ Pop(Board0, c) /\ frame' = [frame EXCEPT ![c] = Head(dataQueue[0][c])]
    /\ DisplayOnly /\ UNCHANGED shown
DispShow(c) ==
    /\ Display(c, "show", "test")
    /\ shown' = [shown EXCEPT ![0][c] = frame[c]]
    /\ DisplayOnly /\ UNCHANGED <<frame, dataQueue>>
-----------------------------------------------------------------------------
Main ==
    \/ InitNext \/ DisplayThread \/ DisplayStart \/ DisplayDone
    \/ SinglePop \/ SingleShow \/ MultiPop \/ MultiEmpty \/ MultiShow \/ MultiReady
    \/ MainExit \/ Kill \/ JoinDisplays \/ Wait \/ JoinCaptures
    \/ DeinitStop \/ DeinitDestroy \/ Exit \/ Crash
Library == vpc \notin Dead /\ Steps /\ UNCHANGED viewVars
CapThread(b) == CapTest(b) \/ CapPoll(b) \/ CapPush(b)
DispThread(c) == DispTest(c) \/ DispPop(c) \/ DispShow(c)

Next ==
    \/ Main \/ InitFails \/ WindowClosed \/ CtrlC \/ Library
    \/ \E b \in Boards : CapThread(b)
    \/ \E c \in Chans : DispThread(c)
    \/ app = "callback" /\ CallbackUser /\ UNCHANGED viewVars
    \/ \E b \in Boards, c \in Chans :
            vpc \notin Dead /\ (CbThread(b, c) \/ FrameReady(b, c)) /\ UNCHANGED viewVars

Spec == Init /\ [][Next]_vars

\* Threads that can run are scheduled; windows are closed, signals sent and
\* frames captured when they are.
FairSpec ==
    /\ Spec
    /\ WF_vars(Main) /\ WF_vars(Library)
    /\ \A b \in Boards : WF_vars(CapThread(b))
    /\ \A c \in Chans : WF_vars(DispThread(c))
    /\ \A b \in Boards, c \in Chans : WF_vars(CbThread(b, c) /\ UNCHANGED viewVars)
-----------------------------------------------------------------------------
\* A channel's frames are shown one after the other, each once and none left
\* out, by whichever thread has the channel.
ShownInOrder ==
    [][\A b \in Boards, c \in Chans :
          shown[b][c]' # shown[b][c] => shown[b][c]' = shown[b][c] + 1]_vars

Watched(b, c) == \/ play = "single" /\ b = First /\ c = FirstChan
                 \/ play = "multi" /\ b = 0 /\ c \in On(0)

\* Every frame pushed for a channel in the window is shown, unless the window
\* is closed: a channel that lags behind its queue catches up with it.
Lags == \E b \in Boards, c \in Chans : Watched(b, c) /\ shown[b][c] < pushed[b][c]
FrameShown == Lags ~> ~Lags \/ main_exit

\* Once the window is closed, or on Ctrl-C where there is none, the viewer
\* ends; and hal_camera_stop returns.  Two waits are not ended by this: that for
\* display threads, whose channels may have no more frames, where the script
\* does not kill them; and that of a single view for a frame after Ctrl-C.
LeaveEnds ==
    /\ (main_exit /\ vpc \in {"wait", "kill"}) \/ vpc = "closed"
            ~> vpc \in Dead \/ (vpc = "joindisp" /\ ~script)
    /\ StopReturns
=============================================================================
