------------------------------ MODULE ViewerProofs ------------------------------
(***************************************************************************)
(* For any boards, channels, masks and frames: cameras outlive the threads *)
(* that read from them, in the viewer and in an application with           *)
(* callbacks; and a channel's frames are shown each once and in order, by  *)
(* whichever thread has the channel.                                       *)
(***************************************************************************)
EXTENDS Viewer, SequenceTheorems, TLAPS

-----------------------------------------------------------------------------
\* The library.

Quiet(b) == \A c \in Chans : th[b][c] \in {"none", "gone"}

\* A board has threads if it was started with callbacks, and they are joined before
\* its camera is stopped.
Outliving(b) ==
    /\ cam[b] = "none" => data_mode[b] = "unset"
    /\ data_mode[b] = "unset" => \A c \in Chans : th[b][c] = "none"
    /\ \A c \in Chans \ On(b) : th[b][c] = "none"
    /\ cam[b] \in {"stopped", "destroyed"} => Quiet(b)

LibraryInv ==
    /\ HalTypeOK /\ \A b \in Boards : Outliving(b)
    /\ ~At("none") => calling.board \in Boards
    /\ At("halt") => Quiet(calling.board)

\* What the invariant speaks of stays.
LEMMA LibraryStands ==
  ASSUME LibraryInv, HalTypeOK', UNCHANGED <<chmask, calling, cam, data_mode, th>>
  PROVE  LibraryInv'
BY DEF LibraryInv, Outliving, Quiet, On, At

LEMMA InitBoardLibrary ==
  ASSUME LibraryInv, NEW b \in Boards, InitBoard(b) PROVE LibraryInv'
<1>0. /\ cam[b] = "none" /\ cam' = [cam EXCEPT ![b] = "open"]
      /\ data_mode' = [data_mode EXCEPT ![b] = "unset"]
      /\ efds' = [efds EXCEPT ![b] = "garbage"]
      /\ UNCHANGED <<chmask, calling, running, th, info, ready, produced, wild>>
  BY DEF InitBoard, thVars, driverVars
<1>1. HalTypeOK'
  BY <1>0 DEF LibraryInv, HalTypeOK
<1>2. ASSUME NEW d \in Boards PROVE Outliving(d)'
  BY <1>0 DEF LibraryInv, HalTypeOK, Outliving, Quiet, On
<1>3. QED BY <1>0, <1>1, <1>2 DEF LibraryInv, Quiet, At

LEMMA StartLibrary ==
  ASSUME LibraryInv, NEW b \in Boards, NEW mode \in {1, 2}, Start(b, mode) PROVE LibraryInv'
<1>0. /\ At("none") /\ cam[b] = "open"
      /\ calling' = [step |-> IF mode = 2 THEN "stream" ELSE "streampoll", board |-> b]
      /\ UNCHANGED <<chmask, cam, efds, info, ready, produced, wild>>
  BY DEF Start, Called, driverVars
<1>1. CASE mode = 2
  <2>0. /\ running' = TRUE /\ data_mode' = [data_mode EXCEPT ![b] = "callback"]
        /\ th' = [th EXCEPT ![b] = [c \in Chans |-> IF c \in On(b) THEN "test" ELSE @[c]]]
    BY <1>1 DEF Start
  <2>1. HalTypeOK'
    BY <1>0, <2>0 DEF LibraryInv, HalTypeOK
  <2>2. ASSUME NEW d \in Boards PROVE Outliving(d)'
    BY <1>0, <2>0 DEF LibraryInv, HalTypeOK, Outliving, Quiet, On
  <2>3. QED BY <1>0, <2>1, <2>2 DEF LibraryInv, At
<1>2. CASE mode = 1
  <2>0. UNCHANGED <<running, data_mode, th>>
    BY <1>2 DEF Start
  <2>1. HalTypeOK'
    BY <1>0, <2>0 DEF LibraryInv, HalTypeOK
  <2>2. ASSUME NEW d \in Boards PROVE Outliving(d)'
    BY <1>0, <2>0 DEF LibraryInv, HalTypeOK, Outliving, Quiet, On
  <2>3. QED BY <1>0, <2>1, <2>2 DEF LibraryInv, At
<1>3. QED BY <1>1, <1>2

LEMMA StopLibrary ==
  ASSUME LibraryInv, NEW b \in Boards, Stop(b) PROVE LibraryInv'
<1>0. /\ At("none") /\ running' = FALSE
      /\ \/ calling' = [step |-> IF data_mode[b] = "callback" THEN "join" ELSE "halt", board |-> b]
         \/ calling' = [step |-> "crash", board |-> b]
      /\ UNCHANGED <<chmask, cam, data_mode, efds, th, info, ready, produced, wild>>
  BY DEF Stop, Called, boardVars, thVars, driverVars
<1>1. HalTypeOK'
  <2>1. calling' \in [step : {"join", "halt", "crash"}, board : Boards]
    BY <1>0
  <2>2. QED BY <1>0, <2>1 DEF LibraryInv, HalTypeOK
<1>2. ASSUME NEW d \in Boards PROVE Outliving(d)'
  BY <1>0 DEF LibraryInv, Outliving, Quiet, On
<1>3. ASSUME At("halt")' PROVE Quiet(calling.board)'
  BY <1>0, <1>3 DEF LibraryInv, HalTypeOK, Outliving, Quiet, At
<1>4. QED BY <1>0, <1>1, <1>2, <1>3 DEF LibraryInv, At

LEMMA DestroyLibrary ==
  ASSUME LibraryInv, NEW b \in Boards, Destroy(b) PROVE LibraryInv'
<1>0. /\ At("none") /\ cam[b] = "stopped" /\ cam' = [cam EXCEPT ![b] = "destroyed"]
      /\ efds' = [efds EXCEPT ![b] = "closed"]
      /\ UNCHANGED <<chmask, calling, data_mode, running, th, info, ready, produced, wild>>
  BY DEF Destroy, thVars, driverVars
<1>1. HalTypeOK'
  BY <1>0 DEF LibraryInv, HalTypeOK
<1>2. ASSUME NEW d \in Boards PROVE Outliving(d)'
  BY <1>0 DEF LibraryInv, HalTypeOK, Outliving, Quiet, On
<1>3. QED BY <1>0, <1>1, <1>2 DEF LibraryInv, Quiet, At

\* A call goes on: no board comes or goes by it.
LEMMA StepsLibrary ==
  ASSUME LibraryInv, Steps
  PROVE  /\ LibraryInv' /\ UNCHANGED <<chmask, wild>>
         /\ \A b \in Boards : cam[b] # "none" => cam'[b] # "none"
         /\ \A b \in Boards : cam[b] # "destroyed" => cam'[b] # "destroyed"
<1> DEFINE d == calling.board
<1>1. CASE StartStream
  <2>0. /\ At("stream") \/ At("streampoll")
        /\ cam' = [cam EXCEPT ![d] = "streaming"]
        /\ calling' = [calling EXCEPT !.step = IF At("stream") THEN "epolls" ELSE "epoll"]
        /\ UNCHANGED <<chmask, data_mode, efds, running, th, info, ready, produced, wild>>
    BY <1>1 DEF StartStream, Going, thVars, driverVars
  <2>1. d \in Boards /\ cam' = [cam EXCEPT ![d] = "streaming"]
    BY <1>1 DEF StartStream, LibraryInv, At
  <2>2. HalTypeOK'
    BY <2>0, <2>1 DEF LibraryInv, HalTypeOK
  <2>3. ASSUME NEW b \in Boards PROVE Outliving(b)'
    BY <2>0, <2>1 DEF LibraryInv, HalTypeOK, Outliving, Quiet, On
  <2>4. calling'.board = d /\ calling'.step \in {"epolls", "epoll"}
    BY <2>0 DEF LibraryInv, HalTypeOK
  <2>5. QED BY <2>0, <2>1, <2>2, <2>3, <2>4 DEF LibraryInv, HalTypeOK, At
<1>2. CASE StartFails
  <2>0. /\ calling' = Idle
        /\ UNCHANGED <<chmask, cam, data_mode, efds, running, th, info, ready, produced, wild>>
    BY <1>2 DEF StartFails, boardVars, thVars, driverVars
  <2>1. HalTypeOK'
    BY <2>0 DEF LibraryInv, HalTypeOK, Idle
  <2>2. ASSUME NEW b \in Boards PROVE Outliving(b)'
    BY <2>0 DEF LibraryInv, Outliving, Quiet, On
  <2>3. QED BY <2>0, <2>1, <2>2 DEF LibraryInv, At, Idle
<1>3. CASE StartEpoll
  <2>0. /\ calling' = Idle /\ efds' = [efds EXCEPT ![d] = IF At("epolls") THEN "each" ELSE "all"]
        /\ UNCHANGED <<chmask, cam, data_mode, running, th, info, ready, produced, wild>>
    BY <1>3 DEF StartEpoll, thVars, driverVars
  <2>1. HalTypeOK'
    BY <2>0 DEF LibraryInv, HalTypeOK, Idle
  <2>2. ASSUME NEW b \in Boards PROVE Outliving(b)'
    BY <2>0 DEF LibraryInv, Outliving, Quiet, On
  <2>3. QED BY <2>0, <2>1, <2>2 DEF LibraryInv, At, Idle
<1>4. CASE StopJoin
  <2>0. /\ At("join") /\ \A c \in On(d) : th[d][c] = "gone"
        /\ calling' = [calling EXCEPT !.step = "halt"]
        /\ UNCHANGED <<chmask, cam, data_mode, efds, running, th, info, ready, produced, wild>>
    BY <1>4 DEF StopJoin, Going, boardVars, thVars, driverVars
  <2>1. HalTypeOK'
    BY <2>0 DEF LibraryInv, HalTypeOK
  <2>2. ASSUME NEW b \in Boards PROVE Outliving(b)'
    BY <2>0 DEF LibraryInv, Outliving, Quiet, On
  <2>3. calling'.board = d /\ d \in Boards
    BY <2>0 DEF LibraryInv, HalTypeOK, At
  <2>4. Quiet(calling.board)'
    BY <2>0, <2>3 DEF LibraryInv, Outliving, Quiet, On
  <2>5. QED BY <2>0, <2>1, <2>2, <2>3, <2>4 DEF LibraryInv
<1>5. CASE StopHalt
  <2>0. /\ At("halt") /\ cam' = [cam EXCEPT ![d] = "stopped"]
        /\ ready' = [ready EXCEPT ![d] = [c \in Chans |-> 0]] /\ calling' = Idle
        /\ UNCHANGED <<chmask, data_mode, efds, running, th, info, produced, wild>>
    BY <1>5 DEF StopHalt, thVars
  <2>1. d \in Boards /\ Quiet(d)
    BY <2>0 DEF LibraryInv, At
  <2>2. HalTypeOK'
    BY <2>0 DEF LibraryInv, HalTypeOK, Idle
  <2>3. ASSUME NEW b \in Boards PROVE Outliving(b)'
    BY <2>0, <2>1 DEF LibraryInv, HalTypeOK, Outliving, Quiet, On
  <2>4. QED BY <2>0, <2>1, <2>2, <2>3 DEF LibraryInv, HalTypeOK, At, Idle
<1>6. QED BY <1>1, <1>2, <1>3, <1>4, <1>5 DEF Steps

\* A thread that runs belongs to a board that is not stopped.
LEMMA Runs ==
  ASSUME LibraryInv, NEW b \in Boards, NEW c \in Chans, th[b][c] \notin {"none", "gone"}
  PROVE  /\ c \in On(b) /\ data_mode[b] # "unset" /\ ~Gone(b) /\ cam[b] # "stopped"
         /\ At("halt") => calling.board # b
BY DEF LibraryInv, Outliving, Quiet, Gone

LEMMA ThreadLibrary ==
  ASSUME LibraryInv, NEW b \in Boards, NEW c \in Chans, CbThread(b, c)
  PROVE  LibraryInv' /\ UNCHANGED <<chmask, cam, wild>>
<1>1. PICK from \in {"test", "read", "wait", "call"}, to \in {"test", "read", "wait", "call", "gone"} :
         th[b][c] = from /\ th' = [th EXCEPT ![b][c] = to]
  BY DEF CbThread, CbTest, CbRead, CbWait, CbCall, Thread
<1>2. UNCHANGED <<chmask, calling, cam, data_mode, efds, running, produced>>
  BY DEF CbThread, CbTest, CbRead, CbWait, CbCall, ThreadOnly, boardVars
<1>3. /\ c \in On(b) /\ data_mode[b] # "unset" /\ ~Gone(b) /\ cam[b] # "stopped"
      /\ At("halt") => calling.board # b
  BY <1>1, Runs
<1>4. wild' = wild
  BY <1>3 DEF CbThread, CbTest, CbRead, CbWait, CbCall, LibraryInv, HalTypeOK
<1>5. /\ info' \in [Boards -> [Chans -> {"garbage", "frame"}]]
      /\ ready' \in [Boards -> [Chans -> Nat]]
  <2>1. CASE UNCHANGED <<info, ready>>
    BY <2>1 DEF LibraryInv, HalTypeOK
  <2>2. CASE /\ ready[b][c] > 0 /\ ready' = [ready EXCEPT ![b][c] = @ - 1]
             /\ info' = [info EXCEPT ![b][c] = "frame"]
    <3>1. ready[b][c] \in Nat /\ ready[b][c] - 1 \in Nat
      BY <2>2 DEF LibraryInv, HalTypeOK
    <3>2. QED BY <2>2, <3>1 DEF LibraryInv, HalTypeOK
  <2>3. QED BY <2>1, <2>2 DEF CbThread, CbTest, CbRead, CbWait, CbCall
<1>6. HalTypeOK'
  BY <1>1, <1>2, <1>4, <1>5 DEF LibraryInv, HalTypeOK
<1>7. /\ th'[b][c] = to
      /\ \A d \in Boards, e \in Chans : d # b \/ e # c => th'[d][e] = th[d][e]
  BY <1>1 DEF LibraryInv, HalTypeOK
<1>8. ASSUME NEW d \in Boards PROVE Outliving(d)'
  BY <1>2, <1>3, <1>7 DEF LibraryInv, Outliving, Quiet, On, Gone
<1>9. ASSUME At("halt")' PROVE Quiet(calling.board)'
  BY <1>2, <1>3, <1>7, <1>9 DEF LibraryInv, Quiet, At
<1>10. QED BY <1>2, <1>4, <1>6, <1>8, <1>9 DEF LibraryInv, At

LEMMA FrameReadyLibrary ==
  ASSUME LibraryInv, NEW b \in Boards, NEW c \in Chans, FrameReady(b, c)
  PROVE  LibraryInv' /\ UNCHANGED <<chmask, cam, wild>>
<1>1. HalTypeOK'
  BY DEF FrameReady, LibraryInv, HalTypeOK, boardVars, thVars
<1>2. QED BY <1>1, LibraryStands DEF FrameReady, boardVars, thVars
-----------------------------------------------------------------------------
\* The viewer's threads.

ViewTyped ==
    /\ app \in {"view", "callback"} /\ play \in {"none", "single", "multi"}
    /\ vpc \in {"init", "display", "start", "wait", "single", "singleshow", "multi", "multishow",
                "window", "closed", "kill", "joindisp", "joincap", "stop"} \cup Dead
    /\ cap \in [Boards -> {"none", "test", "poll", "push", "gone"}]
    /\ disp \in [Chans -> {"none", "test", "wait", "show", "gone"}]
    /\ frame \in [Chans -> Nat]
    /\ dataQueue \in [Boards -> [Chans -> Seq(Nat)]]
    /\ pushed \in [Boards -> [Chans -> Nat]] /\ shown \in [Boards -> [Chans -> Nat]]

\* A board has a capture thread only if the viewer has initialised it and until the
\* viewer takes it down.
CaptureInv ==
    /\ app = "callback" => vpc = "init"
    /\ vpc = "init" => \A b \in Boards : cap[b] = "none"
    /\ \A b \in Boards \ Used : cap[b] = "none"
    /\ app = "view" /\ vpc \notin {"init"} \cup Dead => \A b \in Used : cam[b] # "none"
    /\ app = "view" /\ vpc \notin {"stop"} \cup Dead => \A b \in Boards : cam[b] # "destroyed"
    /\ vpc = "stop" => \A b \in Used : cap[b] = "gone"
    /\ vpc = "start" => \E b \in Used : cap[b] # "none"
    /\ ~wild

\* The last frame that left the queue of a channel, and who has it to show it.
Taken(b, c) == pushed[b][c] - Len(dataQueue[b][c])
MainHas(b, c) ==
    \/ vpc = "singleshow" /\ b = First /\ c = FirstChan
    \/ vpc = "multishow" /\ b = 0 /\ c = NextTile
DispHas(b, c) == b = 0 /\ disp[c] = "show"

\* What waits follows what was taken; what was taken is shown, or one thread has it.
InOrder(b, c) ==
    /\ \A i \in 1 .. Len(dataQueue[b][c]) : dataQueue[b][c][i] = Taken(b, c) + i
    /\ MainHas(b, c) => ~DispHas(b, c) /\ mainframe = Taken(b, c)
    /\ DispHas(b, c) => frame[c] = Taken(b, c)
    /\ shown[b][c] = Taken(b, c) - (IF MainHas(b, c) \/ DispHas(b, c) THEN 1 ELSE 0)

DisplayInv ==
    /\ vpc \in {"single", "singleshow"} => play = "single"
    /\ vpc \in {"multi", "multishow"} => play = "multi"
    /\ \A c \in Chans : disp[c] # "none" => play = "multi" /\ c \in Tiles
    /\ vpc = "multishow" => ~NoTile
    /\ \A b \in Boards, c \in Chans : InOrder(b, c)

ViewInv == LibraryInv /\ ViewTyped /\ CaptureInv /\ DisplayInv

\* The least and the greatest of a few numbers are among them.
LEMMA Least ==
  ASSUME NEW S \in SUBSET (0 .. 7), S # {} PROVE Min(S) \in S /\ Max(S) \in S
<1>1. 0 \in S \/ 1 \in S \/ 2 \in S \/ 3 \in S \/ 4 \in S \/ 5 \in S \/ 6 \in S \/ 7 \in S
  <2>1. PICK x \in S : x \in 0 .. 7
    OBVIOUS
  <2>2. QED BY <2>1
<1>2. \E x \in S : \A y \in S : x <= y
  <2> DEFINE From(k) == k \in S /\ \A y \in 0 .. 7 : y < k => y \notin S
  <2>1. From(0) \/ From(1) \/ From(2) \/ From(3) \/ From(4) \/ From(5) \/ From(6) \/ From(7)
    BY <1>1
  <2>2. PICK k \in 0 .. 7 : From(k)
    BY <2>1
  <2>3. QED BY <2>2
<1>3. \E x \in S : \A y \in S : x >= y
  <2> DEFINE To(k) == k \in S /\ \A y \in 0 .. 7 : y > k => y \notin S
  <2>1. To(0) \/ To(1) \/ To(2) \/ To(3) \/ To(4) \/ To(5) \/ To(6) \/ To(7)
    BY <1>1
  <2>2. PICK k \in 0 .. 7 : To(k)
    BY <2>1
  <2>3. QED BY <2>2
<1>4. QED BY <1>2, <1>3 DEF Min, Max

LEMMA LeastBoard ==
  ASSUME NEW S \in SUBSET Boards, S # {} PROVE Min(S) \in S /\ Max(S) \in S
<1>1. S \in SUBSET (0 .. 7)
  BY HalAssumption
<1>2. QED BY <1>1, Least

LEMMA LeastTile ==
  ASSUME ~NoTile PROVE NextTile \in Tiles /\ disp[NextTile] = "none" /\ 0 \in Boards
                       /\ NextTile \in Chans
<1> DEFINE S == {c \in Tiles : disp[c] = "none"}
<1>1. S \subseteq 0 .. 7 /\ S # {} /\ 0 \in Boards /\ Tiles \subseteq Chans
  BY HalAssumption DEF NoTile, Tiles, On
<1>2. Min(S) \in S
  BY <1>1, Least
<1>3. QED BY <1>1, <1>2 DEF NextTile

LEMMA TypesStand ==
  ASSUME ViewTyped, UNCHANGED <<app, play, vpc, cap, disp, frame, dataQueue, pushed, shown>>
  PROVE  ViewTyped'
BY DEF ViewTyped

\* Neither the main thread nor a board comes or goes.
LEMMA CaptureStands ==
  ASSUME CaptureInv, UNCHANGED <<app, vpc, cap, chmask, wild>>,
         \A b \in Boards : cam[b] # "none" => cam'[b] # "none",
         \A b \in Boards : cam[b] # "destroyed" => cam'[b] # "destroyed"
  PROVE  CaptureInv'
BY DEF CaptureInv, Used, On

\* A channel of which nothing is taken, shown or pushed.
LEMMA ChannelStands ==
  ASSUME NEW b \in Boards, NEW c \in Chans, InOrder(b, c),
         dataQueue'[b][c] = dataQueue[b][c], pushed'[b][c] = pushed[b][c],
         shown'[b][c] = shown[b][c],
         MainHas(b, c)' <=> MainHas(b, c), DispHas(b, c)' <=> DispHas(b, c),
         MainHas(b, c) => mainframe' = mainframe, DispHas(b, c) => frame'[c] = frame[c]
  PROVE  InOrder(b, c)'
<1>1. Taken(b, c)' = Taken(b, c)
  BY DEF Taken
<1>2. QED BY <1>1 DEF InOrder

\* The main thread does not come to show a frame, or goes on showing it.
LEMMA DisplayStands ==
  ASSUME DisplayInv,
         UNCHANGED <<chmask, play, mainframe, disp, frame, dataQueue, pushed, shown>>,
         \/ vpc' = vpc
         \/ vpc \notin {"singleshow", "multishow"} /\ vpc' \notin {"singleshow", "multishow"},
         vpc' = "single" => play = "single", vpc' = "multi" => play = "multi"
  PROVE  DisplayInv'
<1>1. First' = First /\ FirstChan' = FirstChan /\ NextTile' = NextTile /\ NoTile' = NoTile
  BY DEF First, FirstChan, NextTile, NoTile, Used, Tiles, On
<1>a. Tiles' = Tiles
  BY DEF Tiles, On
<1>2. ASSUME NEW b \in Boards, NEW c \in Chans PROVE InOrder(b, c)'
  <2>1. (MainHas(b, c)' <=> MainHas(b, c)) /\ (DispHas(b, c)' <=> DispHas(b, c))
    BY <1>1 DEF MainHas, DispHas
  <2>2. QED BY <2>1, ChannelStands DEF DisplayInv
<1>3. QED BY <1>1, <1>a, <1>2 DEF DisplayInv

\* Nothing but the main thread's place changes, or a flag.
Quietly == UNCHANGED <<halVars, app, play, mainframe, cap, disp, frame, dataQueue, pushed, shown>>

\* The main thread goes on, and nothing with it.
LEMMA MainMoves ==
  ASSUME ViewInv, app = "view", Quietly, vpc \notin Dead,
         vpc' \in {"display", "wait", "single", "multi", "window", "closed", "kill", "joindisp",
                  "joincap", "stop"} \cup Dead,
         vpc \notin {"singleshow", "multishow"},
         vpc' = "single" => play = "single", vpc' = "multi" => play = "multi",
         vpc = "init" => vpc' \in Dead \/ \A b \in Used : cam[b] # "none",
         vpc' = "stop" => \A b \in Used : cap[b] = "gone",
         vpc = "stop" => vpc' \in Dead
  PROVE  ViewInv'
<1>1. UNCHANGED <<chmask, calling, cam, data_mode, th, wild, app, play, cap>> /\ Used' = Used
  BY DEF Quietly, halVars, boardVars, thVars, Used, On
<1>2. LibraryInv'
  <2>1. HalTypeOK'
    BY DEF Quietly, halVars, boardVars, thVars, driverVars, ViewInv, LibraryInv, HalTypeOK
  <2>2. QED BY <1>1, <2>1, LibraryStands DEF ViewInv
<1>3. ViewTyped'
  BY DEF Quietly, ViewInv, ViewTyped
<1>4. CaptureInv'
  BY <1>1 DEF ViewInv, CaptureInv, Dead
<1>5. DisplayInv'
  <2>1. vpc' \notin {"singleshow", "multishow"}
    BY DEF Dead
  <2>2. QED BY <1>1, <2>1, DisplayStands DEF Quietly, ViewInv
<1>6. QED BY <1>2, <1>3, <1>4, <1>5 DEF ViewInv

LEMMA MovesOn ==
  ASSUME ViewInv,
         \/ InitFails \/ DisplayDone \/ MultiReady \/ WindowClosed \/ MainExit \/ Kill
         \/ JoinDisplays \/ Wait \/ JoinCaptures \/ Exit \/ Crash
         \/ ({b \in Used : cam[b] = "none"} = {} /\ Goto("init", "display")
             /\ MainOnly /\ UNCHANGED <<halVars, mainframe>>)
  PROVE  ViewInv'
<1>1. app = "view" /\ Quietly
  <2>1. app = "view" /\ UNCHANGED <<halVars, mainframe>>
    BY DEF InitFails, DisplayDone, MultiReady, WindowClosed, MainExit, Kill, JoinDisplays, Wait,
       JoinCaptures, Exit, Crash, Goto
  <2>2. UNCHANGED <<choiceVars, capVars, dispVars, queueVars>>
    BY DEF InitFails, DisplayDone, MultiReady, WindowClosed, MainExit, Kill, JoinDisplays, Wait,
       JoinCaptures, Exit, Crash, MainOnly
  <2>3. QED BY <2>1, <2>2 DEF Quietly, choiceVars, capVars, dispVars, queueVars
<1>2. CASE InitFails
  BY <1>1, <1>2, MainMoves DEF InitFails, Goto, Dead
<1>3. CASE DisplayDone
  <2>1. vpc = "display" /\ vpc' = (CASE play = "none" -> "wait" [] play = "single" -> "single"
                                     [] play = "multi" -> "multi")
    BY <1>3 DEF DisplayDone, Goto
  <2>2. play \in {"none", "single", "multi"}
    BY DEF ViewInv, ViewTyped
  <2>3. /\ vpc' \in {"wait", "single", "multi"}
        /\ (vpc' = "single" => play = "single") /\ (vpc' = "multi" => play = "multi")
    BY <2>1, <2>2
  <2>4. QED BY <1>1, <2>1, <2>3, MainMoves DEF Dead
<1>4. CASE MultiReady \/ WindowClosed \/ MainExit \/ JoinDisplays \/ Wait
  <2>1. /\ vpc \in {"multi", "window", "closed", "joindisp", "wait"}
        /\ vpc' \in {"window", "closed", "kill", "wait", "joincap"}
    BY <1>4 DEF MultiReady, WindowClosed, MainExit, JoinDisplays, Wait, Goto
  <2>2. QED BY <1>1, <2>1, MainMoves DEF Dead
<1>5. CASE Kill
  <2>1. vpc = "kill" /\ vpc' \in {"killed", "joindisp"}
    BY <1>5 DEF Kill, Goto
  <2>2. QED BY <1>1, <2>1, MainMoves DEF Dead
<1>6. CASE JoinCaptures
  <2>1. vpc = "joincap" /\ vpc' = "stop" /\ \A b \in Used : cap[b] = "gone"
    BY <1>6 DEF JoinCaptures, Goto
  <2>2. QED BY <1>1, <2>1, MainMoves DEF Dead
<1>7. CASE Exit \/ Crash
  BY <1>1, <1>7, MainMoves DEF Exit, Crash, Goto, Dead
<1>8. CASE {b \in Used : cam[b] = "none"} = {} /\ Goto("init", "display")
  BY <1>1, <1>8, MainMoves DEF Goto, Dead
<1>9. QED BY <1>2, <1>3, <1>4, <1>5, <1>6, <1>7, <1>8

\* A call of the viewer on the library: cameras change, the rest stays.
LEMMA ViewerCalls ==
  ASSUME ViewInv, LibraryInv', MainOnly, UNCHANGED <<chmask, wild, mainframe>>,
         app = "view", vpc \in {"init", "start", "stop"},
         vpc' = (IF vpc = "start" THEN "display" ELSE vpc),
         \A b \in Boards : cam[b] # "none" => cam'[b] # "none",
         vpc = "stop" \/ \A b \in Boards : cam[b] # "destroyed" => cam'[b] # "destroyed"
  PROVE  ViewInv'
<1>1. UNCHANGED <<app, play, mainframe, cap, disp, frame, dataQueue, pushed, shown>> /\ Used' = Used
  BY DEF MainOnly, choiceVars, capVars, dispVars, queueVars, Used, On
<1>2. ViewTyped'
  BY <1>1 DEF ViewInv, ViewTyped
<1>3. CaptureInv'
  <2>1. vpc' \in {"init", "display", "stop"} /\ vpc \notin Dead /\ vpc' \notin Dead
        /\ (vpc = "init" <=> vpc' = "init") /\ (vpc = "stop" <=> vpc' = "stop")
    BY DEF Dead
  <2>2. ASSUME vpc' \notin {"init"} \cup Dead PROVE \A b \in Used : cam'[b] # "none"
    BY <2>1, <2>2 DEF ViewInv, CaptureInv, Used
  <2>3. ASSUME vpc' \notin {"stop"} \cup Dead PROVE \A b \in Boards : cam'[b] # "destroyed"
    BY <2>1, <2>3 DEF ViewInv, CaptureInv
  <2>4. QED BY <1>1, <2>1, <2>2, <2>3 DEF ViewInv, CaptureInv
<1>4. DisplayInv'
  BY <1>1, DisplayStands DEF ViewInv
<1>5. QED BY <1>2, <1>3, <1>4 DEF ViewInv

LEMMA CallsKeep ==
  ASSUME ViewInv,
         \/ ({b \in Used : cam[b] = "none"} # {} /\ Goto("init", "init")
             /\ InitBoard(Min({b \in Used : cam[b] = "none"})) /\ MainOnly /\ UNCHANGED mainframe)
         \/ DisplayStart \/ DeinitStop \/ DeinitDestroy
  PROVE  ViewInv'
<1>1. CASE {b \in Used : cam[b] = "none"} # {} /\ Goto("init", "init")
             /\ InitBoard(Min({b \in Used : cam[b] = "none"})) /\ MainOnly /\ UNCHANGED mainframe
  <2> DEFINE d == Min({b \in Used : cam[b] = "none"})
  <2>1. d \in Boards
    BY <1>1, LeastBoard DEF Used
  <2> HIDE DEF d
  <2>2. InitBoard(d) /\ LibraryInv'
    BY <1>1, <2>1, InitBoardLibrary DEF ViewInv, d
  <2>3. /\ UNCHANGED <<chmask, wild>>
        /\ \A b \in Boards : cam[b] # "none" => cam'[b] # "none"
        /\ \A b \in Boards : cam[b] # "destroyed" => cam'[b] # "destroyed"
    BY <2>1, <2>2 DEF InitBoard, ViewInv, LibraryInv, HalTypeOK
  <2>4. QED BY <1>1, <2>2, <2>3, ViewerCalls DEF Goto
<1>2. CASE DisplayStart
  <2> DEFINE d == Max({b \in Used : cap[b] # "none"})
  <2>1. Start(d, 1) /\ vpc = "start" /\ vpc' = "display" /\ app = "view"
    BY <1>2 DEF DisplayStart, Goto
  <2>2. d \in Boards
    <3>1. {b \in Used : cap[b] # "none"} # {}
      BY <2>1 DEF ViewInv, CaptureInv
    <3>2. QED BY <3>1, LeastBoard DEF Used
  <2> HIDE DEF d
  <2>3. LibraryInv'
    BY <2>1, <2>2, StartLibrary DEF ViewInv
  <2>4. UNCHANGED <<chmask, wild, cam>>
    BY <2>1 DEF Start
  <2>5. QED BY <1>2, <2>1, <2>3, <2>4, ViewerCalls DEF DisplayStart
<1>3. CASE DeinitStop
  <2> DEFINE d == Min({b \in Used : cam[b] # "destroyed"})
  <2>1. /\ Stop(d) /\ vpc = "stop" /\ vpc' = "stop" /\ app = "view"
        /\ {b \in Used : cam[b] # "destroyed"} # {}
    BY <1>3 DEF DeinitStop, Goto
  <2>2. d \in Boards
    BY <2>1, LeastBoard DEF Used
  <2> HIDE DEF d
  <2>3. LibraryInv'
    BY <2>1, <2>2, StopLibrary DEF ViewInv
  <2>4. UNCHANGED <<chmask, wild, cam>>
    BY <2>1 DEF Stop, boardVars
  <2>5. QED BY <1>3, <2>1, <2>3, <2>4, ViewerCalls DEF DeinitStop
<1>4. CASE DeinitDestroy
  <2> DEFINE d == Min({b \in Used : cam[b] # "destroyed"})
  <2>1. /\ Destroy(d) /\ vpc = "stop" /\ vpc' = "stop" /\ app = "view"
        /\ {b \in Used : cam[b] # "destroyed"} # {}
    BY <1>4 DEF DeinitDestroy, Goto
  <2>2. d \in Boards
    BY <2>1, LeastBoard DEF Used
  <2> HIDE DEF d
  <2>3. LibraryInv'
    BY <2>1, <2>2, DestroyLibrary DEF ViewInv
  <2>4. UNCHANGED <<chmask, wild>> /\ \A b \in Boards : cam[b] # "none" => cam'[b] # "none"
    BY <2>1, <2>2 DEF Destroy, ViewInv, LibraryInv, HalTypeOK
  <2>5. QED BY <1>4, <2>1, <2>3, <2>4, ViewerCalls DEF DeinitDestroy
<1>5. QED BY <1>1, <1>2, <1>3, <1>4

\* The capture thread of a board comes to be.
LEMMA DisplayThreadKeeps ==
  ASSUME ViewInv, DisplayThread PROVE ViewInv'
<1> DEFINE d == Min({b \in Used : cap[b] = "none"})
<1>1. /\ {b \in Used : cap[b] = "none"} # {} /\ app = "view" /\ vpc = "display" /\ vpc' = "start"
      /\ cap' = [cap EXCEPT ![d] = "test"]
      /\ UNCHANGED <<halVars, choiceVars, mainframe, dispVars, queueVars>>
  BY DEF DisplayThread, Goto
<1>2. d \in Used /\ d \in Boards
  BY <1>1, LeastBoard DEF Used
<1> HIDE DEF d
<1>3. LibraryInv'
  BY <1>1, LibraryStands DEF halVars, boardVars, thVars, driverVars, ViewInv, LibraryInv, HalTypeOK
<1>4. ViewTyped'
  BY <1>1 DEF choiceVars, dispVars, queueVars, ViewInv, ViewTyped
<1>5. CaptureInv'
  <2>1. Used' = Used /\ UNCHANGED <<cam, wild, app>>
    BY <1>1 DEF halVars, boardVars, choiceVars, Used, On
  <2>2. cap'[d] = "test" /\ \A b \in Boards : b # d => cap'[b] = cap[b]
    BY <1>1, <1>2 DEF ViewInv, ViewTyped
  <2>3. QED BY <1>1, <1>2, <2>1, <2>2 DEF ViewInv, CaptureInv, Dead
<1>6. DisplayInv'
  BY <1>1, DisplayStands DEF halVars, choiceVars, dispVars, queueVars, ViewInv
<1>7. QED BY <1>3, <1>4, <1>5, <1>6 DEF ViewInv
-----------------------------------------------------------------------------
\* Frames.

LEMMA HeadLeaves ==
  ASSUME NEW q \in Seq(Nat), NEW p \in Nat, q # <<>>,
         \A i \in 1 .. Len(q) : q[i] = (p - Len(q)) + i
  PROVE  /\ Tail(q) \in Seq(Nat) /\ Head(q) \in Nat /\ Head(q) = p - Len(Tail(q))
         /\ p - Len(q) = (p - Len(Tail(q))) - 1
         /\ \A i \in 1 .. Len(Tail(q)) : Tail(q)[i] = (p - Len(Tail(q))) + i
<1> DEFINE t == Tail(q)
<1>1. /\ t \in Seq(Nat) /\ Head(q) = q[1] /\ Len(q) \in Nat /\ Len(q) # 0
      /\ Len(t) = Len(q) - 1 /\ \A i \in 1 .. Len(t) : t[i] = q[i + 1]
  OBVIOUS
<1>2. Head(q) \in Nat
  OBVIOUS
<1> HIDE DEF t
<1>3. Head(q) = p - Len(t) /\ p - Len(q) = (p - Len(t)) - 1
  BY <1>1
<1>4. ASSUME NEW i \in 1 .. Len(t) PROVE t[i] = (p - Len(t)) + i
  <2>1. t[i] = q[i + 1] /\ i + 1 \in 1 .. Len(q)
    BY <1>1
  <2>2. q[i + 1] = (p - Len(q)) + (i + 1)
    BY <2>1
  <2>3. QED BY <1>1, <2>1, <2>2
<1>5. QED BY <1>1, <1>2, <1>3, <1>4 DEF t

LEMMA FrameFollows ==
  ASSUME NEW q \in Seq(Nat), NEW p \in Nat,
         \A i \in 1 .. Len(q) : q[i] = (p - Len(q)) + i
  PROVE  /\ Append(q, p + 1) \in Seq(Nat)
         /\ (p + 1) - Len(Append(q, p + 1)) = p - Len(q)
         /\ \A i \in 1 .. Len(Append(q, p + 1)) :
               Append(q, p + 1)[i] = ((p + 1) - Len(Append(q, p + 1))) + i
<1> DEFINE a == Append(q, p + 1)
<1>1. /\ a \in Seq(Nat) /\ Len(q) \in Nat /\ Len(a) = Len(q) + 1
      /\ \A i \in 1 .. Len(q) : a[i] = q[i]
      /\ a[Len(q) + 1] = p + 1
  OBVIOUS
<1> HIDE DEF a
<1>2. (p + 1) - Len(a) = p - Len(q)
  BY <1>1
<1>3. ASSUME NEW i \in 1 .. Len(a) PROVE a[i] = ((p + 1) - Len(a)) + i
  <2>1. CASE i \in 1 .. Len(q)
    <3>1. a[i] = (p - Len(q)) + i
      BY <1>1, <2>1
    <3>2. QED BY <1>2, <3>1
  <2>2. CASE i = Len(q) + 1
    BY <1>1, <2>2
  <2>3. QED BY <1>1, <2>1, <2>2
<1>4. QED BY <1>1, <1>2, <1>3 DEF a

\* A frame leaves the queue of a channel of which nobody has one.
LEMMA Pops ==
  ASSUME ViewTyped, NEW x \in Boards, NEW y \in Chans, Pop(x, y), InOrder(x, y),
         ~MainHas(x, y), ~DispHas(x, y), UNCHANGED <<pushed, shown>>
  PROVE  /\ dataQueue' \in [Boards -> [Chans -> Seq(Nat)]]
         /\ Head(dataQueue[x][y]) \in Nat /\ Taken(x, y)' = Head(dataQueue[x][y])
         /\ shown'[x][y] = Taken(x, y)' - 1
         /\ \A i \in 1 .. Len(dataQueue'[x][y]) : dataQueue'[x][y][i] = Taken(x, y)' + i
         /\ \A b \in Boards, c \in Chans : b # x \/ c # y => dataQueue'[b][c] = dataQueue[b][c]
<1> DEFINE q == dataQueue[x][y]
           p == pushed[x][y]
<1>1. q \in Seq(Nat) /\ p \in Nat /\ q # <<>> /\ dataQueue' = [dataQueue EXCEPT ![x][y] = Tail(q)]
  BY DEF ViewTyped, Pop
<1>2. (\A i \in 1 .. Len(q) : q[i] = (p - Len(q)) + i) /\ shown[x][y] = p - Len(q)
  BY DEF InOrder, Taken, ViewTyped
<1>3. /\ Tail(q) \in Seq(Nat) /\ Head(q) \in Nat /\ Head(q) = p - Len(Tail(q))
      /\ p - Len(q) = (p - Len(Tail(q))) - 1
      /\ \A i \in 1 .. Len(Tail(q)) : Tail(q)[i] = (p - Len(Tail(q))) + i
  BY <1>1, <1>2, HeadLeaves
<1>4. /\ dataQueue' \in [Boards -> [Chans -> Seq(Nat)]]
      /\ dataQueue'[x][y] = Tail(q)
      /\ \A b \in Boards, c \in Chans : b # x \/ c # y => dataQueue'[b][c] = dataQueue[b][c]
  BY <1>1, <1>3 DEF ViewTyped
<1>5. Taken(x, y)' = p - Len(Tail(q))
  BY <1>4 DEF Taken
<1>6. QED BY <1>2, <1>3, <1>4, <1>5

\* A frame that somebody has is shown: one more.
LEMMA Shows ==
  ASSUME ViewTyped, NEW x \in Boards, NEW y \in Chans, InOrder(x, y),
         MainHas(x, y) \/ DispHas(x, y), UNCHANGED <<dataQueue, pushed>>,
         shown' = [shown EXCEPT ![x][y] = IF MainHas(x, y) THEN mainframe ELSE frame[y]],
         ~MainHas(x, y)', ~DispHas(x, y)'
  PROVE  /\ shown' \in [Boards -> [Chans -> Nat]] /\ shown'[x][y] = shown[x][y] + 1
         /\ InOrder(x, y)'
         /\ \A b \in Boards, c \in Chans : b # x \/ c # y => shown'[b][c] = shown[b][c]
<1>1. /\ (IF MainHas(x, y) THEN mainframe ELSE frame[y]) = Taken(x, y)
      /\ shown[x][y] = Taken(x, y) - 1
  BY DEF InOrder
<1>2. Taken(x, y) \in Int /\ shown[x][y] \in Nat
  BY DEF Taken, ViewTyped
<1>3. shown' = [shown EXCEPT ![x][y] = shown[x][y] + 1]
  <2>1. Taken(x, y) = shown[x][y] + 1
    BY <1>1, <1>2
  <2>2. shown' = [shown EXCEPT ![x][y] = Taken(x, y)]
    BY <1>1, Zenon
  <2>3. QED BY <2>1, <2>2
<1>4. /\ shown' \in [Boards -> [Chans -> Nat]] /\ shown'[x][y] = shown[x][y] + 1
      /\ \A b \in Boards, c \in Chans : b # x \/ c # y => shown'[b][c] = shown[b][c]
  BY <1>2, <1>3 DEF ViewTyped
<1>5. Taken(x, y)' = Taken(x, y)
  BY DEF Taken
<1>6. InOrder(x, y)'
  BY <1>1, <1>2, <1>4, <1>5 DEF InOrder
<1>7. QED BY <1>4, <1>6

\* The library and the capture threads, when only frames move.
LEMMA FramesMove ==
  ASSUME ViewInv, UNCHANGED <<halVars, app, play, cap, chan>>, vpc \notin Dead,
         \/ vpc' = vpc
         \/ /\ vpc \in {"single", "singleshow", "multi", "multishow"}
            /\ vpc' \in {"single", "singleshow", "multi", "multishow", "wait"}
  PROVE  LibraryInv' /\ CaptureInv' /\ vpc' \notin Dead
<1>1. LibraryInv'
  BY LibraryStands DEF halVars, boardVars, thVars, driverVars, ViewInv, LibraryInv, HalTypeOK
<1>2. UNCHANGED <<app, cap, cam, wild, chmask>> /\ Used' = Used
  BY DEF halVars, boardVars, Used, On
<1>3. CASE vpc' = vpc
  BY <1>1, <1>2, <1>3, CaptureStands DEF ViewInv
<1>4. CASE /\ vpc \in {"single", "singleshow", "multi", "multishow"}
           /\ vpc' \in {"single", "singleshow", "multi", "multishow", "wait"}
  BY <1>1, <1>2, <1>4 DEF ViewInv, CaptureInv, Dead
<1>5. QED BY <1>1, <1>3, <1>4

LEMMA Same ==
  ASSUME UNCHANGED <<chmask, disp>>
  PROVE  First' = First /\ FirstChan' = FirstChan /\ NextTile' = NextTile /\ NoTile' = NoTile
         /\ Tiles' = Tiles
BY DEF First, FirstChan, NextTile, NoTile, Used, Tiles, On

LEMMA SinglePopKeeps ==
  ASSUME ViewInv, SinglePop PROVE ViewInv'
<1>0. /\ app = "view" /\ vpc = "single" /\ vpc' = "singleshow" /\ Pop(First, FirstChan)
      /\ mainframe' = Head(dataQueue[First][FirstChan])
      /\ UNCHANGED <<halVars, app, play, cap, chan, disp, frame, pushed, shown>>
  BY DEF SinglePop, Goto, choiceVars, capVars, dispVars
<1>1. LibraryInv' /\ CaptureInv'
  BY <1>0, FramesMove DEF Dead
<1>2. /\ play = "single" /\ \A c \in Chans : disp[c] = "none"
      /\ First' = First /\ FirstChan' = FirstChan /\ NoTile' = NoTile /\ Tiles' = Tiles
  BY <1>0, Same DEF ViewInv, DisplayInv, ViewTyped, halVars
<1>3. \A b, c : ~MainHas(b, c) /\ (MainHas(b, c)' <=> b = First /\ c = FirstChan)
  BY <1>0, <1>2 DEF MainHas
<1>4. \A b \in Boards, c \in Chans : ~DispHas(b, c) /\ ~DispHas(b, c)'
  BY <1>0, <1>2 DEF DispHas
<1>5. CASE First \in Boards /\ FirstChan \in Chans
  <2>a. PICK x \in Boards, y \in Chans : x = First /\ y = FirstChan
    BY <1>5
  <2>1. /\ dataQueue' \in [Boards -> [Chans -> Seq(Nat)]]
        /\ Taken(x, y)' = mainframe' /\ shown'[x][y] = Taken(x, y)' - 1
        /\ \A i \in 1 .. Len(dataQueue'[x][y]) : dataQueue'[x][y][i] = Taken(x, y)' + i
        /\ \A b \in Boards, c \in Chans : b # x \/ c # y => dataQueue'[b][c] = dataQueue[b][c]
    BY <1>0, <1>3, <1>4, <2>a, Pops DEF ViewInv, DisplayInv
  <2>2. ASSUME NEW b \in Boards, NEW c \in Chans PROVE InOrder(b, c)'
    <3>1. CASE b = x /\ c = y
      BY <1>2, <1>3, <1>4, <2>a, <2>1, <3>1 DEF InOrder
    <3>2. CASE b # x \/ c # y
      <4>1. ~MainHas(b, c) /\ ~MainHas(b, c)' /\ ~DispHas(b, c) /\ ~DispHas(b, c)'
        BY <1>2, <1>3, <1>4, <2>a, <3>2
      <4>2. QED BY <1>0, <2>1, <3>2, <4>1, ChannelStands DEF ViewInv, DisplayInv
    <3>3. QED BY <3>1, <3>2
  <2>3. QED BY <1>0, <1>1, <1>2, <2>1, <2>2 DEF ViewInv, ViewTyped, DisplayInv
<1>6. CASE ~(First \in Boards /\ FirstChan \in Chans)
  <2>1. dataQueue' = dataQueue
    BY <1>0, <1>6 DEF Pop, ViewInv, ViewTyped
  <2>2. ASSUME NEW b \in Boards, NEW c \in Chans PROVE InOrder(b, c)'
    <3>1. ~MainHas(b, c) /\ ~MainHas(b, c)' /\ ~DispHas(b, c) /\ ~DispHas(b, c)'
      BY <1>3, <1>4, <1>6
    <3>2. QED BY <1>0, <2>1, <3>1, ChannelStands DEF ViewInv, DisplayInv
  <2>3. QED BY <1>0, <1>1, <1>2, <2>1, <2>2 DEF ViewInv, ViewTyped, DisplayInv
<1>7. QED BY <1>5, <1>6

\* What SingleShow and the others that show a frame do to the channels.
ShownNext ==
    \A b \in Boards, c \in Chans : shown[b][c]' # shown[b][c] => shown[b][c]' = shown[b][c] + 1

LEMMA SingleShowKeeps ==
  ASSUME ViewInv, SingleShow PROVE ViewInv' /\ ShownNext
<1>0. /\ app = "view" /\ vpc = "singleshow" /\ vpc' \in {"single", "wait"}
      /\ shown' = [shown EXCEPT ![First][FirstChan] = mainframe]
      /\ UNCHANGED <<halVars, app, play, cap, chan, mainframe, disp, frame, dataQueue, pushed>>
  BY DEF SingleShow, Goto, choiceVars, capVars, dispVars
<1>1. LibraryInv' /\ CaptureInv' /\ vpc' \notin Dead
  BY <1>0, FramesMove DEF Dead
<1>2. /\ play = "single" /\ \A c \in Chans : disp[c] = "none"
      /\ NoTile' = NoTile /\ Tiles' = Tiles
  BY <1>0, Same DEF ViewInv, DisplayInv, ViewTyped, halVars
<1>3. \A b, c : ~MainHas(b, c)' /\ (MainHas(b, c) <=> b = First /\ c = FirstChan)
  BY <1>0 DEF MainHas
<1>4. \A b \in Boards, c \in Chans : ~DispHas(b, c) /\ ~DispHas(b, c)'
  BY <1>0, <1>2 DEF DispHas
<1>5. CASE First \in Boards /\ FirstChan \in Chans
  <2>a. PICK x \in Boards, y \in Chans : x = First /\ y = FirstChan
    BY <1>5
  <2>0. shown' = [shown EXCEPT ![x][y] = IF MainHas(x, y) THEN mainframe ELSE frame[y]]
    BY <1>0, <1>3, <2>a
  <2>1. /\ shown' \in [Boards -> [Chans -> Nat]] /\ shown'[x][y] = shown[x][y] + 1
        /\ InOrder(x, y)'
        /\ \A b \in Boards, c \in Chans : b # x \/ c # y => shown'[b][c] = shown[b][c]
    <3>1. /\ ViewTyped /\ InOrder(x, y) /\ MainHas(x, y) /\ ~MainHas(x, y)' /\ ~DispHas(x, y)'
          /\ UNCHANGED <<dataQueue, pushed>>
      BY <1>0, <1>3, <1>4, <2>a DEF ViewInv, DisplayInv
    <3>2. QED BY <2>0, <3>1, Shows, Zenon
  <2>2. ASSUME NEW b \in Boards, NEW c \in Chans PROVE InOrder(b, c)'
    <3>1. CASE b = x /\ c = y
      BY <2>1, <3>1
    <3>2. CASE b # x \/ c # y
      <4>1. ~MainHas(b, c) /\ ~MainHas(b, c)' /\ ~DispHas(b, c) /\ ~DispHas(b, c)'
        BY <1>2, <1>3, <1>4, <2>a, <3>2
      <4>2. QED BY <1>0, <2>1, <3>2, <4>1, ChannelStands DEF ViewInv, DisplayInv
    <3>3. QED BY <3>1, <3>2
  <2>3. ShownNext
    BY <2>1 DEF ShownNext
  <2>4. ViewTyped'
    BY <1>0, <2>1 DEF ViewInv, ViewTyped
  <2>5. QED BY <1>0, <1>1, <1>2, <2>2, <2>3, <2>4 DEF ViewInv, DisplayInv
<1>6. CASE ~(First \in Boards /\ FirstChan \in Chans)
  <2>1. shown' = shown
    BY <1>0, <1>6 DEF ViewInv, ViewTyped
  <2>2. ASSUME NEW b \in Boards, NEW c \in Chans PROVE InOrder(b, c)'
    <3>1. ~MainHas(b, c) /\ ~MainHas(b, c)' /\ ~DispHas(b, c) /\ ~DispHas(b, c)'
      BY <1>3, <1>4, <1>6
    <3>2. QED BY <1>0, <2>1, <3>1, ChannelStands DEF ViewInv, DisplayInv
  <2>3. ViewTyped'
    BY <1>0, <2>1 DEF ViewInv, ViewTyped
  <2>4. QED BY <1>0, <1>1, <1>2, <2>1, <2>2, <2>3 DEF ViewInv, DisplayInv, ShownNext
<1>7. QED BY <1>5, <1>6

LEMMA MultiPopKeeps ==
  ASSUME ViewInv, MultiPop PROVE ViewInv'
<1>0. /\ ~NoTile /\ app = "view" /\ vpc = "multi" /\ vpc' = "multishow" /\ Pop(0, NextTile)
      /\ mainframe' = Head(dataQueue[0][NextTile])
      /\ UNCHANGED <<halVars, app, play, cap, chan, disp, frame, pushed, shown>>
  BY DEF MultiPop, Goto, Board0, choiceVars, capVars, dispVars
<1>1. LibraryInv' /\ CaptureInv' /\ vpc' \notin Dead
  BY <1>0, FramesMove DEF Dead
<1>2. /\ 0 \in Boards /\ NextTile' = NextTile /\ NoTile' = NoTile /\ Tiles' = Tiles
      /\ \A c \in Chans : DispHas(0, c)' <=> DispHas(0, c)
  BY <1>0, Same, LeastTile DEF halVars, DispHas
<1>3. PICK y \in Chans : y = NextTile /\ disp[y] = "none"
  BY <1>0, LeastTile
<1>4. \A b, c : ~MainHas(b, c) /\ (MainHas(b, c)' <=> b = 0 /\ c = y)
  BY <1>0, <1>2, <1>3 DEF MainHas
<1>5. ~DispHas(0, y) /\ ~DispHas(0, y)' /\ \A b, c : DispHas(b, c)' <=> DispHas(b, c)
  BY <1>0, <1>3 DEF DispHas
<1>6. /\ dataQueue' \in [Boards -> [Chans -> Seq(Nat)]]
      /\ Taken(0, y)' = mainframe' /\ shown'[0][y] = Taken(0, y)' - 1
      /\ \A i \in 1 .. Len(dataQueue'[0][y]) : dataQueue'[0][y][i] = Taken(0, y)' + i
      /\ \A b \in Boards, c \in Chans : b # 0 \/ c # y => dataQueue'[b][c] = dataQueue[b][c]
  BY <1>0, <1>2, <1>3, <1>4, <1>5, Pops DEF ViewInv, DisplayInv
<1>7. ASSUME NEW b \in Boards, NEW c \in Chans PROVE InOrder(b, c)'
  <2>1. CASE b = 0 /\ c = y
    BY <1>4, <1>5, <1>6, <2>1 DEF InOrder
  <2>2. CASE b # 0 \/ c # y
    <3>1. ~MainHas(b, c) /\ ~MainHas(b, c)'
      BY <1>4, <2>2
    <3>2. QED BY <1>0, <1>5, <1>6, <2>2, <3>1, ChannelStands DEF ViewInv, DisplayInv
  <2>3. QED BY <2>1, <2>2
<1>8. QED BY <1>0, <1>1, <1>2, <1>6, <1>7 DEF ViewInv, ViewTyped, DisplayInv

LEMMA MultiShowKeeps ==
  ASSUME ViewInv, MultiShow PROVE ViewInv' /\ ShownNext
<1>0. /\ app = "view" /\ vpc = "multishow" /\ vpc' = "multi"
      /\ shown' = [shown EXCEPT ![0][NextTile] = mainframe]
      /\ disp' = [disp EXCEPT ![NextTile] = "test"]
      /\ UNCHANGED <<halVars, app, play, cap, chan, mainframe, frame, dataQueue, pushed>>
  BY DEF MultiShow, Goto, choiceVars, capVars
<1>1. LibraryInv' /\ CaptureInv' /\ vpc' \notin Dead
  BY <1>0, FramesMove DEF Dead
<1>2. PICK y \in Chans : y = NextTile /\ y \in Tiles /\ disp[y] = "none" /\ 0 \in Boards
  BY <1>0, LeastTile DEF ViewInv, DisplayInv
<1>3. Tiles' = Tiles
  BY <1>0 DEF Tiles, On, halVars
<1>4. \A b, c : ~MainHas(b, c)' /\ (MainHas(b, c) <=> b = 0 /\ c = y)
  BY <1>0, <1>2 DEF MainHas
<1>5. /\ disp' \in [Chans -> {"none", "test", "wait", "show", "gone"}] /\ disp'[y] = "test"
      /\ \A c \in Chans : c # y => disp'[c] = disp[c]
  BY <1>0, <1>2 DEF ViewInv, ViewTyped
<1>6. ~DispHas(0, y)' /\ \A b \in Boards, c \in Chans : DispHas(b, c)' <=> DispHas(b, c)
  BY <1>2, <1>5 DEF DispHas
<1>7. play = "multi" /\ \A c \in Chans : disp'[c] # "none" => c \in Tiles'
  <2>1. \A c \in Chans : disp'[c] # "none" => c \in Tiles'
    BY <1>2, <1>3, <1>5 DEF ViewInv, DisplayInv
  <2>2. play = "multi"
    BY <1>0 DEF ViewInv, DisplayInv
  <2>3. QED BY <2>1, <2>2
<1>8. /\ shown' \in [Boards -> [Chans -> Nat]] /\ shown'[0][y] = shown[0][y] + 1
      /\ InOrder(0, y)'
      /\ \A b \in Boards, c \in Chans : b # 0 \/ c # y => shown'[b][c] = shown[b][c]
  <2>1. /\ ViewTyped /\ InOrder(0, y) /\ MainHas(0, y) /\ ~MainHas(0, y)' /\ ~DispHas(0, y)'
        /\ 0 \in Boards /\ UNCHANGED <<dataQueue, pushed>>
    BY <1>0, <1>2, <1>4, <1>6 DEF ViewInv, DisplayInv
  <2>2. shown' = [shown EXCEPT ![0][y] = IF MainHas(0, y) THEN mainframe ELSE frame[y]]
    BY <1>0, <1>2, <2>1
  <2>3. QED BY <2>1, <2>2, Shows, Zenon
<1>9. ASSUME NEW b \in Boards, NEW c \in Chans PROVE InOrder(b, c)'
  <2>1. CASE b = 0 /\ c = y
    BY <1>8, <2>1
  <2>2. CASE b # 0 \/ c # y
    <3>1. ~MainHas(b, c) /\ ~MainHas(b, c)'
      BY <1>4, <2>2
    <3>2. QED BY <1>0, <1>6, <1>8, <2>2, <3>1, ChannelStands DEF ViewInv, DisplayInv
  <2>3. QED BY <2>1, <2>2
<1>10. ShownNext
  BY <1>8 DEF ShownNext
<1>11. ViewTyped'
  BY <1>0, <1>5, <1>8 DEF ViewInv, ViewTyped
<1>12. DisplayInv'
  BY <1>0, <1>3, <1>7, <1>9 DEF DisplayInv
<1>13. QED BY <1>1, <1>10, <1>11, <1>12 DEF ViewInv

\* A display thread comes to be, for a channel without a frame.
LEMMA MultiEmptyKeeps ==
  ASSUME ViewInv, MultiEmpty PROVE ViewInv'
<1>0. /\ ~NoTile /\ app = "view" /\ vpc = "multi" /\ vpc' = "multi"
      /\ disp' = [disp EXCEPT ![NextTile] = "test"]
      /\ UNCHANGED <<halVars, app, play, cap, chan, mainframe, frame, dataQueue, pushed, shown>>
  BY DEF MultiEmpty, Goto, choiceVars, capVars, queueVars
<1>1. LibraryInv' /\ CaptureInv' /\ vpc' \notin Dead
  BY <1>0, FramesMove DEF Dead
<1>2. PICK y \in Chans : y = NextTile /\ y \in Tiles /\ disp[y] = "none"
  BY <1>0, LeastTile
<1>3. Tiles' = Tiles
  BY <1>0 DEF Tiles, On, halVars
<1>4. \A b, c : ~MainHas(b, c)' /\ ~MainHas(b, c)
  BY <1>0 DEF MainHas
<1>5. /\ disp' \in [Chans -> {"none", "test", "wait", "show", "gone"}] /\ disp'[y] = "test"
      /\ \A c \in Chans : c # y => disp'[c] = disp[c]
  BY <1>0, <1>2 DEF ViewInv, ViewTyped
<1>6. \A b \in Boards, c \in Chans : DispHas(b, c)' <=> DispHas(b, c)
  BY <1>2, <1>5 DEF DispHas
<1>7. ASSUME NEW b \in Boards, NEW c \in Chans PROVE InOrder(b, c)'
  BY <1>0, <1>4, <1>6, ChannelStands DEF ViewInv, DisplayInv
<1>8. play = "multi" /\ \A c \in Chans : disp'[c] # "none" => c \in Tiles'
  <2>1. \A c \in Chans : disp'[c] # "none" => c \in Tiles'
    BY <1>2, <1>3, <1>5 DEF ViewInv, DisplayInv
  <2>2. play = "multi"
    BY <1>0 DEF ViewInv, DisplayInv
  <2>3. QED BY <2>1, <2>2
<1>9. ViewTyped'
  BY <1>0, <1>5 DEF ViewInv, ViewTyped
<1>10. DisplayInv'
  BY <1>0, <1>3, <1>7, <1>8 DEF DisplayInv
<1>11. QED BY <1>1, <1>9, <1>10 DEF ViewInv

\* A display thread goes on.
LEMMA DispTestKeeps ==
  ASSUME ViewInv, NEW y \in Chans, DispTest(y) PROVE ViewInv'
<1>0. /\ vpc \notin Dead /\ disp[y] = "test"
      /\ disp' = [disp EXCEPT ![y] = IF shouldExit THEN "gone" ELSE "wait"]
      /\ UNCHANGED <<halVars, app, play, vpc, mainframe, cap, chan, frame, dataQueue, pushed, shown>>
  BY DEF DispTest, Display, DisplayOnly, choiceVars, mainVars, capVars
<1>1. LibraryInv' /\ CaptureInv'
  BY <1>0, FramesMove
<1>2. /\ disp' \in [Chans -> {"none", "test", "wait", "show", "gone"}] /\ disp'[y] \in {"gone", "wait"}
      /\ \A c \in Chans : c # y => disp'[c] = disp[c]
  BY <1>0 DEF ViewInv, ViewTyped
<1>3. \A c \in Chans : disp'[c] = "none" <=> disp[c] = "none"
  BY <1>0, <1>2
<1>4. First' = First /\ FirstChan' = FirstChan /\ Tiles' = Tiles /\ Tiles \subseteq Chans
  BY <1>0 DEF First, FirstChan, Used, Tiles, On, halVars, ViewInv, LibraryInv, HalTypeOK
<1>5. NextTile' = NextTile /\ (NoTile' <=> NoTile)
  <2>1. {c \in Tiles' : disp'[c] = "none"} = {c \in Tiles : disp[c] = "none"}
    BY <1>3, <1>4
  <2>2. QED BY <1>3, <1>4, <2>1 DEF NextTile, NoTile
<1>6. ASSUME NEW b \in Boards, NEW c \in Chans PROVE InOrder(b, c)'
  <2>1. (DispHas(b, c)' <=> DispHas(b, c)) /\ (MainHas(b, c)' <=> MainHas(b, c))
    BY <1>0, <1>2, <1>4, <1>5 DEF DispHas, MainHas
  <2>2. QED BY <1>0, <2>1, ChannelStands DEF ViewInv, DisplayInv
<1>7. ViewTyped'
  BY <1>0, <1>2 DEF ViewInv, ViewTyped
<1>8. DisplayInv'
  BY <1>0, <1>3, <1>4, <1>5, <1>6 DEF ViewInv, DisplayInv
<1>9. QED BY <1>1, <1>7, <1>8 DEF ViewInv

\* A display thread has a channel the main thread does not show.
LEMMA DisplayHasIt ==
  ASSUME ViewInv, NEW y \in Chans, disp[y] # "none"
  PROVE  0 \in Boards /\ ~MainHas(0, y) /\ \A k : ~MainHas(k, y) \/ k # 0
<1>1. play = "multi" /\ y \in Tiles /\ 0 \in Boards
  BY DEF ViewInv, DisplayInv, Tiles
<1>2. vpc # "singleshow"
  BY <1>1 DEF ViewInv, DisplayInv
<1>3. vpc = "multishow" => NextTile # y
  BY LeastTile DEF ViewInv, DisplayInv
<1>4. QED BY <1>1, <1>2, <1>3 DEF MainHas

LEMMA DispPopKeeps ==
  ASSUME ViewInv, NEW y \in Chans, DispPop(y) PROVE ViewInv'
<1>0. /\ vpc \notin Dead /\ disp[y] = "wait" /\ disp' = [disp EXCEPT ![y] = "show"]
      /\ Pop(0, y) /\ frame' = [frame EXCEPT ![y] = Head(dataQueue[0][y])]
      /\ UNCHANGED <<halVars, app, play, vpc, mainframe, cap, chan, pushed, shown>>
  BY DEF DispPop, Display, DisplayOnly, Board0, choiceVars, mainVars, capVars
<1>1. LibraryInv' /\ CaptureInv'
  BY <1>0, FramesMove
<1>2. /\ disp' \in [Chans -> {"none", "test", "wait", "show", "gone"}] /\ disp'[y] = "show"
      /\ \A c \in Chans : c # y => disp'[c] = disp[c]
  BY <1>0 DEF ViewInv, ViewTyped
<1>3. \A c \in Chans : disp'[c] = "none" <=> disp[c] = "none"
  BY <1>0, <1>2
<1>4. First' = First /\ FirstChan' = FirstChan /\ Tiles' = Tiles /\ Tiles \subseteq Chans
  BY <1>0 DEF First, FirstChan, Used, Tiles, On, halVars, ViewInv, LibraryInv, HalTypeOK
<1>5. NextTile' = NextTile /\ (NoTile' <=> NoTile)
  <2>1. {c \in Tiles' : disp'[c] = "none"} = {c \in Tiles : disp[c] = "none"}
    BY <1>3, <1>4
  <2>2. QED BY <1>3, <1>4, <2>1 DEF NextTile, NoTile
<1>6. \A b, c : MainHas(b, c)' <=> MainHas(b, c)
  BY <1>0, <1>4, <1>5 DEF MainHas
<1>7. 0 \in Boards /\ ~MainHas(0, y) /\ ~DispHas(0, y) /\ DispHas(0, y)'
  BY <1>0, <1>2, DisplayHasIt DEF DispHas
<1>8. /\ dataQueue' \in [Boards -> [Chans -> Seq(Nat)]]
      /\ Head(dataQueue[0][y]) \in Nat /\ Taken(0, y)' = Head(dataQueue[0][y])
      /\ shown'[0][y] = Taken(0, y)' - 1
      /\ \A i \in 1 .. Len(dataQueue'[0][y]) : dataQueue'[0][y][i] = Taken(0, y)' + i
      /\ \A b \in Boards, c \in Chans : b # 0 \/ c # y => dataQueue'[b][c] = dataQueue[b][c]
  BY <1>0, <1>7, Pops DEF ViewInv, DisplayInv
<1>9. /\ frame' \in [Chans -> Nat] /\ frame'[y] = Taken(0, y)'
      /\ \A c \in Chans : c # y => frame'[c] = frame[c]
  BY <1>0, <1>8 DEF ViewInv, ViewTyped
<1>10. ASSUME NEW b \in Boards, NEW c \in Chans PROVE InOrder(b, c)'
  <2>1. CASE b = 0 /\ c = y
    BY <1>6, <1>7, <1>8, <1>9, <2>1 DEF InOrder
  <2>2. CASE b # 0 \/ c # y
    <3>1. DispHas(b, c)' <=> DispHas(b, c)
      BY <1>2, <2>2 DEF DispHas
    <3>2. DispHas(b, c) => frame'[c] = frame[c]
      BY <1>9, <2>2 DEF DispHas
    <3>3. QED BY <1>0, <1>6, <1>8, <2>2, <3>1, <3>2, ChannelStands DEF ViewInv, DisplayInv
  <2>3. QED BY <2>1, <2>2
<1>11. ViewTyped'
  BY <1>0, <1>2, <1>8, <1>9 DEF ViewInv, ViewTyped
<1>12. DisplayInv'
  BY <1>0, <1>3, <1>4, <1>5, <1>10 DEF ViewInv, DisplayInv
<1>13. QED BY <1>1, <1>11, <1>12 DEF ViewInv

LEMMA DispShowKeeps ==
  ASSUME ViewInv, NEW y \in Chans, DispShow(y) PROVE ViewInv' /\ ShownNext
<1>0. /\ vpc \notin Dead /\ disp[y] = "show" /\ disp' = [disp EXCEPT ![y] = "test"]
      /\ shown' = [shown EXCEPT ![0][y] = frame[y]]
      /\ UNCHANGED <<halVars, app, play, vpc, mainframe, cap, chan, frame, dataQueue, pushed>>
  BY DEF DispShow, Display, DisplayOnly, choiceVars, mainVars, capVars
<1>1. LibraryInv' /\ CaptureInv'
  BY <1>0, FramesMove
<1>2. /\ disp' \in [Chans -> {"none", "test", "wait", "show", "gone"}] /\ disp'[y] = "test"
      /\ \A c \in Chans : c # y => disp'[c] = disp[c]
  BY <1>0 DEF ViewInv, ViewTyped
<1>3. \A c \in Chans : disp'[c] = "none" <=> disp[c] = "none"
  BY <1>0, <1>2
<1>4. First' = First /\ FirstChan' = FirstChan /\ Tiles' = Tiles /\ Tiles \subseteq Chans
  BY <1>0 DEF First, FirstChan, Used, Tiles, On, halVars, ViewInv, LibraryInv, HalTypeOK
<1>5. NextTile' = NextTile /\ (NoTile' <=> NoTile)
  <2>1. {c \in Tiles' : disp'[c] = "none"} = {c \in Tiles : disp[c] = "none"}
    BY <1>3, <1>4
  <2>2. QED BY <1>3, <1>4, <2>1 DEF NextTile, NoTile
<1>6. \A b, c : MainHas(b, c)' <=> MainHas(b, c)
  BY <1>0, <1>4, <1>5 DEF MainHas
<1>7. 0 \in Boards /\ ~MainHas(0, y) /\ DispHas(0, y) /\ ~DispHas(0, y)'
  BY <1>0, <1>2, DisplayHasIt DEF DispHas
<1>8. /\ shown' \in [Boards -> [Chans -> Nat]] /\ shown'[0][y] = shown[0][y] + 1
      /\ InOrder(0, y)'
      /\ \A b \in Boards, c \in Chans : b # 0 \/ c # y => shown'[b][c] = shown[b][c]
  <2>1. /\ ViewTyped /\ InOrder(0, y) /\ DispHas(0, y) /\ ~MainHas(0, y)' /\ ~DispHas(0, y)'
        /\ 0 \in Boards /\ UNCHANGED <<dataQueue, pushed>>
    BY <1>0, <1>6, <1>7 DEF ViewInv, DisplayInv
  <2>2. shown' = [shown EXCEPT ![0][y] = IF MainHas(0, y) THEN mainframe ELSE frame[y]]
    BY <1>0, <1>7
  <2>3. QED BY <2>1, <2>2, Shows, Zenon
<1>9. ASSUME NEW b \in Boards, NEW c \in Chans PROVE InOrder(b, c)'
  <2>1. CASE b = 0 /\ c = y
    BY <1>8, <2>1
  <2>2. CASE b # 0 \/ c # y
    <3>1. DispHas(b, c)' <=> DispHas(b, c)
      BY <1>2, <2>2 DEF DispHas
    <3>2. QED BY <1>0, <1>6, <1>8, <2>2, <3>1, ChannelStands DEF ViewInv, DisplayInv
  <2>3. QED BY <2>1, <2>2
<1>10. ShownNext
  BY <1>8 DEF ShownNext
<1>11. ViewTyped'
  BY <1>0, <1>2, <1>8 DEF ViewInv, ViewTyped
<1>12. DisplayInv'
  BY <1>0, <1>3, <1>4, <1>5, <1>9 DEF ViewInv, DisplayInv
<1>13. QED BY <1>1, <1>10, <1>11, <1>12 DEF ViewInv

\* A capture thread goes on; a frame of it comes to the end of a queue.
LEMMA CapPushKeeps ==
  ASSUME ViewInv, NEW x \in Boards, CapPush(x) PROVE ViewInv'
<1>0. /\ vpc \notin Dead /\ cap[x] = "push" /\ cap' = [cap EXCEPT ![x] = "test"]
      /\ UNCHANGED <<halVars, app, play, vpc, mainframe, disp, frame, chan, shown>>
  BY DEF CapPush, Capture, CaptureOnly, choiceVars, mainVars, dispVars, queueVars
<1>1. LibraryInv'
  BY <1>0, LibraryStands DEF halVars, boardVars, thVars, driverVars, ViewInv, LibraryInv, HalTypeOK
<1>2. /\ cap' \in [Boards -> {"none", "test", "poll", "push", "gone"}] /\ cap'[x] = "test"
      /\ \A b \in Boards : b # x => cap'[b] = cap[b]
  BY <1>0 DEF ViewInv, ViewTyped
<1>3. CaptureInv'
  <2>1. UNCHANGED <<app, vpc, cam, wild>> /\ Used' = Used
    BY <1>0 DEF halVars, boardVars, Used, On
  <2>2. QED BY <1>0, <1>2, <2>1 DEF ViewInv, CaptureInv
<1>4. /\ First' = First /\ FirstChan' = FirstChan /\ NextTile' = NextTile /\ NoTile' = NoTile
      /\ Tiles' = Tiles
  BY <1>0, Same DEF halVars
<1>5. \A b, c : (MainHas(b, c)' <=> MainHas(b, c)) /\ (DispHas(b, c)' <=> DispHas(b, c))
  BY <1>0, <1>4 DEF MainHas, DispHas
<1>6. \/ UNCHANGED <<dataQueue, pushed>>
      \/ /\ dataQueue' = [dataQueue EXCEPT ![x][chan[x]] = Append(@, pushed[x][chan[x]] + 1)]
         /\ pushed' = [pushed EXCEPT ![x][chan[x]] = pushed[x][chan[x]] + 1]
  BY DEF CapPush, queueVars
<1>7. CASE UNCHANGED <<dataQueue, pushed>> \/ chan[x] \notin Chans
  <2>1. UNCHANGED <<dataQueue, pushed>>
    BY <1>6, <1>7 DEF ViewInv, ViewTyped
  <2>2. ASSUME NEW b \in Boards, NEW c \in Chans PROVE InOrder(b, c)'
    BY <1>0, <1>5, <2>1, ChannelStands DEF ViewInv, DisplayInv
  <2>3. ViewTyped'
    BY <1>0, <1>2, <2>1 DEF ViewInv, ViewTyped
  <2>4. DisplayInv'
    BY <1>0, <1>4, <2>2 DEF ViewInv, DisplayInv
  <2>5. QED BY <1>1, <1>3, <2>3, <2>4 DEF ViewInv
<1>8. CASE /\ chan[x] \in Chans
           /\ dataQueue' = [dataQueue EXCEPT ![x][chan[x]] = Append(@, pushed[x][chan[x]] + 1)]
           /\ pushed' = [pushed EXCEPT ![x][chan[x]] = pushed[x][chan[x]] + 1]
  <2>1. PICK y \in Chans : y = chan[x]
    BY <1>8
  <2>2. dataQueue[x][y] \in Seq(Nat) /\ pushed[x][y] \in Nat
    BY DEF ViewInv, ViewTyped
  <2>3. /\ Append(dataQueue[x][y], pushed[x][y] + 1) \in Seq(Nat)
        /\ (pushed[x][y] + 1) - Len(Append(dataQueue[x][y], pushed[x][y] + 1))
              = pushed[x][y] - Len(dataQueue[x][y])
        /\ \A i \in 1 .. Len(Append(dataQueue[x][y], pushed[x][y] + 1)) :
              Append(dataQueue[x][y], pushed[x][y] + 1)[i]
                = ((pushed[x][y] + 1) - Len(Append(dataQueue[x][y], pushed[x][y] + 1))) + i
    BY <2>2, FrameFollows DEF ViewInv, DisplayInv, InOrder, Taken
  <2>4. /\ dataQueue' \in [Boards -> [Chans -> Seq(Nat)]]
        /\ pushed' \in [Boards -> [Chans -> Nat]]
        /\ dataQueue'[x][y] = Append(dataQueue[x][y], pushed[x][y] + 1)
        /\ pushed'[x][y] = pushed[x][y] + 1
        /\ \A b \in Boards, c \in Chans :
              b # x \/ c # y => dataQueue'[b][c] = dataQueue[b][c] /\ pushed'[b][c] = pushed[b][c]
    <3>1. /\ dataQueue' = [dataQueue EXCEPT ![x][y] = Append(dataQueue[x][y], pushed[x][y] + 1)]
          /\ pushed' = [pushed EXCEPT ![x][y] = pushed[x][y] + 1]
      BY <1>8, <2>1 DEF ViewInv, ViewTyped
    <3>2. pushed[x][y] + 1 \in Nat
      BY <2>2
    <3>3. /\ dataQueue' \in [Boards -> [Chans -> Seq(Nat)]]
          /\ dataQueue'[x][y] = Append(dataQueue[x][y], pushed[x][y] + 1)
          /\ \A b \in Boards, c \in Chans : b # x \/ c # y => dataQueue'[b][c] = dataQueue[b][c]
      BY <2>3, <3>1 DEF ViewInv, ViewTyped
    <3>4. /\ pushed' \in [Boards -> [Chans -> Nat]] /\ pushed'[x][y] = pushed[x][y] + 1
          /\ \A b \in Boards, c \in Chans : b # x \/ c # y => pushed'[b][c] = pushed[b][c]
      BY <3>1, <3>2 DEF ViewInv, ViewTyped
    <3>5. QED BY <3>3, <3>4
  <2>5. Taken(x, y)' = Taken(x, y)
    BY <2>3, <2>4 DEF Taken
  <2>6. ASSUME NEW b \in Boards, NEW c \in Chans PROVE InOrder(b, c)'
    <3>1. CASE b = x /\ c = y
      <4>1. \A i \in 1 .. Len(dataQueue'[x][y]) : dataQueue'[x][y][i] = Taken(x, y)' + i
        BY <2>3, <2>4 DEF Taken
      <4>2. QED BY <1>0, <1>5, <2>5, <3>1, <4>1 DEF ViewInv, DisplayInv, InOrder
    <3>2. CASE b # x \/ c # y
      BY <1>0, <1>5, <2>4, <3>2, ChannelStands DEF ViewInv, DisplayInv
    <3>3. QED BY <3>1, <3>2
  <2>7. ViewTyped'
    BY <1>0, <1>2, <2>4 DEF ViewInv, ViewTyped
  <2>8. DisplayInv'
    BY <1>0, <1>4, <2>6 DEF ViewInv, DisplayInv
  <2>9. QED BY <1>1, <1>3, <2>7, <2>8 DEF ViewInv
<1>9. QED BY <1>6, <1>7, <1>8

\* A capture thread tests its flag, or polls: the camera it polls is there.
LEMMA CapMovesKeeps ==
  ASSUME ViewInv, NEW x \in Boards, CapTest(x) \/ CapPoll(x) PROVE ViewInv'
<1>0. /\ vpc \notin Dead /\ cap[x] \in {"test", "poll"}
      /\ \E to \in {"test", "poll", "push", "gone"} : cap' = [cap EXCEPT ![x] = to]
      /\ UNCHANGED <<app, play, vpc, mainframe, disp, frame, dataQueue, pushed, shown>>
      /\ UNCHANGED <<chmask, calling, cam, data_mode, efds, running, th, info, produced>>
  BY DEF CapTest, CapPoll, Capture, CaptureOnly, choiceVars, mainVars, dispVars, queueVars,
     halVars, boardVars, thVars, driverVars
<1>1. wild' = wild
  <2>1. CASE CapTest(x)
    BY <2>1 DEF CapTest, halVars
  <2>2. CASE CapPoll(x)
    <3>1. cap[x] = "poll" /\ wild' = (wild \/ Gone(x))
      BY <2>2 DEF CapPoll, Capture
    <3>2. app = "view" /\ vpc # "init" /\ x \in Used /\ vpc # "stop"
      BY <3>1 DEF ViewInv, CaptureInv, ViewTyped
    <3>3. ~Gone(x)
      BY <1>0, <3>2 DEF ViewInv, CaptureInv, Gone
    <3>4. QED BY <3>1, <3>3 DEF ViewInv, LibraryInv, HalTypeOK
  <2>3. QED BY <2>1, <2>2
<1>2. ready' \in [Boards -> [Chans -> Nat]]
  <2>1. CASE UNCHANGED ready
    BY <2>1 DEF ViewInv, LibraryInv, HalTypeOK
  <2>2. CASE \E c \in On(x) : ready[x][c] > 0 /\ ready' = [ready EXCEPT ![x][c] = @ - 1]
    <3>1. PICK c \in On(x) : ready[x][c] > 0 /\ ready' = [ready EXCEPT ![x][c] = @ - 1]
      BY <2>2
    <3>2. c \in Chans /\ ready[x][c] \in Nat
      BY DEF On, ViewInv, LibraryInv, HalTypeOK
    <3>3. ready[x][c] - 1 \in Nat
      BY <3>1, <3>2
    <3>4. QED BY <3>1, <3>2, <3>3 DEF ViewInv, LibraryInv, HalTypeOK
  <2>3. CASE CapTest(x)
    BY <2>1, <2>3 DEF CapTest, halVars, driverVars
  <2>4. CASE CapPoll(x)
    BY <2>1, <2>2, <2>4 DEF CapPoll
  <2>5. QED BY <2>3, <2>4
<1>3. LibraryInv'
  <2>1. HalTypeOK'
    BY <1>0, <1>1, <1>2 DEF ViewInv, LibraryInv, HalTypeOK
  <2>2. QED BY <1>0, <2>1, LibraryStands DEF ViewInv
<1>4. /\ cap' \in [Boards -> {"none", "test", "poll", "push", "gone"}] /\ cap'[x] # "none"
      /\ \A b \in Boards : b # x => cap'[b] = cap[b]
  BY <1>0 DEF ViewInv, ViewTyped
<1>5. CaptureInv'
  <2>1. Used' = Used
    BY <1>0 DEF Used, On
  <2>2. x \in Used /\ vpc # "init" /\ vpc # "stop"
    BY <1>0 DEF ViewInv, CaptureInv
  <2>3. QED BY <1>0, <1>1, <1>4, <2>1, <2>2 DEF ViewInv, CaptureInv
<1>6. ViewTyped'
  BY <1>0, <1>4 DEF ViewInv, ViewTyped
<1>7. DisplayInv'
  BY <1>0, DisplayStands DEF ViewInv, DisplayInv
<1>8. QED BY <1>3, <1>5, <1>6, <1>7 DEF ViewInv

\* The library goes on, or the other application calls it.
LEMMA LibraryMoves ==
  ASSUME ViewInv, LibraryInv', UNCHANGED <<chmask, wild, viewVars>>,
         \A b \in Boards : cam[b] # "none" => cam'[b] # "none",
         app = "view" => \A b \in Boards : cam[b] # "destroyed" => cam'[b] # "destroyed"
  PROVE  ViewInv' /\ ShownNext
<1>1. UNCHANGED <<app, play, vpc, mainframe, cap, disp, frame, dataQueue, pushed, shown>>
  BY DEF viewVars, choiceVars, mainVars, capVars, dispVars, queueVars
<1>2. ViewTyped'
  BY <1>1, TypesStand DEF ViewInv
<1>3. CaptureInv'
  <2>1. Used' = Used
    BY DEF Used, On
  <2>2. app = "view" /\ vpc \notin {"init"} \cup Dead => \A b \in Used : cam'[b] # "none"
    BY DEF ViewInv, CaptureInv, Used
  <2>3. app = "view" /\ vpc \notin {"stop"} \cup Dead => \A b \in Boards : cam'[b] # "destroyed"
    BY DEF ViewInv, CaptureInv
  <2>4. QED BY <1>1, <2>1, <2>2, <2>3 DEF ViewInv, CaptureInv
<1>4. DisplayInv'
  BY <1>1, DisplayStands DEF ViewInv, DisplayInv
<1>5. QED BY <1>1, <1>2, <1>3, <1>4 DEF ViewInv, ShownNext

LEMMA LibraryKeeps ==
  ASSUME ViewInv,
         \/ Library
         \/ app = "callback" /\ CallbackUser /\ UNCHANGED viewVars
         \/ (\E b \in Boards, c \in Chans : CbThread(b, c) \/ FrameReady(b, c)) /\ UNCHANGED viewVars
  PROVE  ViewInv' /\ ShownNext
<1>1. CASE Library
  <2>1. Steps /\ UNCHANGED viewVars
    BY <1>1 DEF Library
  <2>2. /\ LibraryInv' /\ UNCHANGED <<chmask, wild>>
        /\ \A b \in Boards : cam[b] # "none" => cam'[b] # "none"
        /\ \A b \in Boards : cam[b] # "destroyed" => cam'[b] # "destroyed"
    BY <2>1, StepsLibrary DEF ViewInv
  <2>3. QED BY <2>1, <2>2, LibraryMoves
<1>2. CASE app = "callback" /\ CallbackUser /\ UNCHANGED viewVars
  <2>1. PICK b \in Boards : InitBoard(b) \/ Start(b, 2) \/ Stop(b) \/ Destroy(b)
    BY <1>2 DEF CallbackUser
  <2>2. LibraryInv'
    BY <2>1, InitBoardLibrary, StartLibrary, StopLibrary, DestroyLibrary DEF ViewInv
  <2>3. UNCHANGED <<chmask, wild>> /\ \A d \in Boards : cam[d] # "none" => cam'[d] # "none"
    BY <2>1 DEF InitBoard, Start, Stop, Destroy, boardVars, ViewInv, LibraryInv, HalTypeOK
  <2>4. QED BY <1>2, <2>2, <2>3, LibraryMoves
<1>3. ASSUME NEW b \in Boards, NEW c \in Chans, CbThread(b, c) \/ FrameReady(b, c), UNCHANGED viewVars
      PROVE  ViewInv' /\ ShownNext
  <2>1. LibraryInv' /\ UNCHANGED <<chmask, cam, wild>>
    BY <1>3, ThreadLibrary, FrameReadyLibrary DEF ViewInv
  <2>2. QED BY <1>3, <2>1, LibraryMoves
<1>4. QED BY <1>1, <1>2, <1>3

\* Ctrl-C, or nothing.
LEMMA NothingMoves ==
  ASSUME ViewInv, CtrlC \/ UNCHANGED vars PROVE ViewInv'
<1>1. /\ UNCHANGED <<app, play, vpc, mainframe, cap, disp, frame, dataQueue, pushed, shown>>
      /\ UNCHANGED halVars
  BY DEF CtrlC, vars, viewVars, choiceVars, mainVars, capVars, dispVars, queueVars
<1>2. LibraryInv'
  BY <1>1, LibraryStands DEF halVars, boardVars, thVars, driverVars, ViewInv, LibraryInv, HalTypeOK
<1>3. ViewTyped'
  BY <1>1, TypesStand DEF ViewInv
<1>4. CaptureInv'
  BY <1>1, CaptureStands DEF halVars, boardVars, ViewInv
<1>5. DisplayInv'
  BY <1>1, DisplayStands DEF halVars, ViewInv, DisplayInv
<1>6. QED BY <1>2, <1>3, <1>4, <1>5 DEF ViewInv

\* A step that shows nothing.
LEMMA ShowsNothing ==
  ASSUME UNCHANGED shown PROVE ShownNext
BY DEF ShownNext

LEMMA ViewStep ==
  ASSUME ViewInv, [Next]_vars PROVE ViewInv' /\ ShownNext
<1>1. ASSUME Main PROVE ViewInv' /\ ShownNext
  <2>1. CASE InitNext
    <3>1. ViewInv'
      BY <2>1, MovesOn, CallsKeep DEF InitNext
    <3>2. UNCHANGED shown
      BY <2>1 DEF InitNext, MainOnly, queueVars
    <3>3. QED BY <3>1, <3>2, ShowsNothing
  <2>2. CASE \/ DisplayDone \/ MultiReady \/ MainExit \/ Kill \/ JoinDisplays \/ Wait
             \/ JoinCaptures \/ Exit \/ Crash
    <3>1. UNCHANGED shown
      BY <2>2 DEF DisplayDone, MultiReady, MainExit, Kill, JoinDisplays, Wait, JoinCaptures, Exit, Crash,
         MainOnly, queueVars
    <3>2. QED BY <2>2, <3>1, MovesOn, ShowsNothing
  <2>3. CASE DisplayStart \/ DeinitStop \/ DeinitDestroy
    <3>1. UNCHANGED shown
      BY <2>3 DEF DisplayStart, DeinitStop, DeinitDestroy, MainOnly, queueVars
    <3>2. QED BY <2>3, <3>1, CallsKeep, ShowsNothing
  <2>4. CASE DisplayThread \/ SinglePop \/ MultiPop \/ MultiEmpty
    <3>1. UNCHANGED shown
      BY <2>4 DEF DisplayThread, SinglePop, MultiPop, MultiEmpty, queueVars
    <3>2. QED BY <2>4, <3>1, DisplayThreadKeeps, SinglePopKeeps, MultiPopKeeps, MultiEmptyKeeps,
             ShowsNothing
  <2>5. CASE SingleShow \/ MultiShow
    BY <2>5, SingleShowKeeps, MultiShowKeeps
  <2>6. QED BY <1>1, <2>1, <2>2, <2>3, <2>4, <2>5 DEF Main
<1>2. CASE InitFails \/ WindowClosed
  <2>1. UNCHANGED shown
    BY <1>2 DEF InitFails, WindowClosed, MainOnly, queueVars
  <2>2. QED BY <1>2, <2>1, MovesOn, ShowsNothing
<1>3. CASE CtrlC \/ UNCHANGED vars
  <2>1. UNCHANGED shown
    BY <1>3 DEF CtrlC, vars, viewVars, queueVars
  <2>2. QED BY <1>3, <2>1, NothingMoves, ShowsNothing
<1>4. ASSUME NEW b \in Boards, CapThread(b) PROVE ViewInv' /\ ShownNext
  <2>1. UNCHANGED shown
    BY <1>4 DEF CapThread, CapTest, CapPoll, CapPush, queueVars
  <2>2. QED BY <1>4, <2>1, CapMovesKeeps, CapPushKeeps, ShowsNothing DEF CapThread
<1>5. ASSUME NEW c \in Chans, DispThread(c) PROVE ViewInv' /\ ShownNext
  <2>1. CASE DispTest(c) \/ DispPop(c)
    <3>1. UNCHANGED shown
      BY <2>1 DEF DispTest, DispPop
    <3>2. QED BY <2>1, <3>1, DispTestKeeps, DispPopKeeps, ShowsNothing
  <2>2. CASE DispShow(c)
    BY <2>2, DispShowKeeps
  <2>3. QED BY <1>5, <2>1, <2>2 DEF DispThread
<1>6. CASE \/ Library
           \/ app = "callback" /\ CallbackUser /\ UNCHANGED viewVars
           \/ \E b \in Boards, c \in Chans :
                 vpc \notin Dead /\ (CbThread(b, c) \/ FrameReady(b, c)) /\ UNCHANGED viewVars
  BY <1>6, LibraryKeeps
<1>7. ASSUME Next PROVE ViewInv' /\ ShownNext
  <2>1. CASE InitFails
    BY <1>2, <2>1
  <2>2. CASE WindowClosed
    BY <1>2, <2>2
  <2>3. CASE CtrlC
    BY <1>3, <2>3
  <2>4. CASE Library
    BY <2>4, LibraryKeeps
  <2>5. CASE \E b \in Boards : CapThread(b)
    BY <1>4, <2>5
  <2>6. CASE \E c \in Chans : DispThread(c)
    BY <1>5, <2>6
  <2>7. CASE app = "callback" /\ CallbackUser /\ UNCHANGED viewVars
    BY <1>6, <2>7
  <2>8. CASE \E b \in Boards, c \in Chans :
                vpc \notin Dead /\ (CbThread(b, c) \/ FrameReady(b, c)) /\ UNCHANGED viewVars
    BY <1>6, <2>8
  <2>9. QED BY <1>1, <1>7, <2>1, <2>2, <2>3, <2>4, <2>5, <2>6, <2>7, <2>8, Zenon DEF Next
<1>8. QED BY <1>3, <1>7

LEMMA ViewBegins ==
  ASSUME Init PROVE ViewInv
<1>0. chmask \in [Boards -> SUBSET Chans] /\ play \in {"none", "single", "multi"}
  BY ViewerAssumption DEF Init
<1>1. LibraryInv
  <2>1. HalTypeOK
    BY <1>0 DEF Init, HalInit, HalTypeOK, Idle, Per
  <2>2. ASSUME NEW b \in Boards PROVE Outliving(b)
    BY DEF Init, HalInit, Outliving, Per, On
  <2>3. QED BY <2>1, <2>2 DEF Init, HalInit, LibraryInv, At, Idle
<1>2. ViewTyped
  BY <1>0 DEF Init, ViewTyped, Per
<1>3. CaptureInv
  BY DEF Init, HalInit, CaptureInv, Dead
<1>4. ASSUME NEW b \in Boards, NEW c \in Chans PROVE InOrder(b, c)
  <2>1. dataQueue[b][c] = <<>> /\ pushed[b][c] = 0 /\ shown[b][c] = 0 /\ disp[c] = "none"
        /\ vpc = "init"
    BY DEF Init, Per
  <2>2. Len(dataQueue[b][c]) = 0
    BY <2>1
  <2>3. ~MainHas(b, c) /\ ~DispHas(b, c)
    BY <2>1 DEF MainHas, DispHas
  <2>4. Taken(b, c) = pushed[b][c] - Len(dataQueue[b][c])
    BY DEF Taken
  <2>5. \A i \in 1 .. Len(dataQueue[b][c]) : FALSE
    BY <2>2
  <2>6. Taken(b, c) = 0
    BY <2>1, <2>2, <2>4
  <2>7. shown[b][c] = Taken(b, c) - (IF MainHas(b, c) \/ DispHas(b, c) THEN 1 ELSE 0)
    <3>1. shown[b][c] = Taken(b, c) - 0
      BY <2>1, <2>6
    <3>2. QED BY <2>3, <3>1, Zenon
  <2>8. QED BY <2>3, <2>5, <2>7, Zenon DEF InOrder
<1>5. DisplayInv
  BY <1>4 DEF Init, DisplayInv
<1>6. QED BY <1>1, <1>2, <1>3, <1>5 DEF ViewInv

\* In the viewer and in an application with callbacks, for any boards, channels and
\* frames, no thread reads from a camera or looks at its frames after the camera was
\* destroyed (hal_camera_stop, View::deinit).
THEOREM NoneReadsTheGone == FairSpec => []CamerasOutlive
<1>1. ViewInv /\ [Next]_vars => ViewInv'
  BY ViewStep
<1>2. Init => ViewInv
  BY ViewBegins
<1>3. ViewInv => CamerasOutlive
  BY DEF ViewInv, CaptureInv, CamerasOutlive
<1>4. QED BY <1>1, <1>2, <1>3, PTL DEF FairSpec, Spec

\* A channel's frames are shown one after the other, each once and none left out,
\* whether the main thread or a display thread shows them, and however they take
\* turns with the thread that captures (getRealTimeSdlData, processCameraImage3).
THEOREM EachShownOnce == FairSpec => ShownInOrder
<1>1. Init => ViewInv
  BY ViewBegins
<1>2. ViewInv /\ [Next]_vars => ViewInv' /\ ShownNext
  BY ViewStep
<1>3. ViewInv /\ [Next]_vars =>
        [\A b \in Boards, c \in Chans :
           shown[b][c]' # shown[b][c] => shown[b][c]' = shown[b][c] + 1]_vars
  BY <1>2 DEF ShownNext
<1>4. QED BY <1>1, <1>2, <1>3, PTL DEF FairSpec, Spec, ShownInOrder
=============================================================================
