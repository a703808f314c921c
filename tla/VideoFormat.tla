----------------------------- MODULE VideoFormat -----------------------------
(***************************************************************************)
(* The format of a video node (xdma_video.c): what its ioctls set and      *)
(* report, and the buffers videobuf2 makes by it.  The camera library      *)
(* opens the node (Camera::CameraOpen and CameraStart in camera.cpp),      *)
(* ignoring what fails, and captures; another program uses the node        *)
(* meanwhile.  One ioctl is one step: the node's lock is held.             *)
(*                                                                         *)
(* Which buffer is filled when is in VideoChannel and FrameQueue, the      *)
(* FIFO of the library in CameraFifo.  videobuf2 is external.              *)
(***************************************************************************)
EXTENDS Naturals, Sequences, FiniteSets

CONSTANTS
    None,
    Known,         \* formats[]: codes of 16 bits per pixel
    CardSizes,     \* what the card may report, width and height
    AskedSizes,    \* what the other program may ask for
    Fifo,          \* FRAMEFIFODEPTH
    Word           \* of an unsigned int

\* What is assumed of the constants; the modules this one is checked in assume it.
\* The bits of a frame of the card fit in an unsigned int; what a program asks for
\* may not.
FormatAssumption ==
    /\ None \notin Known /\ None \notin {"library", "program"}
    /\ Fifo \in Nat \ {0} /\ Word \in Nat \ {0}
    /\ AskedSizes \subseteq Nat \X Nat
    /\ \A s \in CardSizes : /\ s \in (Nat \ {0}) \X (Nat \ {0})
                            /\ s[1] * s[2] * 16 < Word

VARIABLES
    \* the card's registers of the channel
    cardSize,
    \* struct xdma_video_channel: its settings
    format, size,
    \* videobuf2: the file that owns the queue, and the buffers
    owner, bufs, streaming,
    \* the kernel followed a pointer that leads nowhere
    oops,
    \* the library: where it is, width and height, the lengths it mapped, the
    \* buffer it is at
    hpc, hsize, hlen, hi,
    \* history: the last code given was not known, or memory ran out; the
    \* library was refused, or another format was set under it
    odd, meddled

setVars == <<format, size>>
vb2Vars == <<owner, bufs, streaming>>
halVars == <<hpc, hsize, hlen, hi>>
formatVars == <<cardSize, setVars, vb2Vars, oops, halVars, odd, meddled>>

Files == {"library", "program"}

\* szimage in xdma_video_queue_setup, size in xdma_video_buf_prepare.
FrameBytes(s) == ((s[1] * s[2] * 16) % Word) \div 8

\* xdma_video_init
Init ==
    /\ cardSize \in CardSizes
    /\ format \in Known /\ size = cardSize
    /\ owner = None /\ bufs = <<>> /\ streaming = FALSE
    /\ oops = FALSE
    /\ hpc = "closed" /\ hsize = cardSize /\ hlen = <<>> /\ hi = 1
    /\ odd = FALSE /\ meddled = FALSE
-----------------------------------------------------------------------------
\* An operator X_Fault, written before X, is X with the fault its comment
\* names: no specification uses it, it is there to be put in the place of X, to
\* see that a property notices.

\* vb2_is_busy
Busy == bufs # <<>>

\* The format is set also while there are buffers.
SetFormat_Busy(code, s) ==
    /\ format' = IF code \in Known THEN code ELSE None
    /\ size' = IF code \in Known THEN s ELSE size

\* xdma_video_s_fmt_vid_cap: a code that is not known is refused, and stored.
SetFormat(code, s) ==
    IF Busy THEN UNCHANGED <<format, size>>
    ELSE /\ format' = IF code \in Known THEN code ELSE None
         /\ size' = IF code \in Known THEN s ELSE size

\* vb2_ioctl_reqbufs and the like: a file owns the queue.
Allowed(f) == owner \in {None, f}

\* A buffer of n bytes, with its three requests (xdma_video_buf_init).
NewBuf(n) == [len |-> n, payload |-> 0, queued |-> FALSE]

\* xdma_video_queue_setup where the kernel counts buffers in num_buffers (the #else
\* branch): at least three.
AtLeast(n, there) == IF there + n < 3 THEN 3 - there ELSE n

\* VIDIOC_REQBUFS of n buffers that succeeds, ...
RequestBuffers(f, n) ==
    /\ Allowed(f) /\ ~streaming /\ format # None /\ FrameBytes(size) > 0
    /\ bufs' = [i \in 1 .. AtLeast(n, 0) |-> NewBuf(FrameBytes(size))]
    /\ owner' = f
    /\ UNCHANGED streaming

\* ... fails: of another owner, while streaming, or (memory) having freed what
\* was there.
RequestFails(f, memory) ==
    IF memory THEN /\ Allowed(f) /\ ~streaming /\ format # None
                   /\ bufs' = <<>> /\ UNCHANGED <<owner, streaming>>
    ELSE /\ ~Allowed(f) \/ streaming \/ (format # None /\ FrameBytes(size) = 0)
         /\ UNCHANGED vb2Vars

\* VIDIOC_QBUF: xdma_video_buf_prepare.
QueueBuffer(f, i) ==
    IF i \in DOMAIN bufs /\ owner = f /\ ~bufs[i].queued /\ bufs[i].len >= FrameBytes(size)
    THEN bufs' = [bufs EXCEPT ![i] = [@ EXCEPT !.payload = FrameBytes(size), !.queued = TRUE]]
    ELSE UNCHANGED bufs

\* The file is closed (vb2_fop_release): what it owns is freed.
Released(f) ==
    IF owner = f THEN owner' = None /\ bufs' = <<>> /\ streaming' = FALSE
    ELSE UNCHANGED vb2Vars

\* Any ioctl that looks at vc->format when there is none; and TRY_FMT of a code
\* that is not known, which takes the code itself as an index.
Crash ==
    /\ oops' = TRUE
    /\ UNCHANGED <<cardSize, setVars, vb2Vars, halVars, odd, meddled>>
-----------------------------------------------------------------------------
\* The other program: any ioctl at any time.

ProgramSetsFormat ==
    /\ \E code \in Known \cup {None}, s \in AskedSizes :
        /\ SetFormat(code, s)
        /\ odd' = IF Busy THEN odd ELSE code \notin Known
    /\ meddled' = (meddled \/ (hpc = "req" /\ ~Busy))
    /\ UNCHANGED <<cardSize, vb2Vars, oops, halVars>>

\* TRY_FMT, G_FMT or ENUM_FMT, which report and change nothing, if they can.
ProgramAsks ==
    /\ \/ format = None /\ UNCHANGED odd
       \/ odd' = TRUE
    /\ oops' = TRUE
    /\ UNCHANGED <<cardSize, setVars, vb2Vars, halVars, meddled>>

ProgramRequests ==
    /\ \/ \E n \in 1 .. Fifo : RequestBuffers("program", n)
       \/ \E memory \in BOOLEAN : RequestFails("program", memory)
    /\ UNCHANGED <<cardSize, setVars, oops, halVars, odd, meddled>>

\* Memory for a request of a buffer is not asked after (xdma_video_init_request).
RequestCrash ==
    /\ Allowed("program") /\ ~streaming
    /\ odd' = (odd \/ format # None)
    /\ oops' = TRUE
    /\ UNCHANGED <<cardSize, setVars, vb2Vars, halVars, meddled>>

\* VIDIOC_CREATE_BUFS, of a size of its own.
ProgramCreates ==
    /\ Allowed("program") /\ format # None
    /\ \E n \in 1 .. Fifo, s \in AskedSizes :
        /\ FrameBytes(s) >= FrameBytes(size) /\ FrameBytes(s) > 0
        /\ Len(bufs) + AtLeast(n, Len(bufs)) <= Fifo
        /\ bufs' = bufs \o [i \in 1 .. AtLeast(n, Len(bufs)) |-> NewBuf(FrameBytes(s))]
    /\ owner' = "program"
    /\ UNCHANGED <<cardSize, setVars, streaming, oops, halVars, odd, meddled>>

ProgramQueues ==
    /\ \E i \in DOMAIN bufs : QueueBuffer("program", i)
    /\ UNCHANGED <<cardSize, setVars, owner, streaming, oops, halVars, odd, meddled>>

ProgramStreams ==
    /\ owner = "program" /\ streaming' = ~streaming
    /\ bufs' = IF streaming THEN [i \in DOMAIN bufs |-> [bufs[i] EXCEPT !.queued = FALSE]]
               ELSE bufs
    /\ UNCHANGED <<cardSize, setVars, owner, oops, halVars, odd, meddled>>

\* A frame is taken.
ProgramTakes ==
    /\ owner = "program" /\ streaming
    /\ \E i \in DOMAIN bufs : bufs[i].queued /\ bufs' = [bufs EXCEPT ![i].queued = FALSE]
    /\ UNCHANGED <<cardSize, setVars, owner, streaming, oops, halVars, odd, meddled>>

ProgramCloses ==
    /\ Released("program")
    /\ UNCHANGED <<cardSize, setVars, oops, halVars, odd, meddled>>

Program ==
    \/ ProgramSetsFormat \/ ProgramAsks \/ ProgramRequests \/ RequestCrash
    \/ ProgramCreates \/ ProgramQueues \/ ProgramStreams \/ ProgramTakes \/ ProgramCloses
-----------------------------------------------------------------------------
\* The library.

HalGoto(from, to) == hpc = from /\ hpc' = to

\* CameraOpen: the node is opened and asked for its formats, ...
HalEnum ==
    /\ format # None
    /\ HalGoto("closed", "try")
    /\ UNCHANGED <<cardSize, setVars, vb2Vars, oops, hsize, hlen, hi, odd, meddled>>

HalEnumCrash == hpc = "closed" /\ format = None /\ Crash

\* ... TRY_FMT gives the card's size, ...
HalTry ==
    /\ HalGoto("try", "set")
    /\ hsize' = cardSize
    /\ UNCHANGED <<cardSize, setVars, vb2Vars, oops, hlen, hi, odd, meddled>>

\* ... which is set, unless the node is busy, ...
HalSet ==
    /\ HalGoto("set", "req")
    /\ \E code \in Known : SetFormat(code, hsize)
    /\ meddled' = Busy
    /\ odd' = (odd /\ Busy)
    /\ UNCHANGED <<cardSize, vb2Vars, oops, hsize, hlen, hi>>

\* ... and buffers are requested; if they are refused, as many are taken to be
\* there.
HalRequest ==
    /\ HalGoto("req", "map")
    /\ \/ RequestBuffers("library", Fifo) /\ UNCHANGED meddled
       \/ \E memory \in BOOLEAN : RequestFails("library", memory) /\ meddled' = TRUE
    /\ hlen' = <<>> /\ hi' = 1
    /\ UNCHANGED <<cardSize, setVars, oops, hsize, odd>>

HalRequestCrash == hpc = "req" /\ Allowed("library") /\ ~streaming /\ format = None /\ Crash

\* QUERYBUF and mmap, of any owner's buffer; or nothing.
HalMap ==
    /\ hpc = "map"
    /\ hlen' = Append(hlen, IF hi \in DOMAIN bufs THEN bufs[hi].len ELSE 0)
    /\ hpc' = IF hi = Fifo THEN "queue" ELSE "map"
    /\ hi' = IF hi = Fifo THEN 1 ELSE hi + 1
    /\ UNCHANGED <<cardSize, setVars, vb2Vars, oops, hsize, odd, meddled>>

\* CameraStart
HalQueue ==
    /\ hpc = "queue"
    /\ QueueBuffer("library", hi)
    /\ hpc' = IF hi = Fifo THEN "start" ELSE "queue"
    /\ hi' = IF hi = Fifo THEN 1 ELSE hi + 1
    /\ UNCHANGED <<cardSize, setVars, owner, streaming, oops, hsize, hlen, odd, meddled>>

HalStart ==
    /\ HalGoto("start", "capture")
    /\ streaming' = (streaming \/ owner = "library")
    /\ UNCHANGED <<cardSize, setVars, owner, bufs, oops, hsize, hlen, hi, odd, meddled>>

\* CameraCapture: a frame is dequeued and looked at, ...
HalDequeue ==
    /\ HalGoto("capture", "look")
    /\ owner = "library" /\ streaming
    /\ \E i \in DOMAIN bufs :
        /\ bufs[i].queued /\ bufs' = [bufs EXCEPT ![i].queued = FALSE]
        /\ hi' = i
    /\ UNCHANGED <<cardSize, setVars, owner, streaming, oops, hsize, hlen, odd, meddled>>

\* ... and its buffer given back.
HalRequeue ==
    /\ HalGoto("look", "capture")
    /\ QueueBuffer("library", hi)
    /\ hi' = 1
    /\ UNCHANGED <<cardSize, setVars, owner, streaming, oops, hsize, hlen, odd, meddled>>

\* CameraStop and CameraClose
HalClose ==
    /\ HalGoto("capture", "closed")
    /\ Released("library")
    /\ hlen' = <<>>
    /\ UNCHANGED <<cardSize, setVars, oops, hsize, hi, odd, meddled>>

Library ==
    \/ HalEnum \/ HalEnumCrash \/ HalTry \/ HalSet \/ HalRequest \/ HalRequestCrash \/ HalMap
    \/ HalQueue \/ HalStart \/ HalDequeue \/ HalRequeue \/ HalClose

\* The camera behind the channel changes its size.
CardChanges ==
    /\ cardSize' \in CardSizes
    /\ UNCHANGED <<setVars, vb2Vars, oops, halVars, odd, meddled>>

Next == ~oops /\ (Program \/ Library \/ CardChanges)

Spec == Init /\ [][Next]_formatVars
-----------------------------------------------------------------------------
\* Properties.

\* The byte of the last line that CameraCapture takes the exposure from.
Exposure(s) == s[1] * (s[2] - 1) * 2 + 1

\* Types.
TypeOK ==
    /\ {cardSize, hsize} \subseteq CardSizes /\ size \in CardSizes \cup AskedSizes
    /\ format \in Known \cup {None}
    /\ owner \in Files \cup {None}
    /\ bufs \in Seq([len : Nat, payload : Nat, queued : BOOLEAN])
    /\ {streaming, oops, odd, meddled} \subseteq BOOLEAN
    /\ hpc \in {"closed", "try", "set", "req", "map", "queue", "start", "capture", "look"}
    /\ hlen \in Seq(Nat) /\ hi \in 1 .. Fifo

\* While there are buffers there is a format, each holds a frame of it, and they
\* are three or more (xdma_video_queue_setup, xdma_video_s_fmt_vid_cap).
BuffersFit ==
    bufs # <<>> => /\ format # None /\ owner # None /\ Len(bufs) >= 3
                   /\ \A i \in DOMAIN bufs : /\ bufs[i].len >= FrameBytes(size)
                                             /\ bufs[i].payload \in {0, FrameBytes(size)}

\* The library looks at a frame of the size it believes in, inside its buffer,
\* unless it was refused or another program set a format before the buffers
\* were made (Camera::CameraOpen).
LooksInside ==
    hpc = "look" /\ ~meddled =>
        /\ hi \in DOMAIN hlen /\ Exposure(hsize) < hlen[hi]
        /\ bufs[hi].payload = FrameBytes(hsize)

\* The kernel follows no pointer into nowhere unless a code was given that is not
\* known, or memory ran out (xdma_video_set_format, xdma_video_try_fmt_vid_cap).
CrashNeedsOddCall == oops => odd

FormatHolds == TypeOK /\ BuffersFit /\ LooksInside /\ CrashNeedsOddCall
=============================================================================
