------------------------------- MODULE MCCamera -------------------------------
(***************************************************************************)
(* One camera of the library in its polling form, seen in one of two ways: *)
(* its FIFO, its threads and its destruction (CameraFifo), or its opening  *)
(* and the format of its node, which another program uses too              *)
(* (VideoFormat).                                                          *)
(***************************************************************************)
EXTENDS CameraFifo

CONSTANTS Known, Fifo, Word

\* Sizes of frames: the program asks for one smaller than the card's and for one
\* whose bytes overflow to none.
CardSizes == {<<2, 2>>, <<4, 2>>}
AskedSizes == {<<1, 1>>, <<8, 8>>}

VARIABLES
    use,
    \* VideoFormat
    cardSize, format, size, owner, bufs, streaming, oops, hpc, hsize, hlen, hi,
    odd, meddled

formatVars == <<cardSize, format, size, owner, bufs, streaming, oops, hpc, hsize, hlen, hi,
                odd, meddled>>

Format == INSTANCE VideoFormat

ASSUME CameraAssumption == FifoAssumption /\ Format!FormatAssumption

InitCamera ==
    /\ use \in {"fifo", "format"}
    /\ Init /\ Format!Init
    /\ use = "fifo" => cardSize = <<2, 2>>

NextUse ==
    \/ use = "fifo" /\ Next /\ UNCHANGED <<use, formatVars>>
    \/ use = "format" /\ Format!Next /\ UNCHANGED <<use, vars>>

\* Threads run, the driver goes on.
FairUse ==
    /\ \A t \in Threads : WF_vars(~wild /\ Poll(t) /\ UNCHANGED <<use, formatVars>>)
    /\ WF_vars(~wild /\ Driver /\ UNCHANGED <<use, formatVars>>)

SpecCamera == InitCamera /\ [][NextUse]_<<use, vars, formatVars>> /\ FairUse
-----------------------------------------------------------------------------
\* The property of the other use; BuffersConserved, FramesHold and PollStops are in
\* CameraFifo.

\* Buffers hold frames of the node's format, the library looks at what it mapped,
\* and the kernel does not crash, unless something odd was asked for
\* (xdma_video_s_fmt_vid_cap, Camera::CameraOpen).
FormatHolds == Format!FormatHolds
=============================================================================
