------------------------------ MODULE SgDevice ------------------------------
(***************************************************************************)
(* An SG DMA character device (cdev_sgdma.c), used in one of three ways:   *)
(* by asynchronous calls (AsyncIo), by a blocking read, write or aperture  *)
(* call looked at byte by byte (SgTransfer), or by a performance           *)
(* measurement next to blocking requests (PerfRun).                        *)
(***************************************************************************)
EXTENDS AsyncIo

CONSTANTS
    PageSize, Offsets, Sizes, EpAddrs, Apertures, DescMax, BlenMax, Block, AddrAlign,
    LenGranularity, Word, Requests, Askers, MaxStarts

VARIABLES
    use,
    \* SgTransfer
    stage, ask, done, rv, sg, mapped, pages, req, xfer, ring, desc_idx,
    non_incr_addr, switched, fetch, bytes, astray,
    \* PerfRun
    xdma_perf, perf_buf, list, runs, desc, slots, state, where, pick, gone,
    trouble, wrecked, starts

sgVars == <<stage, ask, done, rv, sg, mapped, pages, req, xfer, ring, desc_idx,
            non_incr_addr, switched, fetch, bytes, astray>>
perfVars == <<xdma_perf, perf_buf, list, runs, desc, slots, state, where, pick, gone,
              trouble, wrecked, starts>>

Transfer == INSTANCE SgTransfer WITH pinned <- pages, moved <- bytes, Lengths <- Sizes
Perf == INSTANCE PerfRun WITH at <- where

ASSUME DeviceAssumption ==
    AioAssumption /\ Transfer!SgAssumption /\ Perf!PerfAssumption

InitDevice ==
    /\ use \in {"aio", "transfer", "perf"}
    /\ Init /\ Transfer!Init /\ Perf!Init

NextUse ==
    \/ use = "aio" /\ Next /\ UNCHANGED <<use, sgVars, perfVars>>
    \/ use = "transfer" /\ Transfer!Next /\ UNCHANGED <<use, vars, perfVars>>
    \/ use = "perf" /\ Perf!Next /\ UNCHANGED <<use, vars, sgVars>>

\* A call that was made is executed, a running engine completes its requests.
FairUse ==
    /\ \A c \in Calls : WF_<<use, vars>>(Inside(c) /\ UNCHANGED <<use, sgVars, perfVars>>)
    /\ WF_<<use, vars>>(Complete /\ ~wild /\ UNCHANGED <<use, sgVars, perfVars>>)

SpecDevice == InitDevice /\ [][NextUse]_<<use, vars, sgVars, perfVars>> /\ FairUse
-----------------------------------------------------------------------------
\* Properties of the other two uses, each stated in its module; those of asynchronous
\* calls, AioHolds and CallEnds, are in AsyncIo.

\* A blocking call moves the bytes it was asked to, fetched as blocks of its own
\* descriptors, from pages that are held (xdma_xfer_submit, xdma_xfer_aperture).
CallMoves == Transfer!CallMoves

\* A measurement comes and goes whole, and harms others only in their company
\* (xdma_performance_submit, engine_cyclic_stop).
MeasuredAlone == Perf!MeasuredAlone
=============================================================================
