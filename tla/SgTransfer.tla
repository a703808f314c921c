----------------------------- MODULE SgTransfer -----------------------------
(***************************************************************************)
(* One blocking call on an SG DMA character device, byte by byte: the read *)
(* or write of cdev_sgdma.c with xdma_xfer_submit, and the aperture ioctl  *)
(* with xdma_xfer_aperture.  The user's pages become a scatter list, the   *)
(* list descriptors in the engine's ring, in as many transfers as it takes *)
(* to go round the ring, and the card fetches the descriptors in blocks of *)
(* adjacent ones and moves their bytes.                                    *)
(*                                                                         *)
(* The call holds desc_lock from its first transfer to its last; requests  *)
(* in flight next to each other, interrupts and the engine's restarts are  *)
(* in DmaEngine.  Bytes are numbered from the start of the user's buffer,  *)
(* addresses are offsets, a descriptor is named by its index in the ring.  *)
(***************************************************************************)
EXTENDS Integers, Sequences, SequencesExt

CONSTANTS
    PageSize,      \* bytes in a page of memory
    Offsets,       \* where in its first page a buffer may start
    Lengths,       \* how long a buffer may be
    EpAddrs,       \* where in the card's memory it may go
    Apertures,     \* the windows an aperture call may ask for
    DescMax,       \* descriptors in the ring, engine->desc_max
    BlenMax,       \* bytes one descriptor moves at most, desc_blen_max
    Block,         \* descriptors in a block, XDMA_MAX_ADJ_BLOCK_SIZE
    AddrAlign,     \* engine->addr_align
    LenGranularity,  \* engine->len_granularity
    Word           \* width of an unsigned int: its values are 0 .. Word - 1

\* What is assumed of the constants; the modules this one is checked in assume it.
SgAssumption ==
    /\ PageSize \in Nat \ {0} /\ Offsets \subseteq 0 .. PageSize - 1
    /\ Lengths \subseteq 1 .. Word - 1 /\ EpAddrs \subseteq Nat
    /\ Apertures \subseteq Nat \ {0}
    /\ DescMax \in Nat \ {0} /\ BlenMax \in Nat \ {0} /\ Block \in Nat \ {0}
    /\ AddrAlign \in Nat \ {0} /\ LenGranularity \in Nat \ {0} /\ Word \in Nat \ {0}

VARIABLES
    \* where the call is, what it asks for, what it returns
    stage, ask, done, rv,
    \* the scatter list, whether it is mapped for the card (sgt->nents), and
    \* the pages pinned
    sg, mapped, pinned,
    \* struct xdma_request_cb and the transfer in use
    req, xfer,
    \* the engine: its ring, the next free descriptor, its addressing mode,
    \* and whether that was changed under the call
    ring, desc_idx, non_incr_addr, switched,
    \* the card: the first descriptor it fetches next, how many more come with
    \* it, and the bytes moved for this call, from which address to which
    fetch, moved,
    \* the driver wrote outside the ring
    astray

callVars == <<stage, ask, done, rv>>
bufVars == <<sg, mapped, pinned>>
engVars == <<ring, desc_idx, non_incr_addr, switched>>
cardVars == <<fetch, moved>>
sgVars == <<callVars, bufVars, req, xfer, engVars, cardVars, astray>>

Nothing == [buf |-> 0, len |-> 0, ep |-> 0, aperture |-> 0, merged |-> FALSE]
NoReq == [sdesc |-> <<>>, sw_desc_idx |-> 0, ep |-> 0, offset |-> 0,
          sg_idx |-> 1, sg_offset |-> 0, passes |-> 0]
NoXfer == [first |-> 0, num |-> 0, len |-> 0, last |-> FALSE, state |-> "new"]
NoFetch == [at |-> 0, more |-> 0]
Cleared == [addr |-> 0, ep |-> 0, len |-> 0, next |-> 0, adj |-> 0, stop |-> FALSE]
Slots == 0 .. DescMax - 1

Init ==
    /\ stage = "idle" /\ ask = Nothing /\ done = 0 /\ rv = "none"
    /\ sg = <<>> /\ mapped = FALSE /\ pinned = 0
    /\ req = NoReq /\ xfer = NoXfer
    /\ ring = [i \in Slots |-> Cleared]
    /\ desc_idx \in Slots
    /\ non_incr_addr = FALSE /\ switched = FALSE
    /\ fetch = NoFetch /\ moved = <<>>
    /\ astray = FALSE
-----------------------------------------------------------------------------
\* The user's buffer.

Smaller(a, b) == IF a < b THEN a ELSE b

\* The pages the buffer touches, from its address and its length.
PagesOf(a) == (a.buf + a.len + PageSize - 1) \div PageSize

\* Where the card sees byte b of the buffer: its pages lie apart, or an IOMMU
\* has put them side by side.
BusOf(a, b) ==
    IF a.merged THEN a.buf + b
    ELSE 2 * PageSize * ((a.buf + b) \div PageSize) + ((a.buf + b) % PageSize)

\* The list char_sgdma_map_user_buf_to_sgl makes of the pages, one entry a page,
\* as dma_map_sg leaves it, an entry of its own for each or one for all.
ScatterList(a) ==
    IF a.merged THEN <<[addr |-> BusOf(a, 0), len |-> a.len]>>
    ELSE [p \in 1 .. PagesOf(a) |->
            LET from == IF p = 1 THEN 0 ELSE (p - 1) * PageSize - a.buf
                to == Smaller(a.len, p * PageSize - a.buf)
            IN  [addr |-> BusOf(a, from), len |-> to - from]]

\* check_transfer_align for a read, a write or an aperture: without increments
\* both addresses are aligned and the length is whole, with them the addresses
\* are misaligned by as much.
Aligned(a) ==
    IF non_incr_addr
    THEN /\ a.buf % AddrAlign = 0 /\ a.ep % AddrAlign = 0
         /\ a.len % LenGranularity = 0
    ELSE a.buf % AddrAlign = a.ep % AddrAlign

\* char_sgdma_read_write and ioctl_do_aperture_dma down to the pages; a call
\* that is not aligned returns at once.
Begin ==
    /\ stage = "idle"
    /\ \E b \in Offsets, n \in Lengths, e \in EpAddrs, w \in Apertures \cup {0}, g \in BOOLEAN :
        ask' = [buf |-> b, len |-> n, ep |-> e, aperture |-> w, merged |-> g]
    /\ Aligned(ask')
    /\ stage' = "pages"
    /\ UNCHANGED <<done, rv, bufVars, req, xfer, engVars, cardVars, astray>>

\* char_sgdma_map_user_buf_to_sgl fails: too little memory, fewer pages pinned
\* than wanted or one of them twice; what was pinned is put.
MapFails ==
    /\ stage = "pages"
    /\ stage' = "over" /\ rv' = "error"
    /\ UNCHANGED <<ask, done, bufVars, req, xfer, engVars, cardVars, astray>>

\* All pages are pinned and in the list.
MapPages ==
    /\ stage = "pages"
    /\ sg' = ScatterList(ask)
    /\ pinned' = PagesOf(ask)
    /\ stage' = "submit"
    /\ UNCHANGED <<ask, done, rv, mapped, req, xfer, engVars, cardVars, astray>>
-----------------------------------------------------------------------------
\* An operator X_Fault, written before X, is X with the fault its comment
\* names: no specification uses it, it is there to be put in the place of X, to
\* see that a property notices.

\* An entry of the list in pieces a descriptor can move.
Pieces(e) ==
    [k \in 1 .. (e.len + BlenMax - 1) \div BlenMax |->
        [addr |-> e.addr + (k - 1) * BlenMax,
         len |-> Smaller(BlenMax, e.len - (k - 1) * BlenMax)]]

\* xdma_init_request: the descriptors wanted, in the order of the list.  An
\* aperture makes its descriptors as it goes.
InitRequest ==
    [NoReq EXCEPT !.ep = ask.ep,
                  !.sdesc = IF ask.aperture = 0
                            THEN FlattenSeq([k \in DOMAIN sg |-> Pieces(sg[k])])
                            ELSE <<>>]

\* xdma_xfer_submit and xdma_xfer_aperture map the list for the card, allocate
\* the request and take desc_lock.
Submit ==
    /\ stage = "submit"
    /\ mapped' = TRUE
    /\ req' = InitRequest
    /\ stage' = "build"
    /\ UNCHANGED <<ask, done, rv, sg, pinned, xfer, engVars, cardVars, astray>>

\* The device is offline or the engine not one for this, dma_map_sg fails, or the
\* request cannot be allocated and the list is unmapped.
SubmitFails ==
    /\ stage = "submit"
    /\ stage' = "unpin" /\ rv' = "error"
    /\ UNCHANGED <<ask, done, bufVars, req, xfer, engVars, cardVars, astray>>

\* The block of the next descriptor is not looked at.
NextAdj_Unaligned(remaining, i) ==
    IF remaining <= 1 THEN 0 ELSE Smaller(Block, remaining) - 1

\* xdma_get_next_adj: of the descriptors that remain from i on, how many come
\* adjacent to i in its block.
NextAdj(remaining, i) ==
    IF remaining <= 1 THEN 0 ELSE Smaller(Block - (i % Block) - 1, remaining - 1)

\* A chain of descriptors from the slot first on: linked one to the next, the
\* last one stops the card, each says how many are adjacent to its next
\* (transfer_desc_init, xdma_desc_control_set, xdma_desc_adjacent).
Chain(first, filled) ==
    LET n == Len(filled) IN
    [i \in Slots |->
        IF i \notin first .. first + n - 1 THEN ring[i]
        ELSE LET j == i - first + 1
                 next == IF j < n THEN i + 1 ELSE 0
             IN  [addr |-> filled[j].addr, ep |-> filled[j].ep, len |-> filled[j].len,
                  next |-> next, adj |-> NextAdj(n - j, next), stop |-> j = n]]

\* transfer_queue on an engine at rest: engine_start tells the card the first
\* descriptor and how many are adjacent to it.
Start(first, n) == fetch' = [at |-> first, more |-> NextAdj(n, first)]

\* How many descriptors transfer_init takes: no more than are left of the
\* request, and none beyond the end of the ring.
DescCount ==
    LET n == Smaller(Len(req.sdesc) - req.sw_desc_idx, DescMax)
    IN  IF desc_idx + n >= DescMax THEN DescMax - desc_idx ELSE n

\* The bytes before each descriptor, and those of all.
Before(descs) ==
    LET before[j \in 1 .. Len(descs) + 1] ==
            IF j = 1 THEN 0 ELSE before[j - 1] + descs[j - 1].len
    IN  before

Bytes(descs) == Before(descs)[Len(descs) + 1]

\* transfer_build: the descriptors in order, and where on the card they go.
Filled(n) ==
    LET sdesc == SubSeq(req.sdesc, req.sw_desc_idx + 1, req.sw_desc_idx + n)
        ep == [j \in 1 .. n + 1 |->
                IF non_incr_addr THEN req.ep ELSE req.ep + Before(sdesc)[j]]
    IN  [descs |-> [j \in 1 .. n |->
                        [addr |-> sdesc[j].addr, len |-> sdesc[j].len, ep |-> ep[j]]],
         ep |-> ep[n + 1]]

\* The transfer of a read or a write: transfer_init, and transfer_queue.
Build ==
    /\ stage = "build" /\ ask.aperture = 0
    /\ LET n == DescCount
           f == Filled(n)
       IN  /\ ring' = Chain(desc_idx, f.descs)
           /\ xfer' = [first |-> desc_idx, num |-> n, len |-> Bytes(f.descs),
                       last |-> req.sw_desc_idx + n = Len(req.sdesc),
                       state |-> "submitted"]
           /\ req' = [req EXCEPT !.sw_desc_idx = @ + n, !.ep = f.ep, !.passes = @ + 1]
           /\ Start(desc_idx, n)
           /\ desc_idx' = (desc_idx + n) % DescMax
    /\ stage' = "wait"
    /\ UNCHANGED <<ask, done, rv, bufVars, non_incr_addr, switched, moved, astray>>
-----------------------------------------------------------------------------
\* The aperture's loop over the list.  It is at an entry, whose number and
\* whose pointer it keeps apart (i, sg), so far into it, and at an address of
\* the window.

\* A window of the card's memory starts again when it ends.
InWindow(ep) == IF ep > ask.ep + ask.aperture - 1 THEN ask.ep ELSE ep

\* What is left of the entry, an unsigned int.
Left(w) == (sg[w.sg].len - w.into) % Word

\* The bits a and b have in common.
And[a \in Nat] ==
    [b \in Nat |-> IF a = 0 \/ b = 0 THEN 0
                   ELSE 2 * And[a \div 2][b \div 2] + (a % 2) * (b % 2)]

NextEntry(w) == [w EXCEPT !.i = @ + 1, !.sg = @ + 1, !.into = 0]

\* One descriptor: as much of the entry as fits in it and in the window.
Place(w) ==
    LET ep == InWindow(w.ep)
        n == Smaller(Smaller(Left(w), Smaller(ask.aperture, BlenMax)),
                     ask.ep + ask.aperture - ep)
        v == [w EXCEPT !.into = @ + n, !.ep = ep + n,
                       !.descs = Append(@, [addr |-> sg[w.sg].addr + w.into,
                                            ep |-> ep, len |-> n])]
    IN  IF n = Left(w) THEN NextEntry(v) ELSE v

\* The loop ends with the list or with the ring.
WalkEnds(w) == w.i > Len(sg) \/ desc_idx + Len(w.descs) = DescMax

\* Where a transfer starts, and one turn of its loop.
WalkBegin == [i |-> req.sg_idx, sg |-> 1, into |-> req.sg_offset, descs |-> <<>>,
              ep |-> ask.ep + And[req.offset][ask.aperture - 1]]

WalkTurn(w) == IF WalkEnds(w) THEN w ELSE IF Left(w) = 0 THEN NextEntry(w) ELSE Place(w)

Walked ==
    LET walk[k \in 0 .. DescMax + Len(sg)] ==
            IF k = 0 THEN WalkBegin ELSE WalkTurn(walk[k - 1])
    IN  walk[DescMax + Len(sg)]

\* The transfer of an aperture.  The list is walked from its first entry on
\* each time, at the offset reached in the entry that was last: req->sg is not
\* moved on.  With no descriptor at all, the links go on beyond the ring.
BuildAperture ==
    /\ stage = "build" /\ ask.aperture > 0
    /\ LET w == Walked
           n == Len(w.descs)
           to == req.offset + Bytes(w.descs)
       IN  IF n = 0 THEN /\ astray' = TRUE
                         /\ UNCHANGED <<stage, ring, xfer, req, fetch, desc_idx>>
           ELSE /\ ring' = Chain(desc_idx, w.descs)
                /\ xfer' = [first |-> desc_idx, num |-> n, len |-> Bytes(w.descs),
                            last |-> to = ask.len, state |-> "submitted"]
                /\ req' = [req EXCEPT !.offset = to, !.sg_idx = w.i, !.sg_offset = w.into,
                                      !.passes = @ + 1]
                /\ Start(desc_idx, n)
                /\ desc_idx' = (desc_idx + n) % DescMax
                /\ stage' = "wait" /\ UNCHANGED astray
    /\ UNCHANGED <<ask, done, rv, bufVars, non_incr_addr, switched, moved>>
-----------------------------------------------------------------------------
\* The card.

Fetched == fetch.at .. fetch.at + fetch.more

\* The bytes a descriptor moves; without increments they all go to one place.
Moves(d) ==
    [b \in 1 .. d.len |->
        <<d.addr + b - 1, IF non_incr_addr THEN d.ep ELSE d.ep + b - 1>>]

\* The card fetches a block, moves what its descriptors say, and goes on with
\* the next of the last one, or stops there.
CardMoves ==
    /\ stage = "wait" /\ xfer.state = "submitted"
    /\ fetch.at + fetch.more \in Slots
    /\ moved' = moved \o FlattenSeq([k \in 1 .. fetch.more + 1 |->
                                        Moves(ring[fetch.at + k - 1])])
    /\ LET d == ring[fetch.at + fetch.more]
       IN  IF d.stop THEN xfer' = [xfer EXCEPT !.state = "completed"] /\ UNCHANGED fetch
           ELSE fetch' = [at |-> d.next, more |-> d.adj] /\ UNCHANGED xfer
    /\ UNCHANGED <<callVars, bufVars, req, engVars, astray>>

\* The channel reports an error, or the wait times out and engine and transfer
\* are stopped: nothing more is moved.
CardFails ==
    /\ stage = "wait" /\ xfer.state = "submitted"
    /\ xfer' = [xfer EXCEPT !.state = "failed"]
    /\ UNCHANGED <<callVars, bufVars, req, engVars, cardVars, astray>>

\* transfer_destroy clears the descriptors and, for the last transfer of the
\* request, unmaps the list.
Destroy ==
    /\ ring' = [i \in Slots |->
                  IF i \in xfer.first .. xfer.first + xfer.num - 1 THEN Cleared ELSE ring[i]]
    /\ mapped' = (mapped /\ ~xfer.last)

\* Whether xdma_xfer_submit, or xdma_xfer_aperture, has more to do.
MoreToDo ==
    IF ask.aperture = 0 THEN req.sw_desc_idx < Len(req.sdesc)
    ELSE req.offset < ask.len

\* The caller wakes: it counts the bytes of a transfer that was completed and
\* goes on, or gives up.
Reap ==
    /\ stage = "wait" /\ xfer.state \in {"completed", "failed"}
    /\ Destroy
    /\ IF xfer.state = "completed"
       THEN /\ done' = done + xfer.len
            /\ stage' = IF MoreToDo THEN "build" ELSE "unpin"
            /\ UNCHANGED rv
       ELSE /\ rv' = "error" /\ stage' = "unpin"
            /\ UNCHANGED done
    /\ UNCHANGED <<ask, sg, pinned, req, xfer, desc_idx, non_incr_addr, switched, cardVars, astray>>

\* The list is unmapped, if it still is mapped, and char_sgdma_unmap_user_buf
\* puts the pages; the call returns done or, with nothing done, the error.
Unpin ==
    /\ stage = "unpin"
    /\ mapped' = FALSE /\ pinned' = 0
    /\ stage' = "over"
    /\ UNCHANGED <<ask, done, rv, sg, req, xfer, engVars, cardVars, astray>>

\* The caller has its answer, and may call again.
Return ==
    /\ stage = "over"
    /\ stage' = "idle" /\ ask' = Nothing /\ done' = 0 /\ rv' = "none"
    /\ sg' = <<>> /\ req' = NoReq /\ xfer' = NoXfer
    /\ fetch' = NoFetch /\ moved' = <<>>
    /\ switched' = FALSE
    /\ UNCHANGED <<mapped, pinned, ring, desc_idx, non_incr_addr, astray>>

\* engine_addrmode_set, from another thread: no lock keeps it out of a call.
AddrMode ==
    /\ non_incr_addr' = ~non_incr_addr
    /\ switched' = (stage # "idle")
    /\ UNCHANGED <<callVars, bufVars, req, xfer, ring, desc_idx, cardVars, astray>>
-----------------------------------------------------------------------------
Caller == Begin \/ MapFails \/ MapPages \/ Submit \/ SubmitFails \/ Build
          \/ BuildAperture \/ Reap \/ Unpin \/ Return

Next == ~astray /\ (Caller \/ CardMoves \/ CardFails \/ (~switched /\ AddrMode))

Spec == Init /\ [][Next]_sgVars
-----------------------------------------------------------------------------
\* Properties.

\* Where byte b of the buffer goes: the card's address moves on with it, stays,
\* or goes round the window.
EpOf(b) == IF non_incr_addr THEN ask.ep
           ELSE IF ask.aperture = 0 THEN ask.ep + b
           ELSE ask.ep + (b % ask.aperture)

Asked == [i \in 1 .. ask.len |-> <<BusOf(ask, i - 1), EpOf(i - 1)>>]

PowersOfTwo == {1, 2, 4, 8, 16}

\* The requests the code handles: the mode is not changed under them, and an
\* aperture increments, and fits the ring at once or is one entry of the list
\* whose window is a power of two.
Handled ==
    /\ ~switched
    /\ ask.aperture > 0 =>
        /\ ~non_incr_addr
        /\ \/ req.passes <= 1
           \/ Len(sg) = 1 /\ ask.aperture \in PowersOfTwo

\* The card moves each byte of the buffer once, in order, to where it belongs,
\* and nothing else (transfer_build, xdma_xfer_aperture); a call returns no more
\* than was moved, and all of it when nothing failed.
MovedAsAsked ==
    Handled => /\ IsPrefix(moved, Asked)
               /\ done <= Len(moved)
               /\ stage = "over" /\ rv = "none" => done = ask.len

\* A block the card fetches is part of the transfer, and within one aligned
\* block of the ring (xdma_get_next_adj, engine_start).
FetchesOwn ==
    stage = "wait" =>
        /\ Fetched \subseteq xfer.first .. xfer.first + xfer.num - 1
        /\ fetch.at \div Block = (fetch.at + fetch.more) \div Block

\* While the card works the pages are pinned and mapped; afterwards none is.
BufferHeld ==
    /\ stage = "wait" /\ xfer.state = "submitted" => mapped /\ pinned = PagesOf(ask)
    /\ stage \in {"idle", "over"} => ~mapped /\ pinned = 0

\* The links leave the ring only in an aperture that goes round it.
StaysInRing == astray => ask.aperture > 0 /\ req.passes > 0 /\ Len(sg) > 1

\* Types.
TypeOK ==
    /\ stage \in {"idle", "pages", "submit", "build", "wait", "unpin", "over"}
    /\ ask \in [buf : Nat, len : Nat, ep : Nat, aperture : Nat, merged : BOOLEAN]
    /\ done \in Nat /\ rv \in {"none", "error"}
    /\ mapped \in BOOLEAN /\ pinned \in Nat
    /\ desc_idx \in Slots /\ DOMAIN ring = Slots
    /\ {non_incr_addr, switched, astray} \subseteq BOOLEAN

\* A call moves what it was asked to, holds its buffer for as long as the card
\* works on it, and the card fetches what is the call's.
CallMoves == TypeOK /\ MovedAsAsked /\ FetchesOwn /\ BufferHeld /\ StaysInRing
=============================================================================
