----------------------------- MODULE FrameQueue -----------------------------
(***************************************************************************)
(* What a capture channel promises to videobuf2: buffers handed to the     *)
(* driver come back filled, once each and in the order they were given,    *)
(* under sequence numbers that increase within a session; or all together  *)
(* when streaming stops.                                                   *)
(***************************************************************************)
EXTENDS Integers, Sequences

CONSTANT Bufs

VARIABLES
    queue,         \* the buffers the driver holds, oldest first
    owner,         \* who has each buffer
    last           \* the last sequence number given out, -1 if none
vars == <<queue, owner, last>>

Init == queue = <<>> /\ owner = [b \in Bufs |-> "user"] /\ last = -1

Give(b) ==
    /\ owner[b] = "user"
    /\ owner' = [owner EXCEPT ![b] = "driver"]
    /\ queue' = Append(queue, b)
    /\ UNCHANGED last

Deliver ==
    /\ queue # <<>>
    /\ owner' = [owner EXCEPT ![Head(queue)] = "done"]
    /\ queue' = Tail(queue)
    /\ last' > last

Take(b) ==
    /\ owner[b] = "done"
    /\ owner' = [owner EXCEPT ![b] = "user"]
    /\ UNCHANGED <<queue, last>>

\* Streaming starts, or stops.
Restart == last' = -1 /\ UNCHANGED <<queue, owner>>
Flush == queue' = <<>> /\ owner' = [b \in Bufs |-> "user"] /\ UNCHANGED last

Next == (\E b \in Bufs : Give(b) \/ Take(b)) \/ Deliver \/ Restart \/ Flush
Spec == Init /\ [][Next]_vars
=============================================================================
