--------------------------- MODULE MCVideoChannel ---------------------------
(***************************************************************************)
(* Small instances of VideoChannel.  The buffers are model values and      *)
(* interchangeable in safety runs.                                         *)
(***************************************************************************)
EXTENDS VideoChannel, TLC

BufSymmetry == Permutations(Bufs)
=============================================================================
