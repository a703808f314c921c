----------------------------- MODULE MCDmaEngine -----------------------------
(***************************************************************************)
(* Small instances of DmaEngine: the requesters are model values, those of *)
(* one kind interchangeable.                                               *)
(***************************************************************************)
EXTENDS DmaEngine, TLC

SyncSymmetry == Permutations(Sync)
AioSymmetry == Permutations(Aio)
=============================================================================
