------------------------------ MODULE MCViewer ------------------------------
(***************************************************************************)
(* A small instance of Viewer: one board with two channels and two boards  *)
(* with one.                                                               *)
(***************************************************************************)
EXTENDS Viewer, TLC

OneBoard == (0 :> {0, 1}) @@ (1 :> {})
TwoBoards == (0 :> {0}) @@ (1 :> {1})
MCMasks == {OneBoard, TwoBoards}
MCCallbackMasks == {TwoBoards}
=============================================================================
