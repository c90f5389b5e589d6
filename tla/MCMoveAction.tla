------------------------------ MODULE MCMoveAction ------------------------------
(* Instances of MoveAction for TLC.                                        *)
EXTENDS MoveAction, TLC
=============================================================================
