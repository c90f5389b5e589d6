----------------------- MODULE MCBackgroundProcessing -----------------------
(* Instances of BackgroundProcessing for TLC.                              *)
EXTENDS BackgroundProcessing

CONSTANTS j1, j2, j3, c1, c2

const_Jobs == {j1, j2, j3}
const_Clients == {c1, c2}
=============================================================================
