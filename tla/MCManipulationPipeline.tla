------------------------- MODULE MCManipulationPipeline -------------------------
EXTENDS ManipulationPipeline

CONSTANTS w1, w2, w3, g1, g2
==================================================================================
