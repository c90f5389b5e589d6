------------------------ MODULE MCTrajectoryExecution ------------------------
(* Instances of TrajectoryExecution for TLC.                               *)
EXTENDS TrajectoryExecution, TLC

CONSTANTS client, stopper, arm, base

\* One trajectory of each shape: without motion, for one controller, for two.
const_Trajectories == {<<>>, <<arm>>, <<arm, base>>}

\* Enough where the number of parts of a trajectory makes no difference.
const_OneController == {<<>>, <<arm>>}

\* Where the case of a single controller is covered by the case of two.
const_Both == {<<>>, <<arm, base>>}
=============================================================================
