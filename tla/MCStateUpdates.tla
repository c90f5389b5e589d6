----------------------------- MODULE MCStateUpdates -----------------------------
EXTENDS StateUpdates

CONSTANTS arm, gripper

MCJoints == {arm, gripper}
MCMessages == {<<arm>>, <<gripper>>, <<arm, gripper>>}
=================================================================================
