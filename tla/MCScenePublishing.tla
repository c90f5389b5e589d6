---------------------------- MODULE MCScenePublishing ----------------------------
EXTENDS ScenePublishing

CONSTANTS cup, c1, c2

MCObjects == {cup}
MCCallers == {c1, c2}
MCPublishChoices == {UPDATE_SCENE, {"GEOMETRY"}}

\* Joint values alone, and a state that drops what is attached.
MCRobotStates ==
  {[is_diff |-> TRUE, given |-> {}, taken |-> {}],
   [is_diff |-> FALSE, given |-> {}, taken |-> {}]}
==================================================================================
