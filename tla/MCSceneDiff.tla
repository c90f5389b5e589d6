------------------------------- MODULE MCSceneDiff -------------------------------
EXTENDS SceneDiff

CONSTANTS box, cup

MCObjects == {box, cup}
==================================================================================
