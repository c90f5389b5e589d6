----------------------------- MODULE PlanningScene -----------------------------
(***************************************************************************)
(* The scenes of planning_scene.cpp as values, with the objects of         *)
(* world.cpp and the record of changes of world_diff.cpp.                  *)
(*                                                                         *)
(* A complete scene (one without a parent) is a record of its robot's      *)
(* joints, its attached objects, its world, the colours of its objects and *)
(* its allowed collision matrix.  A diff scene has a world of its own and  *)
(* keeps, of everything else, only what differs from its parent.  What an  *)
(* object or a setting looks like is a number; None says there is none.    *)
(***************************************************************************)
EXTENDS Naturals

CONSTANT Objects   \* ids of objects

None == 0
Nothing == [o \in Objects |-> None]

\* World::Action, as far as anybody tells actions apart.
Actions == {"NONE", "DESTROY", "CHANGE"}

\* No robot_state_ in a diff scene.
NoState == [own |-> FALSE, joints |-> None, attached |-> Nothing]

Objs(Values) == [Objects -> Values \cup {None}]

Scenes(Values) ==
  [joints : Values \cup {None}, attached : Objs(Values), world : Objs(Values),
   colors : Objs(Values), acm : Values \cup {None}]

DiffScenes(Values) ==
  [state : [own : BOOLEAN, joints : Values \cup {None}, attached : Objs(Values)],
   world : Objs(Values), changes : [Objects -> Actions],
   colors : Objs(Values), acm : Values \cup {None}]

-----------------------------------------------------------------------------
(* What a diff scene d with the parent p shows.                            *)

\* PlanningScene::diff() and clearDiffs(): the world of the parent is shared,
\* nothing else is there.
clearDiffs(p) ==
  [state |-> NoState, world |-> p.world, changes |-> [o \in Objects |-> "NONE"],
   colors |-> Nothing, acm |-> None]

\* getCurrentState()
State(d, p) ==
  IF d.state.own THEN d.state ELSE [own |-> TRUE, joints |-> p.joints, attached |-> p.attached]

\* getObjectColor(): the scene's own, else the parent's.
Color(d, p, o) == IF d.colors[o] # None THEN d.colors[o] ELSE p.colors[o]

\* decoupleParent() makes the diff scene a complete one.
decoupleParent(d, p) ==
  [joints |-> State(d, p).joints, attached |-> State(d, p).attached, world |-> d.world,
   colors |-> [o \in Objects |-> Color(d, p, o)],
   acm |-> IF d.acm # None THEN d.acm ELSE p.acm]

-----------------------------------------------------------------------------
(* World, observed by WorldDiff.                                           *)

addToObject(d, o, v) ==
  [d EXCEPT !.world[o] = v, !.changes[o] = "CHANGE"]

\* A faulty variant: an object that was made since the last diff leaves no trace.
removeObject_Forgets(d, o) ==
  IF d.world[o] = None THEN d
  ELSE [d EXCEPT !.world[o] = None,
                 !.changes[o] = IF d.changes[o] = "CHANGE" THEN "NONE" ELSE "DESTROY"]

removeObject(d, o) ==
  IF d.world[o] = None THEN d
  ELSE [d EXCEPT !.world[o] = None, !.changes[o] = "DESTROY"]

-----------------------------------------------------------------------------
(* Operations on a diff scene.                                             *)

\* setObjectPose() and moveShapesInObject(), or more shapes (APPEND).
MoveObject(d, o, v) ==
  IF d.world[o] = None THEN d ELSE addToObject(d, o, v)

\* processCollisionObjectAdd() replaces the object.
AddObject(d, o, v) == addToObject(removeObject(d, o), o, v)

\* processCollisionObjectRemove(): a colour of the parent stays.
RemoveObject(d, o) ==
  IF d.world[o] = None THEN d ELSE [removeObject(d, o) EXCEPT !.colors[o] = None]

\* removeAllCollisionObjects()
RemoveAll(d) ==
  [d EXCEPT !.world = Nothing,
            !.changes = [o \in Objects |-> IF d.world[o] # None THEN "DESTROY" ELSE d.changes[o]],
            !.colors = [o \in Objects |-> IF d.world[o] # None THEN None ELSE d.colors[o]]]

\* clearObjects() and processPlanningSceneWorldMsg() of a world message.
ReplaceWorld(d, w) ==
  [d EXCEPT !.world = w,
            !.changes = [o \in Objects |-> IF w[o] # None THEN "CHANGE"
                                           ELSE IF d.world[o] # None THEN "DESTROY"
                                           ELSE d.changes[o]]]

\* processAttachedCollisionObjectMsg(), ADD.  Without geometry (None) the
\* object is taken from the world; the robot state becomes the scene's own
\* before that is known to fail.
Attach(d, p, o, v) ==
  LET own == [d EXCEPT !.state = State(d, p)]
      shape == IF v # None THEN v ELSE d.world[o]
  IN IF shape = None THEN own
     ELSE [removeObject(own, o) EXCEPT !.state.attached[o] = shape]

\* ... and REMOVE: the object goes back to the world unless one has its name.
Detach(d, p, o) ==
  LET own == [d EXCEPT !.state = State(d, p)]
      shape == own.state.attached[o]
      back == IF shape = None \/ d.world[o] # None THEN own ELSE addToObject(own, o, shape)
  IN [back EXCEPT !.state.attached[o] = None]

\* setCurrentState() with joint values: a message that is not a diff drops what is
\* attached, which no world records.  Then the objects it lists are attached, those
\* given with geometry and those to be taken from the world.  What a diff detaches is
\* Detach(); anything but objects to attach is ignored in a message that is none.
SetState(d, p, is_diff, given, taken, v) ==
  LET attaches == given \cup {o \in taken : d.world[o] # None}
      kept == IF is_diff THEN State(d, p).attached ELSE Nothing
  IN [d EXCEPT !.state = [own |-> TRUE, joints |-> v,
                          attached |-> [o \in Objects |-> IF o \in given THEN v
                                                         ELSE IF o \in attaches THEN d.world[o]
                                                         ELSE kept[o]]],
               !.world = [o \in Objects |-> IF o \in attaches THEN None ELSE d.world[o]],
               !.changes = [o \in Objects |->
                              IF o \in attaches /\ d.world[o] # None THEN "DESTROY"
                              ELSE d.changes[o]]]

SetColor(d, o, v) == [d EXCEPT !.colors[o] = v]
SetMatrix(d, v) == [d EXCEPT !.acm = v]

-----------------------------------------------------------------------------
(* Diff messages.                                                          *)

\* A faulty variant: a detached object is not declared as such.
getPlanningSceneDiffMsg_NoDetach(d, p) ==
  LET removed == {o \in Objects : d.changes[o] = "DESTROY" /\ d.state.attached[o] = None}
      changed == {o \in Objects : d.changes[o] = "CHANGE"}
  IN [joints |-> d.state.joints, attached |-> d.state.attached, detached |-> {},
      removed |-> removed,
      changed |-> [o \in Objects |-> IF o \in changed THEN d.world[o] ELSE None],
      colors |-> d.colors, acm |-> d.acm]

\* getPlanningSceneDiffMsg(): an object that became attached is not removed,
\* and what is in the world but attached in the parent is detached first.
getPlanningSceneDiffMsg(d, p) ==
  LET removed == {o \in Objects : d.changes[o] = "DESTROY" /\ d.state.attached[o] = None}
      changed == {o \in Objects : d.changes[o] = "CHANGE"}
  IN [joints |-> d.state.joints, attached |-> d.state.attached,
      detached |-> {o \in removed \cup changed : p.attached[o] # None},
      removed |-> removed,
      changed |-> [o \in Objects |-> IF o \in changed THEN d.world[o] ELSE None],
      colors |-> d.colors, acm |-> d.acm]

\* The old value where the new one says nothing.
Override(old, new) == [o \in Objects |-> IF new[o] # None THEN new[o] ELSE old[o]]

\* setPlanningSceneDiffMsg() on a complete scene, in its order: the state with
\* the objects to attach and to detach, the colours, the objects of the world.
setPlanningSceneDiffMsg(s, m) ==
  LET attached == Override(s.attached, m.attached)
      world1 == [o \in Objects |-> IF m.attached[o] # None THEN None ELSE s.world[o]]
      world2 == [o \in Objects |->
                   IF o \in m.detached /\ world1[o] = None THEN attached[o] ELSE world1[o]]
      world3 == Override(world2, m.changed)
  IN [joints |-> IF m.joints # None THEN m.joints ELSE s.joints,
      attached |-> [o \in Objects |-> IF o \in m.detached THEN None ELSE attached[o]],
      world |-> [o \in Objects |-> IF o \in m.removed THEN None ELSE world3[o]],
      colors |-> [o \in Objects |-> IF o \in m.removed /\ world3[o] # None THEN None
                                    ELSE Override(s.colors, m.colors)[o]],
      acm |-> IF m.acm # None THEN m.acm ELSE s.acm]

\* pushDiffs(): the colours of attached objects are pushed before what was
\* removed from the world loses its colour; those of objects that are neither
\* attached nor changed are not pushed.
pushDiffs(d, p) ==
  [joints |-> State(d, p).joints, attached |-> State(d, p).attached,
   world |-> [o \in Objects |->
                CASE d.changes[o] = "NONE"    -> p.world[o]
                  [] d.changes[o] = "DESTROY" -> None
                  [] d.changes[o] = "CHANGE"  -> d.world[o]],
   colors |-> [o \in Objects |->
                 IF d.changes[o] = "DESTROY" THEN None
                 ELSE IF d.changes[o] = "CHANGE" \/ d.state.attached[o] # None
                 THEN Color(d, p, o) ELSE p.colors[o]],
   acm |-> IF d.acm # None THEN d.acm ELSE p.acm]
================================================================================
