-------------------------------- MODULE SceneDiff --------------------------------
(***************************************************************************)
(* A maintained scene in one process and its replica in another: the       *)
(* maintained one counts diffs against its parent (monitorDiffs()), every  *)
(* publication sends its differences and pushes them into the parent (the  *)
(* part of scenePublishingThread() under scene_update_mutex_).  Any        *)
(* sequence of scene messages may be applied in between.                   *)
(***************************************************************************)
EXTENDS PlanningScene

CONSTANT MaxEdits   \* bound: operations on the scene

ASSUME SceneDiffAssumption == MaxEdits \in Nat

VARIABLES
  parent_scene_,
  scene_,
  replica,   \* the scene of a subscriber, which has no parent
  edits,     \* operations so far; also what the next one puts into the scene
  clash,     \* history: an id named both an attached object and one in the world
  dropped    \* history: objects that a robot state dropped from the robot, until they
             \* are attached again or a message tells of them

vars == <<parent_scene_, scene_, replica, edits, clash, dropped>>

Values == 1 .. MaxEdits

Init ==
  /\ parent_scene_ = [joints |-> None, attached |-> Nothing, world |-> Nothing,
                      colors |-> Nothing, acm |-> None]
  /\ scene_ = clearDiffs(parent_scene_)
  /\ replica = parent_scene_
  /\ edits = 0
  /\ clash = FALSE
  /\ dropped = {}

\* What the maintained scene shows, as a complete scene.
Shown == decoupleParent(scene_, parent_scene_)

Clashing(s) == \E o \in Objects : s.world[o] # None /\ s.attached[o] # None

-----------------------------------------------------------------------------
\* One operation on the maintained scene, which drops the objects in lost.
EditDropping(s, lost) ==
  /\ edits < MaxEdits
  /\ edits' = edits + 1
  /\ scene_' = s
  /\ dropped' = dropped \cup lost
  /\ clash' = (clash \/ Clashing(decoupleParent(s, parent_scene_)))
  /\ UNCHANGED <<parent_scene_, replica>>

Edit(s) == EditDropping(s, {})

EditWorld ==
  \/ \E o \in Objects :
       \/ Edit(AddObject(scene_, o, edits + 1))
       \/ Edit(MoveObject(scene_, o, edits + 1))
       \/ Edit(RemoveObject(scene_, o))
  \/ Edit(RemoveAll(scene_))
  \/ \E listed \in SUBSET Objects :
       Edit(ReplaceWorld(scene_,
                         [o \in Objects |-> IF o \in listed THEN edits + 1 ELSE None]))

\* What is attached to the maintained scene but not to s.
Lost(s) ==
  {o \in Objects : State(scene_, parent_scene_).attached[o] # None /\ s.state.attached[o] = None}

EditState ==
  \/ \E is_diff \in BOOLEAN, given \in SUBSET Objects, taken \in SUBSET Objects :
       LET s == SetState(scene_, parent_scene_, is_diff, given, taken, edits + 1)
       IN  EditDropping(s, IF is_diff THEN {} ELSE Lost(s))
  \/ \E o \in Objects :
       \/ \E v \in {None, edits + 1} : Edit(Attach(scene_, parent_scene_, o, v))
       \/ Edit(Detach(scene_, parent_scene_, o))

EditSettings ==
  \/ \E o \in Objects : Edit(SetColor(scene_, o, edits + 1))
  \/ Edit(SetMatrix(scene_, edits + 1))

\* A faulty variant: the diffs are cleared but not pushed.
Publish_NoPush ==
  /\ replica' = setPlanningSceneDiffMsg(replica, getPlanningSceneDiffMsg(scene_, parent_scene_))
  /\ parent_scene_' = parent_scene_
  /\ scene_' = clearDiffs(parent_scene_')
  /\ UNCHANGED <<edits, clash, dropped>>

\* scenePublishingThread() lines 378-393, and the subscriber's application of
\* the message.
Publish ==
  LET m == getPlanningSceneDiffMsg(scene_, parent_scene_)
  IN /\ replica' = setPlanningSceneDiffMsg(replica, m)
     /\ parent_scene_' = pushDiffs(scene_, parent_scene_)
     /\ scene_' = clearDiffs(parent_scene_')
     /\ dropped' = {o \in dropped \ m.detached : m.attached[o] = None}
     /\ UNCHANGED <<edits, clash>>

\* monitorDiffs(false) and monitorDiffs(true).
Recouple ==
  /\ parent_scene_' = Shown
  /\ scene_' = clearDiffs(parent_scene_')
  /\ replica' = Shown
  /\ dropped' = {}
  /\ UNCHANGED <<edits, clash>>

Next == EditWorld \/ EditState \/ EditSettings \/ Publish \/ Recouple

Spec == Init /\ [][Next]_vars

-----------------------------------------------------------------------------
TypeOK ==
  /\ parent_scene_ \in Scenes(Values)
  /\ scene_ \in DiffScenes(Values)
  /\ replica \in Scenes(Values)
  /\ edits \in 0 .. MaxEdits
  /\ clash \in BOOLEAN
  /\ dropped \subseteq Objects

\* Two complete scenes agree on all but the colours.
Agree(s, t) ==
  /\ s.joints = t.joints /\ s.attached = t.attached
  /\ s.world = t.world /\ s.acm = t.acm

\* Nothing in the world of a diff scene changes without a record in its
\* WorldDiff, and the record says whether the object is there.
ChangesAreRecorded ==
  \A o \in Objects :
    /\ scene_.changes[o] = "NONE" => scene_.world[o] = parent_scene_.world[o]
    /\ scene_.changes[o] = "DESTROY" => scene_.world[o] = None
    /\ scene_.changes[o] = "CHANGE" => scene_.world[o] # None

\* Publishing moves the diffs into the parent and changes nothing that the
\* maintained scene shows (colours apart).
PublishingKeepsScene == [][edits' = edits => Agree(Shown', Shown)]_vars

\* The same but for attached objects of out.
AgreeBut(s, t, out) ==
  /\ s.joints = t.joints /\ s.world = t.world /\ s.acm = t.acm
  /\ \A o \in Objects \ out : s.attached[o] = t.attached[o]

\* The subscriber's scene is the one the diffs were pushed into, whatever was
\* added, moved, removed, attached and detached in between, as long as no id
\* named an attached object and one of the world at once: all it may have on top
\* is attached to its robot and was dropped by a robot state that is not a diff.
ReplicaFollows == clash \/ AgreeBut(replica, parent_scene_, dropped)

\* The comment in pushDiffs() (line 416) and a test say that an attached object
\* keeps its colour.
AttachedKeepsColor ==
  [][edits' = edits =>
       \A o \in Objects : Shown.attached[o] # None => Shown'.colors[o] = Shown.colors[o]]_vars
================================================================================
