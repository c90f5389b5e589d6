---------------------------- MODULE ScenePublishing ----------------------------
(***************************************************************************)
(* The maintained scene of PlanningSceneMonitor and its publication: any   *)
(* number of callbacks change the scene under scene_update_mutex_ and then *)
(* announce the type of the change; one thread waits for announcements and *)
(* publishes the scene or its diffs; a client starts and stops it.         *)
(*                                                                         *)
(* The publishing thread holds scene_update_mutex_ from its test of        *)
(* new_scene_update_ to its reset, except while it waits; announcing and   *)
(* stopping do not take that mutex.  The subscriber applies each message   *)
(* when it is published: the topic is reliable and in order.               *)
(***************************************************************************)
EXTENDS PlanningScene

CONSTANTS
  Callers,         \* threads whose callbacks change the scene
  PublishChoices,  \* update types that clients start the publishing with
  RobotStates,     \* robot states that scene messages carry
  MaxEdits,        \* bound: changes of the scene
  MaxStarts,       \* bound: starts of the publishing
  NoScene

Values == 1 .. MaxEdits

\* UPDATE_SCENE is all the bits.
UpdateTypes == {"STATE", "TRANSFORMS", "GEOMETRY", "OTHER"}
UPDATE_SCENE == UpdateTypes

\* The messages getPlanningSceneDiffMsg() makes.
DiffMessages ==
  [joints : Values \cup {None}, attached : Objs(Values), detached : SUBSET Objects,
   removed : SUBSET Objects, changed : Objs(Values), colors : Objs(Values),
   acm : Values \cup {None}]

ASSUME ScenePublishingAssumption ==
  /\ MaxEdits \in Nat /\ MaxStarts \in Nat
  /\ NoScene \notin Scenes(Values) \cup DiffMessages
  /\ PublishChoices \subseteq SUBSET UPDATE_SCENE
  /\ RobotStates \subseteq [is_diff : BOOLEAN, given : SUBSET Objects, taken : SUBSET Objects]

VARIABLES
  parent_scene_,            \* NoScene while no diffs are monitored
  scene_,                   \* a diff scene if there is a parent, else a complete one
  new_scene_update_,        \* bits of SceneUpdateType
  publish_update_types_,
  publish_planning_scene_,  \* whether the pointer to the thread is set
  publisher,                \* scenePublishingThread()
  callers,                  \* what each callback has still to announce
  client,                   \* startPublishingPlanningScene(), stopPublishingPlanningScene()
  subscriber,               \* the scene of a subscriber
  expected,                 \* history: every change, applied in order to one scene
  ghost,                    \* history: a scene that did not show the last full message
                            \*   was changed or decoupled
  diverged,                 \* history: the subscriber is left behind until the next full
                            \*   scene, an id named an attached object and one of the
                            \*   world, or a robot state dropped an attached object
  missed,                   \* history: a notification came between test and wait
  edits, starts

scenes == <<parent_scene_, scene_, expected, ghost>>
history == <<diverged, missed>>
vars == <<scenes, history, new_scene_update_, publish_update_types_, publish_planning_scene_,
          publisher, callers, client, subscriber, edits, starts>>

Empty == [joints |-> None, attached |-> Nothing, world |-> Nothing, colors |-> Nothing,
          acm |-> None]

Idle == [pc |-> "idle", types |-> {}, seen |-> {}]

Init ==
  /\ parent_scene_ = NoScene /\ scene_ = Empty /\ expected = Empty /\ ghost = FALSE
  /\ new_scene_update_ = {}
  /\ publish_update_types_ \in PublishChoices
  /\ publish_planning_scene_ = FALSE
  /\ publisher = [pc |-> "off", types |-> {}, msg |-> NoScene]
  /\ callers = [c \in Callers |-> Idle]
  /\ client = "idle"
  /\ subscriber = Empty
  /\ diverged = FALSE /\ missed = FALSE
  /\ edits = 0 /\ starts = 0

-----------------------------------------------------------------------------
Monitored == parent_scene_ # NoScene

\* What the maintained scene shows.
Shown == IF Monitored THEN decoupleParent(scene_, parent_scene_) ELSE scene_

\* The world of the maintained scene is not the parent's though nothing says so.
Stale ==
  /\ Monitored
  /\ \E o \in Objects : /\ scene_.changes[o] = "NONE"
                        /\ scene_.world[o] # parent_scene_.world[o]

Clashing(s) == \E o \in Objects : s.world[o] # None /\ s.attached[o] # None

\* The publisher holds scene_update_mutex_.
Locked == publisher.pc \in {"tested", "composed"}

\* What is published: types selected by the client, or a full scene.
Wanted(types) == types \cap publish_update_types_ # {} \/ types = UPDATE_SCENE

-----------------------------------------------------------------------------
(* Changes of the scene.                                                   *)

Changes ==
  [op : {"add", "move", "remove", "attach", "grasp", "detach"}, o : Objects]
    \cup [op : {"matrix", "transforms"}]
    \cup [op : {"state"}, msg : RobotStates]
    \cup [op : {"world"}, listed : SUBSET Objects]

\* A change of a diff scene d with the parent p; v is what is new.
Changed(k, d, p, v) ==
  CASE k.op = "add"        -> AddObject(d, k.o, v)
    [] k.op = "move"       -> MoveObject(d, k.o, v)
    [] k.op = "remove"     -> RemoveObject(d, k.o)
    [] k.op = "attach"     -> Attach(d, p, k.o, v)
    [] k.op = "grasp"      -> Attach(d, p, k.o, None)
    [] k.op = "detach"     -> Detach(d, p, k.o)
    [] k.op = "state"      -> SetState(d, p, k.msg.is_diff, k.msg.given, k.msg.taken, v)
    [] k.op = "matrix"     -> SetMatrix(d, v)
    [] k.op = "world"      ->
         ReplaceWorld(d, [o \in Objects |-> IF o \in k.listed THEN v ELSE None])
    [] k.op = "transforms" -> d

\* The same change of a complete scene.
ChangedPlain(k, s, v) == decoupleParent(Changed(k, clearDiffs(s), s, v), s)

\* What the callbacks announce: collisionObjectCallback(), attachObjectCallback(),
\* newPlanningSceneMessage() with a diff, newPlanningSceneWorldCallback(), the
\* state updates and updateFrameTransforms().
Announced(k) ==
  CASE k.op \in {"add", "move", "remove"}      -> {{"GEOMETRY"}}
    [] k.op \in {"attach", "grasp", "detach"}  -> {{"GEOMETRY"}, {"STATE", "GEOMETRY"}}
    [] k.op = "state"                          ->
         IF k.msg.is_diff /\ k.msg.given \cup k.msg.taken = {} THEN {{"STATE"}}
         ELSE {{"STATE", "GEOMETRY"}}
    [] k.op = "transforms"                     -> {{"TRANSFORMS"}}
    [] k.op \in {"matrix", "world"}            -> {UPDATE_SCENE}

\* A robot state drops an object that the parent has attached, too: it makes s of the
\* diff scene.
Drops(k, s) ==
  /\ Monitored /\ k.op = "state"
  /\ \E o \in Objects : /\ parent_scene_.attached[o] # None /\ Shown.attached[o] # None
                        /\ s.state.attached[o] = None

\* An object that is neither shown nor expected: collisionObjectCallback()
\* returns before it announces anything.
Refused(k) ==
  k.op \in {"move", "remove"} /\ Shown.world[k.o] = None

Announce(c, types) ==
  callers' = [callers EXCEPT ![c] = [pc |-> "announce", types |-> types, seen |-> {}]]

\* A callback changes the scene.
ChangeScene(c) ==
  /\ callers[c].pc = "idle" /\ ~Locked /\ edits < MaxEdits
  /\ edits' = edits + 1
  /\ ghost' = (ghost \/ Stale)
  /\ UNCHANGED <<parent_scene_, missed, new_scene_update_, publish_update_types_,
                 publish_planning_scene_, publisher, client, subscriber, starts>>
  /\ \E k \in Changes :
       /\ IF Refused(k)
          THEN expected.world[k.o] # None /\ UNCHANGED callers
          ELSE \E types \in Announced(k) : Announce(c, types)
       /\ scene_' = IF Monitored THEN Changed(k, scene_, parent_scene_, edits')
                    ELSE ChangedPlain(k, scene_, edits')
       /\ expected' = ChangedPlain(k, expected, edits')
       /\ diverged' = (diverged \/ Clashing(Shown') \/ Drops(k, scene_'))

\* newPlanningSceneMessage() with a complete scene: what is maintained becomes
\* cleared if there is a parent, which then gets the scene.
SetSceneAs(c, cleared, types) ==
  /\ callers[c].pc = "idle" /\ ~Locked /\ edits < MaxEdits
  /\ edits' = edits + 1
  /\ \E full \in [joints : {edits'}, acm : {edits'}, colors : {Nothing},
                  world : [Objects -> {None, edits'}], attached : [Objects -> {None, edits'}]] :
       /\ ~Clashing(full)
       /\ expected' = full
       /\ IF Monitored THEN parent_scene_' = full /\ scene_' = cleared
          ELSE scene_' = full /\ UNCHANGED parent_scene_
  /\ ghost' = FALSE
  /\ Announce(c, types)
  /\ UNCHANGED <<history, new_scene_update_, publish_update_types_,
                 publish_planning_scene_, publisher, client, subscriber, starts>>

\* Faulty variants: the old diffs survive; the scene is announced as geometry.
SetScene_KeepsDiffs(c) == SetSceneAs(c, scene_, UPDATE_SCENE)
SetScene_Geometry(c) == SetSceneAs(c, clearDiffs(parent_scene_), {"GEOMETRY"})

\* The diffs are cleared, which copies the parent's world, before the parent gets
\* the scene.
SetScene(c) == SetSceneAs(c, clearDiffs(parent_scene_), UPDATE_SCENE)

-----------------------------------------------------------------------------
(* triggerSceneUpdateEvent(), under update_lock_ only.                     *)

\* notify_all(): a publisher between its test and its wait does not hear it.
Notify ==
  /\ publisher' = IF publisher.pc = "waiting" THEN [publisher EXCEPT !.pc = "top"]
                  ELSE publisher
  /\ missed' = IF publisher.pc = "waiting" THEN FALSE
               ELSE missed \/ (publisher.pc = "tested" /\ publisher.types = {})

\* new_scene_update_ is read ...
ReadUpdate(c) ==
  /\ callers[c].pc = "announce"
  /\ \A b \in Callers : callers[b].pc # "write"
  /\ callers' = [callers EXCEPT ![c].pc = "write", ![c].seen = new_scene_update_]
  /\ UNCHANGED <<scenes, history, new_scene_update_, publish_update_types_,
                 publish_planning_scene_, publisher, client, subscriber, edits, starts>>

\* A faulty variant: nobody is notified.
WriteUpdate_Silent(c) ==
  /\ callers[c].pc = "write"
  /\ new_scene_update_' = callers[c].seen \cup callers[c].types
  /\ callers' = [callers EXCEPT ![c] = Idle]
  /\ UNCHANGED <<scenes, history, publisher, publish_update_types_, publish_planning_scene_,
                 client, subscriber, edits, starts>>

\* ... and written back with the new bits.
WriteUpdate(c) ==
  /\ callers[c].pc = "write"
  /\ new_scene_update_' = callers[c].seen \cup callers[c].types
  /\ callers' = [callers EXCEPT ![c] = Idle]
  /\ Notify
  /\ UNCHANGED <<scenes, diverged, publish_update_types_, publish_planning_scene_, client,
                 subscriber, edits, starts>>

-----------------------------------------------------------------------------
(* scenePublishingThread()                                                 *)

\* The full scene, read without scene_update_mutex_.  Nothing is pushed: an
\* object attached since monitorDiffs() is sent, but not the parent's.
ComposeFirst ==
  /\ publisher.pc = "first"
  /\ publisher' = [pc |-> "send", types |-> UPDATE_SCENE, msg |-> Shown]
  /\ diverged' = (diverged \/ Shown.attached # parent_scene_.attached)
  /\ UNCHANGED <<scenes, missed, new_scene_update_, publish_update_types_,
                 publish_planning_scene_, callers, client, subscriber, edits, starts>>

\* The mutex is taken and new_scene_update_ and the pointer tested.
TestUpdate ==
  /\ publisher.pc = "top"
  /\ publisher' = [publisher EXCEPT
                     !.pc = IF new_scene_update_ = {} /\ ~publish_planning_scene_
                            THEN "loop" ELSE "tested",
                     !.types = new_scene_update_]
  /\ UNCHANGED <<scenes, history, new_scene_update_, publish_update_types_,
                 publish_planning_scene_, callers, client, subscriber, edits, starts>>

Wait ==
  /\ publisher.pc = "tested" /\ publisher.types = {}
  /\ publisher' = [publisher EXCEPT !.pc = "waiting"]
  /\ UNCHANGED <<scenes, history, new_scene_update_, publish_update_types_,
                 publish_planning_scene_, callers, client, subscriber, edits, starts>>

\* Nothing of this type is published.
SkipUpdate ==
  /\ publisher.pc = "tested" /\ publisher.types # {} /\ ~Wanted(publisher.types)
  /\ publisher' = [publisher EXCEPT !.pc = "composed", !.msg = NoScene]
  /\ UNCHANGED <<scenes, history, new_scene_update_, publish_update_types_,
                 publish_planning_scene_, callers, client, subscriber, edits, starts>>

\* The message of a pure state update has no attached objects.
StateOnly(m) == [m EXCEPT !.attached = Nothing, !.detached = {}]

\* The message is made, the diffs are pushed and cleared.
Compose ==
  /\ publisher.pc = "tested" /\ Wanted(publisher.types)
  /\ parent_scene_' = pushDiffs(scene_, parent_scene_)
  /\ scene_' = clearDiffs(parent_scene_')
  /\ LET full == publisher.types = UPDATE_SCENE
         state == new_scene_update_ = {"STATE"}
         diff == getPlanningSceneDiffMsg(scene_, parent_scene_)
     IN /\ publisher' = [publisher EXCEPT
                           !.pc = "composed",
                           !.msg = IF full THEN decoupleParent(scene_', parent_scene_')
                                   ELSE IF state THEN StateOnly(diff) ELSE diff]
        /\ diverged' = IF full THEN Clashing(parent_scene_')
                       ELSE \/ diverged \/ Clashing(parent_scene_')
                            \/ (state /\ Shown.attached # parent_scene_.attached)
  /\ UNCHANGED <<expected, ghost, missed, new_scene_update_, publish_update_types_,
                 publish_planning_scene_, callers, client, subscriber, edits, starts>>

\* new_scene_update_ is reset, whatever was announced since the test, and the
\* mutex is released.
ResetUpdate ==
  /\ publisher.pc = "composed"
  /\ new_scene_update_' = {}
  /\ publisher' = [publisher EXCEPT !.pc = IF publisher.msg = NoScene THEN "loop" ELSE "send"]
  /\ diverged' = (\/ diverged
                  \/ (publisher.msg = NoScene /\ Wanted(new_scene_update_))
                  \/ (publisher.types # UPDATE_SCENE /\ new_scene_update_ = UPDATE_SCENE))
  /\ UNCHANGED <<scenes, missed, publish_update_types_, publish_planning_scene_, callers,
                 client, subscriber, edits, starts>>

Send ==
  /\ publisher.pc = "send"
  /\ subscriber' = IF publisher.types = UPDATE_SCENE THEN publisher.msg
                   ELSE setPlanningSceneDiffMsg(subscriber, publisher.msg)
  /\ publisher' = [publisher EXCEPT !.pc = "loop", !.msg = NoScene]
  /\ UNCHANGED <<scenes, history, new_scene_update_, publish_update_types_,
                 publish_planning_scene_, callers, client, edits, starts>>

\* while (publish_planning_scene_)
Loop ==
  /\ publisher.pc = "loop"
  /\ publisher' = [pc |-> IF publish_planning_scene_ THEN "top" ELSE "off",
                   types |-> {}, msg |-> NoScene]
  /\ UNCHANGED <<scenes, history, new_scene_update_, publish_update_types_,
                 publish_planning_scene_, callers, client, subscriber, edits, starts>>

Publisher ==
  \/ ComposeFirst \/ TestUpdate \/ Wait \/ SkipUpdate \/ Compose \/ ResetUpdate \/ Send \/ Loop

-----------------------------------------------------------------------------
(* startPublishingPlanningScene() and stopPublishingPlanningScene()        *)

\* The types are set in any case; monitorDiffs(true) and the thread, which runs
\* before the pointer to it is set.
Start ==
  /\ client = "idle" /\ starts < MaxStarts
  /\ starts' = starts + 1
  /\ publish_update_types_' \in PublishChoices
  /\ UNCHANGED <<expected, ghost, missed, new_scene_update_, publish_planning_scene_, callers,
                 subscriber, edits>>
  /\ \/ /\ publish_planning_scene_
        /\ UNCHANGED <<parent_scene_, scene_, publisher, client, diverged>>
     \/ /\ ~publish_planning_scene_ /\ ~Locked
        /\ parent_scene_' = scene_
        /\ scene_' = clearDiffs(scene_)
        /\ publisher' = [pc |-> "first", types |-> {}, msg |-> NoScene]
        /\ client' = "started"
        /\ diverged' = Clashing(scene_)

SetPointer ==
  /\ client = "started"
  /\ publish_planning_scene_' = TRUE
  /\ client' = "idle"
  /\ UNCHANGED <<scenes, history, new_scene_update_, publish_update_types_, publisher, callers,
                 subscriber, edits, starts>>

\* The pointer is taken away ...
Stop ==
  /\ client = "idle" /\ publish_planning_scene_
  /\ publish_planning_scene_' = FALSE
  /\ client' = "notify"
  /\ UNCHANGED <<scenes, history, new_scene_update_, publish_update_types_, publisher, callers,
                 subscriber, edits, starts>>

\* A faulty variant: the thread is not notified.
NotifyStop_Silent ==
  /\ client = "notify"
  /\ client' = "join"
  /\ UNCHANGED <<scenes, history, publisher, new_scene_update_, publish_update_types_,
                 publish_planning_scene_, callers, subscriber, edits, starts>>

\* ... the thread notified ...
NotifyStop ==
  /\ client = "notify"
  /\ client' = "join"
  /\ Notify
  /\ UNCHANGED <<scenes, diverged, new_scene_update_, publish_update_types_,
                 publish_planning_scene_, callers, subscriber, edits, starts>>

\* ... and joined.
Join ==
  /\ client = "join" /\ publisher.pc = "off"
  /\ client' = "joined"
  /\ missed' = FALSE
  /\ UNCHANGED <<scenes, diverged, new_scene_update_, publish_update_types_,
                 publish_planning_scene_, publisher, callers, subscriber, edits, starts>>

\* monitorDiffs(false): the maintained scene becomes a complete one.
Decouple ==
  /\ client = "joined"
  /\ client' = "idle"
  /\ scene_' = Shown
  /\ parent_scene_' = NoScene
  /\ ghost' = (ghost \/ Stale)
  /\ UNCHANGED <<expected, history, new_scene_update_, publish_update_types_,
                 publish_planning_scene_, publisher, callers, subscriber, edits, starts>>

-----------------------------------------------------------------------------
Next ==
  \/ \E c \in Callers : ChangeScene(c) \/ SetScene(c) \/ ReadUpdate(c) \/ WriteUpdate(c)
  \/ Publisher
  \/ Start \/ SetPointer \/ Stop \/ NotifyStop \/ Join \/ Decouple

Spec == Init /\ [][Next]_vars

\* Threads run; nobody has to change the scene, or to start or stop publishing.
Fairness ==
  /\ \A c \in Callers : WF_vars(ReadUpdate(c)) /\ WF_vars(WriteUpdate(c))
  /\ WF_vars(Publisher)
  /\ WF_vars(SetPointer) /\ WF_vars(NotifyStop) /\ WF_vars(Join) /\ WF_vars(Decouple)

FairSpec == Spec /\ Fairness

-----------------------------------------------------------------------------
TypeOK ==
  /\ IF Monitored THEN parent_scene_ \in Scenes(Values) /\ scene_ \in DiffScenes(Values)
     ELSE scene_ \in Scenes(Values)
  /\ subscriber \in Scenes(Values) /\ expected \in Scenes(Values)
  /\ new_scene_update_ \subseteq UpdateTypes
  /\ publisher.pc \in {"off", "first", "top", "tested", "waiting", "composed", "send", "loop"}
  /\ publisher.types \subseteq UpdateTypes
  /\ publisher.msg \in Scenes(Values) \cup DiffMessages \cup {NoScene}
  /\ publisher.pc # "off" => Monitored
  /\ client \in {"idle", "started", "notify", "join", "joined"}
  /\ ghost \in BOOLEAN /\ diverged \in BOOLEAN /\ missed \in BOOLEAN

SameScene(s, t) ==
  s.joints = t.joints /\ s.attached = t.attached /\ s.world = t.world /\ s.acm = t.acm

\* A full scene is announced or about to be.
SceneOnItsWay ==
  "OTHER" \in new_scene_update_ \/ \E c \in Callers : "OTHER" \in callers[c].types

\* The maintained scene is what the messages make of one plain scene, whatever is
\* published in between.  Right after a full message it shows the old world; that
\* lasts no longer than the announcement of the message.
MaintainedIsExpected ==
  \/ ghost
  \/ SameScene(Shown, expected)
  \/ (Stale /\ (SceneOnItsWay \/ diverged))

\* Nothing is left to announce or to publish.
Quiet ==
  /\ publish_planning_scene_ /\ publisher.pc = "waiting"
  /\ new_scene_update_ = {} /\ \A c \in Callers : callers[c].pc = "idle"

\* The subscriber then has the objects of the maintained scene, unless one of the
\* races recorded in diverged left it behind.
SubscriberFollows ==
  Quiet => \/ diverged
           \/ /\ subscriber.world = Shown.world /\ subscriber.attached = Shown.attached
              /\ subscriber.acm = Shown.acm

\* What is announced while publishing is taken up, unless the publisher missed the
\* notification or ended before the pointer to it was set.
AnnouncedIsTakenUp ==
  (publish_planning_scene_ /\ Wanted(new_scene_update_)) ~>
    (~publish_planning_scene_ \/ ~Wanted(new_scene_update_) \/ missed \/ publisher.pc = "off")

\* Stopping ends, with the same exception.
StopReturns == (client = "join") ~> (client = "idle" \/ missed)
================================================================================
