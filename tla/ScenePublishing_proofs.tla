------------------------- MODULE ScenePublishing_proofs -------------------------
(***************************************************************************)
(* Proofs about ScenePublishing, for any set of objects, any number of     *)
(* callbacks and any choice of what is published: whatever is changed,     *)
(* announced, composed and sent in whatever order, the maintained scene is *)
(* what the messages make of one plain scene, and a subscriber that has    *)
(* been sent all that was announced has the maintained scene.              *)
(***************************************************************************)
EXTENDS ScenePublishing, TLAPS

-----------------------------------------------------------------------------
(* The inductive invariant, about the diff scene d, its parent p and the    *)
(* scene r of a subscriber.                                                *)

\* The publishing thread has sent its first scene.
Active == publisher.pc \notin {"off", "first"}

\* The scene of the subscriber once the message that is made has arrived.
Replica ==
  IF publisher.pc \in {"composed", "send"} /\ publisher.msg # NoScene
  THEN IF publisher.types = UPDATE_SCENE THEN publisher.msg
       ELSE setPlanningSceneDiffMsg(subscriber, publisher.msg)
  ELSE subscriber

\* The members and the history variables keep their types.
SceneTypes ==
  /\ IF Monitored THEN parent_scene_ \in Scenes(Values) /\ scene_ \in DiffScenes(Values)
     ELSE scene_ \in Scenes(Values)
  /\ subscriber \in Scenes(Values) /\ expected \in Scenes(Values)
  /\ publish_update_types_ \in PublishChoices
  /\ edits \in 0 .. MaxEdits
  /\ ghost \in BOOLEAN /\ diverged \in BOOLEAN /\ missed \in BOOLEAN

\* What the publishing thread and a callback remember, at any of their positions.
PublisherRecords ==
  [pc : {"off", "first", "top", "tested", "waiting", "composed", "send", "loop"},
   types : SUBSET UpdateTypes, msg : Scenes(Values) \cup DiffMessages \cup {NoScene}]
CallerRecords ==
  [pc : {"idle", "announce", "write"}, types : SUBSET UpdateTypes, seen : SUBSET UpdateTypes]

\* A full scene is a complete scene, everything else a diff message.
PublisherTypes ==
  /\ publisher \in PublisherRecords
  /\ publisher.pc \in {"composed", "send"} /\ publisher.msg # NoScene =>
       publisher.msg \in IF publisher.types = UPDATE_SCENE THEN Scenes(Values) ELSE DiffMessages
  /\ publisher.pc = "send" => publisher.msg # NoScene
  /\ publisher.pc = "composed" /\ publisher.msg = NoScene => publisher.types # UPDATE_SCENE

\* Who has started and who stops the publishing: the scene is monitored from the
\* first start until the thread has been joined.
Control ==
  /\ Monitored <=> ~(client = "idle" /\ ~publish_planning_scene_)
  /\ client \in {"idle", "started", "notify", "join", "joined"}
  /\ publish_planning_scene_ \in BOOLEAN
  /\ publish_planning_scene_ => client = "idle"
  /\ client = "joined" \/ ~Monitored => publisher.pc = "off"

\* Update types are announced one by one, or all the bits of UPDATE_SCENE at once.
Whole(types) == types \subseteq UpdateTypes /\ ("OTHER" \in types => types = UPDATE_SCENE)

\* One callback at a time is between reading and writing new_scene_update_, so what
\* it read is not out of date, but for a reset by the publisher, which only takes away.
Announcements ==
  /\ Whole(new_scene_update_)
  /\ callers \in [Callers -> CallerRecords]
  /\ \A c \in Callers :
       /\ Whole(callers[c].types) /\ Whole(callers[c].seen)
       /\ callers[c].pc = "idle" => callers[c].types = {}
       /\ callers[c].pc = "write" => new_scene_update_ \subseteq callers[c].seen
       /\ \A b \in Callers : callers[b].pc = "write" /\ callers[c].pc = "write" => b = c

\* A record says what is in the world, and a scene without a state of its own has
\* none of its parts.
Recorded(d) ==
  /\ \A o \in Objects : /\ d.changes[o] = "DESTROY" => d.world[o] = None
                        /\ d.changes[o] = "CHANGE" => d.world[o] # None
  /\ ~d.state.own => d.state = NoState

\* No id is both in the world and attached.
Apart(d, p) ==
  \A o \in Objects : d.world[o] = None \/ State(d, p).attached[o] = None

\* Then the message tells of every object that is attached or detached: what was
\* detached has a record in the world, and a removed object that is attached is so
\* in the scene's own state.
Tracked(d, p) ==
  /\ Apart(d, p)
  /\ \A o \in Objects : p.attached[o] # None =>
       /\ d.changes[o] = "NONE" => State(d, p).attached[o] # None
       /\ d.changes[o] = "DESTROY" /\ State(d, p).attached[o] # None => d.state.own

\* Nothing differs from the parent.
Clean(d, p) ==
  /\ \A o \in Objects : d.changes[o] = "NONE"
  /\ State(d, p).attached = p.attached /\ d.acm = None

\* What a subscriber may lack of the parent: objects and a matrix that the diff scene
\* has a record of, so that the next message tells of them.
Lag(r, d, p) ==
  /\ r.attached = p.attached
  /\ \A o \in Objects : r.world[o] = p.world[o] \/ d.changes[o] # "NONE"
  /\ r.acm = p.acm \/ d.acm # None
  /\ ~Clashing(r)

\* Clients ask for the objects of the world.
GeometryIsPublished == \A types \in PublishChoices : "GEOMETRY" \in types

\* Somebody has announced or will announce a change of the geometry.
GeometryOnItsWay ==
  "GEOMETRY" \in new_scene_update_ \/ \E c \in Callers : "GEOMETRY" \in callers[c].types

\* A diff scene that keeps the world of an earlier parent has no diffs, its parent is
\* what is expected, and a message that replaces all is on its way. Otherwise what the
\* scene shows is what is expected.
Maintained ==
  /\ Stale => SceneOnItsWay \/ diverged
  /\ ~ghost => IF Stale THEN /\ SameScene(parent_scene_, expected)
                             /\ scene_ = clearDiffs(scene_)
               ELSE SameScene(Shown, expected)

\* Between composing a message and the reset of new_scene_update_ nobody changes the
\* scene, so it has no diffs yet; and a full message is the scene the diffs were pushed into.
Composed ==
  publisher.pc = "composed" =>
    IF publisher.msg = NoScene THEN TRUE
    ELSE
    /\ scene_ = clearDiffs(parent_scene_)
    /\ diverged \/ ~Clashing(parent_scene_)
    /\ publisher.types = UPDATE_SCENE =>
         /\ Replica.world = parent_scene_.world /\ Replica.attached = parent_scene_.attached
         /\ Replica.acm = parent_scene_.acm

\* Every difference is recorded, announced, and told by the next message; nothing else
\* separates a subscriber from the parent, unless all of the scene is on its way.
Followed ==
  /\ Monitored => Recorded(scene_)
  /\ Monitored /\ GeometryIsPublished =>
       Clean(scene_, parent_scene_) \/ GeometryOnItsWay \/ diverged
  /\ Monitored => Tracked(scene_, parent_scene_) \/ SceneOnItsWay \/ diverged
  /\ Active => Lag(Replica, scene_, parent_scene_) \/ SceneOnItsWay \/ diverged

\* The inductive invariant.
IInv ==
  /\ SceneTypes /\ PublisherTypes /\ Control /\ Announcements
  /\ Maintained /\ Composed /\ Followed

-----------------------------------------------------------------------------
(* What a change does to what a scene shows.                               *)

\* The objects that a robot state attaches: those it gives and those it finds.
Attaches(k, world) == k.msg.given \cup {o \in k.msg.taken : world[o] # None}

\* The world and the attached objects, from those before.
WorldAfter(k, world, attached, v) ==
  CASE k.op = "add"                 -> [world EXCEPT ![k.o] = v]
    [] k.op = "move"                -> IF world[k.o] = None THEN world
                                       ELSE [world EXCEPT ![k.o] = v]
    [] k.op \in {"remove", "attach", "grasp"} -> [world EXCEPT ![k.o] = None]
    [] k.op = "detach"              -> IF attached[k.o] = None \/ world[k.o] # None THEN world
                                       ELSE [world EXCEPT ![k.o] = attached[k.o]]
    [] k.op = "world"               -> [o \in Objects |-> IF o \in k.listed THEN v ELSE None]
    [] k.op = "state"               -> [o \in Objects |-> IF o \in Attaches(k, world) THEN None
                                                           ELSE world[o]]
    [] k.op \in {"matrix", "transforms"} -> world

\* ... the latter also with an object the robot grasps.
AttachedAfter(k, world, attached, v) ==
  CASE k.op = "attach" -> [attached EXCEPT ![k.o] = v]
    [] k.op = "grasp"  -> IF world[k.o] = None THEN attached
                          ELSE [attached EXCEPT ![k.o] = world[k.o]]
    [] k.op = "detach" -> [attached EXCEPT ![k.o] = None]
    [] k.op = "state"  -> [o \in Objects |-> IF o \in k.msg.given THEN v
                                             ELSE IF o \in Attaches(k, world) THEN world[o]
                                             ELSE IF k.msg.is_diff THEN attached[o] ELSE None]
    [] k.op \in {"add", "move", "remove", "world", "matrix", "transforms"} -> attached

\* A change of the joints or the frames alone.
MovesOnly(k) ==
  \/ k.op = "transforms"
  \/ k.op = "state" /\ k.msg.is_diff /\ k.msg.given \cup k.msg.taken = {}

\* The records of e, which was made of d by a change.
Kept(d, e, p) ==
  /\ e \in DiffScenes(Values)
  /\ \A o \in Objects :
       \/ e.changes[o] = d.changes[o] /\ e.world[o] = d.world[o]
       \/ e.changes[o] = "CHANGE" /\ e.world[o] # None
       \/ e.changes[o] = "DESTROY" /\ e.world[o] = None /\ d.world[o] # None
  /\ d.acm # None => e.acm # None
  /\ e.state = d.state \/ e.state.own

\* What the parent has attached and e no longer, is in the world of e.
Told(d, e, p) ==
  \A o \in Objects :
    p.attached[o] # None /\ State(d, p).attached[o] # None /\ State(e, p).attached[o] = None =>
      e.changes[o] = "CHANGE" \/ d.world[o] # None

\* e shows what d showed, changed by k: the effect depends only on what was shown, not
\* on which part of it is recorded in the diff scene and which is in the parent.
Effect(k, d, e, p, v) ==
  /\ Kept(d, e, p)
  /\ IF k.op = "state" THEN e.state.own ELSE Told(d, e, p)
  /\ e.world = WorldAfter(k, d.world, State(d, p).attached, v)
  /\ State(e, p).attached = AttachedAfter(k, d.world, State(d, p).attached, v)
  /\ State(e, p).joints = IF k.op = "state" THEN v ELSE State(d, p).joints
  /\ e.acm = IF k.op = "matrix" THEN v ELSE d.acm
  /\ MovesOnly(k) => e.changes = d.changes

\* A value is something.
LEMMA ValueLemma == \A v \in Values : v # None
  BY DEF Values, None

\* The state of a diff scene is a state.
LEMMA StateLemma ==
  ASSUME NEW d \in DiffScenes(Values), NEW p \in Scenes(Values)
  PROVE  /\ State(d, p) \in [own : BOOLEAN, joints : Values \cup {None}, attached : Objs(Values)]
         /\ State(d, p).own
  BY DEF State, DiffScenes, Scenes, Objs, None

\* An object of the world is added or changed,
LEMMA AddToObjectLemma ==
  ASSUME NEW d \in DiffScenes(Values), NEW o \in Objects, NEW v \in Values, NEW e,
         e = addToObject(d, o, v)
  PROVE  /\ e \in DiffScenes(Values) /\ e.state = d.state /\ e.acm = d.acm
         /\ e.world = [d.world EXCEPT ![o] = v]
         /\ e.changes = [d.changes EXCEPT ![o] = "CHANGE"]
  BY DEF addToObject, DiffScenes, Objs, Actions, None

\* ... or removed.
LEMMA RemoveFromWorldLemma ==
  ASSUME NEW d \in DiffScenes(Values), NEW o \in Objects, NEW e, e = removeObject(d, o)
  PROVE  /\ e \in DiffScenes(Values) /\ e.state = d.state /\ e.acm = d.acm
         /\ e.world = [d.world EXCEPT ![o] = None]
         /\ e.changes = IF d.world[o] = None THEN d.changes
                        ELSE [d.changes EXCEPT ![o] = "DESTROY"]
<1>1. CASE d.world[o] = None
  BY <1>1 DEF removeObject, DiffScenes, Objs, None
<1>2. CASE d.world[o] # None
  BY <1>2 DEF removeObject, DiffScenes, Objs, Actions, None
<1> QED
  BY <1>1, <1>2

\* Operations on the world leave the state alone.
LEMMA WorldEffectLemma ==
  ASSUME NEW d \in DiffScenes(Values), NEW p \in Scenes(Values), NEW k, NEW v, NEW e,
         e \in DiffScenes(Values), e.state = d.state, e.acm = d.acm,
         k.op \in {"add", "move", "remove", "world"},
         e.world = WorldAfter(k, d.world, State(d, p).attached, v),
         \A o \in Objects :
           \/ e.changes[o] = d.changes[o] /\ e.world[o] = d.world[o]
           \/ e.changes[o] = "CHANGE" /\ e.world[o] # None
           \/ e.changes[o] = "DESTROY" /\ e.world[o] = None /\ d.world[o] # None
  PROVE  Effect(k, d, e, p, v)
<1>1. State(e, p) = State(d, p)
  BY DEF State
<1>2. Kept(d, e, p) /\ Told(d, e, p)
  BY <1>1 DEF Kept, Told
<1> QED
  BY <1>1, <1>2 DEF Effect, AttachedAfter, MovesOnly

\* A message that adds an object has its effect,
LEMMA AddEffect ==
  ASSUME NEW d \in DiffScenes(Values), NEW p \in Scenes(Values), NEW k, k.op = "add",
         k.o \in Objects, NEW v \in Values, NEW e, e = AddObject(d, k.o, v)
  PROVE  Effect(k, d, e, p, v)
<1>1. PICK r : r = removeObject(d, k.o)
  OBVIOUS
<1>2. /\ r \in DiffScenes(Values) /\ r.state = d.state /\ r.acm = d.acm
      /\ r.world = [d.world EXCEPT ![k.o] = None]
      /\ r.changes = IF d.world[k.o] = None THEN d.changes
                     ELSE [d.changes EXCEPT ![k.o] = "DESTROY"]
  BY <1>1, RemoveFromWorldLemma, SMTT(30)
<1>3. e = addToObject(r, k.o, v)
  BY <1>1 DEF AddObject
<1>4. /\ e \in DiffScenes(Values) /\ e.state = r.state /\ e.acm = r.acm
      /\ e.world = [r.world EXCEPT ![k.o] = v]
      /\ e.changes = [r.changes EXCEPT ![k.o] = "CHANGE"]
  BY <1>2, <1>3, AddToObjectLemma
<1>5. d.world \in Objs(Values) /\ d.changes \in [Objects -> Actions]
  BY DEF DiffScenes
<1>6. e.world = [d.world EXCEPT ![k.o] = v]
  BY <1>2, <1>4, <1>5 DEF Objs
<1>7. \A o \in Objects :
           \/ e.changes[o] = d.changes[o] /\ e.world[o] = d.world[o]
           \/ e.changes[o] = "CHANGE" /\ e.world[o] # None
  BY <1>2, <1>4, <1>5, <1>6, ValueLemma DEF Objs, None
<1>8. e.world = WorldAfter(k, d.world, State(d, p).attached, v)
  BY <1>6 DEF WorldAfter
<1> QED
  BY <1>2, <1>4, <1>7, <1>8, WorldEffectLemma

\* ... as has one that moves an object, if it is there,
LEMMA MoveEffect ==
  ASSUME NEW d \in DiffScenes(Values), NEW p \in Scenes(Values), NEW k, k.op = "move",
         k.o \in Objects, NEW v \in Values, NEW e, e = MoveObject(d, k.o, v)
  PROVE  Effect(k, d, e, p, v)
<1>1. CASE d.world[k.o] = None
  <2>1. e = d
    BY <1>1 DEF MoveObject
  <2>2. e.world = WorldAfter(k, d.world, State(d, p).attached, v)
    BY <1>1, <2>1 DEF WorldAfter
  <2> QED
    BY <2>1, <2>2, WorldEffectLemma
<1>2. CASE d.world[k.o] # None
  <2>1. e = addToObject(d, k.o, v)
    BY <1>2 DEF MoveObject
  <2>2. /\ e \in DiffScenes(Values) /\ e.state = d.state /\ e.acm = d.acm
        /\ e.world = [d.world EXCEPT ![k.o] = v]
        /\ e.changes = [d.changes EXCEPT ![k.o] = "CHANGE"]
    BY <2>1, AddToObjectLemma
  <2>3. \A o \in Objects :
           \/ e.changes[o] = d.changes[o] /\ e.world[o] = d.world[o]
           \/ e.changes[o] = "CHANGE" /\ e.world[o] # None
    BY <2>2, ValueLemma DEF DiffScenes, Objs, None
  <2>4. e.world = WorldAfter(k, d.world, State(d, p).attached, v)
    BY <1>2, <2>2 DEF WorldAfter
  <2> QED
    BY <2>2, <2>3, <2>4, WorldEffectLemma
<1> QED
  BY <1>1, <1>2

\* ... and one that removes it.
LEMMA RemoveEffect ==
  ASSUME NEW d \in DiffScenes(Values), NEW p \in Scenes(Values), NEW k, k.op = "remove",
         k.o \in Objects, NEW v, NEW e, e = RemoveObject(d, k.o)
  PROVE  Effect(k, d, e, p, v)
<1>0. d.world \in Objs(Values) /\ d.changes \in [Objects -> Actions]
  BY DEF DiffScenes
<1>1. CASE d.world[k.o] = None
  <2>1. e = d
    BY <1>1 DEF RemoveObject
  <2>2. e.world = [d.world EXCEPT ![k.o] = None]
    BY <1>0, <1>1, <2>1 DEF Objs
  <2>3. e.world = WorldAfter(k, d.world, State(d, p).attached, v)
    BY <2>2 DEF WorldAfter
  <2> QED
    BY <2>1, <2>3, WorldEffectLemma
<1>2. CASE d.world[k.o] # None
  <2>1. PICK r : r = removeObject(d, k.o)
    OBVIOUS
  <2>2. /\ r \in DiffScenes(Values) /\ r.state = d.state /\ r.acm = d.acm
        /\ r.world = [d.world EXCEPT ![k.o] = None]
        /\ r.changes = [d.changes EXCEPT ![k.o] = "DESTROY"]
    BY <1>2, <2>1, RemoveFromWorldLemma
  <2>3. e = [r EXCEPT !.colors[k.o] = None]
    BY <1>2, <2>1 DEF RemoveObject
  <2>4. /\ e \in DiffScenes(Values) /\ e.state = r.state /\ e.acm = r.acm
        /\ e.world = r.world /\ e.changes = r.changes
    BY <2>2, <2>3 DEF DiffScenes, Objs, None
  <2>5. \A o \in Objects :
           \/ e.changes[o] = d.changes[o] /\ e.world[o] = d.world[o]
           \/ e.changes[o] = "DESTROY" /\ e.world[o] = None /\ d.world[o] # None
    BY <1>0, <1>2, <2>2, <2>4 DEF Objs
  <2>6. e.world = WorldAfter(k, d.world, State(d, p).attached, v)
    BY <2>2, <2>4 DEF WorldAfter
  <2> QED
    BY <2>2, <2>4, <2>5, <2>6, WorldEffectLemma
<1> QED
  BY <1>1, <1>2

\* A world that replaces the world is recorded object by object,
LEMMA ReplaceWorldLemma ==
  ASSUME NEW d \in DiffScenes(Values), NEW w \in Objs(Values), NEW e, e = ReplaceWorld(d, w)
  PROVE  /\ e \in DiffScenes(Values) /\ e.state = d.state /\ e.acm = d.acm /\ e.world = w
         /\ \A o \in Objects :
              \/ e.changes[o] = d.changes[o] /\ e.world[o] = d.world[o]
              \/ e.changes[o] = "CHANGE" /\ e.world[o] # None
              \/ e.changes[o] = "DESTROY" /\ e.world[o] = None /\ d.world[o] # None
  BY DEF ReplaceWorld, DiffScenes, Objs, Actions, None

\* ... and shown.
LEMMA ReplaceEffect ==
  ASSUME NEW d \in DiffScenes(Values), NEW p \in Scenes(Values), NEW k, k.op = "world",
         NEW v \in Values, NEW e, NEW w \in Objs(Values), e = ReplaceWorld(d, w),
         w = WorldAfter(k, d.world, State(d, p).attached, v)
  PROVE  Effect(k, d, e, p, v)
  BY ReplaceWorldLemma, WorldEffectLemma

\* The matrix is set in the scene itself; fixed frames are not modelled.
LEMMA SettingsEffect ==
  ASSUME NEW d \in DiffScenes(Values), NEW p \in Scenes(Values), NEW k, NEW v \in Values, NEW e,
         \/ k.op = "matrix" /\ e = SetMatrix(d, v)
         \/ k.op = "transforms" /\ e = d
  PROVE  Effect(k, d, e, p, v)
<1>1. PICK t : t = State(d, p)
  OBVIOUS
<1>2. /\ e \in DiffScenes(Values) /\ e.world = d.world /\ e.changes = d.changes
      /\ e.state = d.state
      /\ e.acm = IF k.op = "matrix" THEN v ELSE d.acm
  BY DEF SetMatrix, DiffScenes
<1>3. State(e, p) = t
  BY <1>1, <1>2 DEF State
<1>4. Kept(d, e, p) /\ Told(d, e, p)
  <2>1. d.acm # None => e.acm # None
    BY <1>2, ValueLemma DEF None
  <2> QED
    BY <1>1, <1>2, <1>3, <2>1 DEF Kept, Told
<1>5. k.op \in {"matrix", "transforms"}
  OBVIOUS
<1>6. /\ WorldAfter(k, d.world, t.attached, v) = d.world
      /\ AttachedAfter(k, d.world, t.attached, v) = t.attached
  BY <1>5 DEF WorldAfter, AttachedAfter
<1> QED
  BY <1>1, <1>2, <1>3, <1>4, <1>5, <1>6 DEF Effect

\* A robot state takes objects from the world, with a record, and attaches them.
LEMMA StateEffect ==
  ASSUME NEW d \in DiffScenes(Values), NEW p \in Scenes(Values), NEW k, k.op = "state",
         k.msg \in [is_diff : BOOLEAN, given : SUBSET Objects, taken : SUBSET Objects],
         NEW v \in Values, NEW e,
         e = SetState(d, p, k.msg.is_diff, k.msg.given, k.msg.taken, v)
  PROVE  Effect(k, d, e, p, v)
<1>1. PICK t : t = State(d, p).attached
  OBVIOUS
<1>2. PICK given : given = k.msg.given
  OBVIOUS
<1>3. PICK attaches : attaches = Attaches(k, d.world)
  OBVIOUS
<1>4. PICK a : a = [o \in Objects |-> IF o \in given THEN v
                                      ELSE IF o \in attaches THEN d.world[o]
                                      ELSE IF k.msg.is_diff THEN t[o] ELSE None]
  OBVIOUS
<1>5. PICK w : w = [o \in Objects |-> IF o \in attaches THEN None ELSE d.world[o]]
  OBVIOUS
<1>6. PICK c : c = [o \in Objects |-> IF o \in attaches /\ d.world[o] # None THEN "DESTROY"
                                      ELSE d.changes[o]]
  OBVIOUS
<1>7. /\ \A o \in Objects : /\ t[o] \in Values \cup {None}
                            /\ d.world[o] \in Values \cup {None} /\ d.changes[o] \in Actions
  BY <1>1, StateLemma DEF DiffScenes, Objs
<1>8. /\ a \in Objs(Values) /\ w \in Objs(Values) /\ c \in [Objects -> Actions]
  <2>1. a \in Objs(Values) /\ w \in Objs(Values)
    BY <1>4, <1>5, <1>7 DEF Objs
  <2>2. c \in [Objects -> Actions]
    BY <1>6, <1>7 DEF Actions
  <2> QED
    BY <2>1, <2>2
<1>9. PICK st : st = [own |-> TRUE, joints |-> v, attached |-> a]
  OBVIOUS
<1>10. /\ st \in [own : BOOLEAN, joints : Values \cup {None}, attached : Objs(Values)]
       /\ st.own /\ st.joints = v /\ st.attached = a
  BY <1>8, <1>9
<1>11. e = [d EXCEPT !.state = st, !.world = w, !.changes = c]
  <2>1. attaches = k.msg.given \cup {o \in k.msg.taken : d.world[o] # None}
    BY <1>3, Zenon DEF Attaches
  <2>2. PICK kept : kept = IF k.msg.is_diff THEN State(d, p).attached ELSE Nothing
    OBVIOUS
  <2>3. \A o \in Objects : kept[o] = IF k.msg.is_diff THEN t[o] ELSE None
    BY <1>1, <2>2 DEF Nothing
  <2>4. a = [o \in Objects |-> IF o \in k.msg.given THEN v
                               ELSE IF o \in attaches THEN d.world[o] ELSE kept[o]]
    BY <1>2, <1>4, <2>3
  <2> QED
    BY <1>5, <1>6, <1>9, <2>1, <2>2, <2>4, Zenon DEF SetState
<1>12. /\ e \in DiffScenes(Values) /\ e.state = st /\ e.world = w /\ e.changes = c
       /\ e.acm = d.acm
  BY <1>8, <1>10, <1>11 DEF DiffScenes, None
<1>13. State(e, p) = st
  BY <1>10, <1>12 DEF State
<1>14. Kept(d, e, p)
  <2>1. ASSUME NEW o \in Objects
        PROVE  \/ e.changes[o] = d.changes[o] /\ e.world[o] = d.world[o]
               \/ e.changes[o] = "DESTROY" /\ e.world[o] = None /\ d.world[o] # None
    <3>1. e.world[o] = IF o \in attaches THEN None ELSE d.world[o]
      BY <1>5, <1>12
    <3>2. e.changes[o] = IF o \in attaches /\ d.world[o] # None THEN "DESTROY" ELSE d.changes[o]
      BY <1>6, <1>12
    <3> QED
      BY <3>1, <3>2
  <2> QED
    BY <1>10, <1>12, <2>1 DEF Kept
<1>15. e.world = WorldAfter(k, d.world, State(d, p).attached, v)
  BY <1>3, <1>5, <1>12, Zenon DEF WorldAfter
<1>16. st.attached = AttachedAfter(k, d.world, State(d, p).attached, v)
  BY <1>1, <1>2, <1>3, <1>4, <1>10 DEF AttachedAfter
<1>17. ASSUME MovesOnly(k)
       PROVE  e.changes = d.changes
  <2>1. k.msg.given \cup k.msg.taken = {}
    BY <1>17 DEF MovesOnly
  <2>2. attaches = {}
    BY <1>3, <2>1 DEF Attaches
  <2>3. d.changes \in [Objects -> Actions]
    BY DEF DiffScenes
  <2> QED
    BY <1>6, <1>12, <2>2, <2>3
<1> QED
  BY <1>10, <1>12, <1>13, <1>14, <1>15, <1>16, <1>17 DEF Effect

\* A scene that gets a state of its own shows what it showed.
LEMMA OwnLemma ==
  ASSUME NEW d \in DiffScenes(Values), NEW p \in Scenes(Values),
         NEW e, e = [d EXCEPT !.state = State(d, p)]
  PROVE  /\ e \in DiffScenes(Values) /\ e.world = d.world /\ e.changes = d.changes
         /\ e.acm = d.acm /\ e.state = State(d, p) /\ e.state.own
<1>1. /\ State(d, p) \in [own : BOOLEAN, joints : Values \cup {None}, attached : Objs(Values)]
      /\ State(d, p).own
  BY StateLemma
<1> QED
  BY <1>1 DEF DiffScenes, None

\* Attaching with geometry of its own or taken from the world.
LEMMA AttachEffect ==
  ASSUME NEW d \in DiffScenes(Values), NEW p \in Scenes(Values), NEW k, k.o \in Objects,
         NEW v \in Values, NEW e,
         \/ k.op = "attach" /\ e = Attach(d, p, k.o, v)
         \/ k.op = "grasp" /\ e = Attach(d, p, k.o, None)
  PROVE  Effect(k, d, e, p, v)
<1>1. PICK t : t = State(d, p)
  OBVIOUS
<1>2. t \in [own : BOOLEAN, joints : Values \cup {None}, attached : Objs(Values)] /\ t.own
  BY <1>1, StateLemma
<1>3. PICK own : own = [d EXCEPT !.state = t]
  OBVIOUS
<1>4. /\ own \in DiffScenes(Values) /\ own.world = d.world /\ own.changes = d.changes
      /\ own.acm = d.acm /\ own.state = t
  BY <1>1, <1>3, OwnLemma
<1>5. PICK shape : shape = IF k.op = "attach" THEN v ELSE d.world[k.o]
  OBVIOUS
<1>6. d.world \in Objs(Values) /\ d.changes \in [Objects -> Actions] /\ shape \in Values \cup {None}
  BY <1>5 DEF DiffScenes, Objs, None
<1>7. e = IF shape = None THEN own
          ELSE [removeObject(own, k.o) EXCEPT !.state.attached[k.o] = shape]
  BY <1>1, <1>3, <1>5, ValueLemma DEF Attach, None
<1>8. CASE shape = None
  <2>1. k.op = "grasp" /\ d.world[k.o] = None /\ e = own
    BY <1>5, <1>7, <1>8, ValueLemma DEF None
  <2>2. State(e, p) = t
    BY <1>2, <1>4, <2>1 DEF State
  <2>3. Kept(d, e, p) /\ Told(d, e, p)
    BY <1>1, <1>2, <1>4, <2>1, <2>2 DEF Kept, Told
  <2>4. [d.world EXCEPT ![k.o] = None] = d.world
    BY <1>6, <2>1 DEF Objs
  <2>5. /\ WorldAfter(k, d.world, t.attached, v) = d.world
        /\ AttachedAfter(k, d.world, t.attached, v) = t.attached
    BY <2>1, <2>4 DEF WorldAfter, AttachedAfter
  <2> QED
    BY <1>1, <1>4, <2>1, <2>2, <2>3, <2>5 DEF Effect, MovesOnly
<1>9. CASE shape # None
  <2>1. PICK r : r = removeObject(own, k.o)
    OBVIOUS
  <2>2. /\ r \in DiffScenes(Values) /\ r.state = t /\ r.acm = d.acm
        /\ r.world = [d.world EXCEPT ![k.o] = None]
        /\ r.changes = IF d.world[k.o] = None THEN d.changes
                       ELSE [d.changes EXCEPT ![k.o] = "DESTROY"]
    BY <1>4, <2>1, RemoveFromWorldLemma, SMTT(30)
  <2>3. e = [r EXCEPT !.state.attached[k.o] = shape]
    BY <1>7, <1>9, <2>1
  <2>4. /\ e \in DiffScenes(Values) /\ e.world = r.world /\ e.changes = r.changes
        /\ e.acm = r.acm /\ e.state.own /\ e.state.joints = t.joints
        /\ e.state.attached = [t.attached EXCEPT ![k.o] = shape]
    BY <1>2, <1>6, <2>2, <2>3 DEF DiffScenes, Objs
  <2>5. State(e, p) = e.state
    BY <2>4 DEF State
  <2>6. Kept(d, e, p) /\ Told(d, e, p)
    <3>1. \A o \in Objects :
           \/ e.changes[o] = d.changes[o] /\ e.world[o] = d.world[o]
           \/ e.changes[o] = "DESTROY" /\ e.world[o] = None /\ d.world[o] # None
      BY <1>6, <2>2, <2>4 DEF Objs
    <3>2. \A o \in Objects : t.attached[o] # None => State(e, p).attached[o] # None
      BY <1>2, <1>9, <2>4, <2>5 DEF Objs
    <3> QED
      BY <1>1, <2>2, <2>4, <3>1, <3>2 DEF Kept, Told
  <2>7. e.world = WorldAfter(k, d.world, t.attached, v)
    BY <2>2, <2>4 DEF WorldAfter
  <2>8. e.state.attached = AttachedAfter(k, d.world, t.attached, v)
    BY <1>5, <1>9, <2>4 DEF AttachedAfter
  <2> QED
    BY <1>1, <2>2, <2>4, <2>5, <2>6, <2>7, <2>8 DEF Effect, MovesOnly
<1> QED
  BY <1>8, <1>9

\* Detaching puts the object back into the world, unless its id is taken there.
LEMMA DetachEffect ==
  ASSUME NEW d \in DiffScenes(Values), NEW p \in Scenes(Values), NEW k, k.o \in Objects,
         k.op = "detach", NEW v, NEW e, e = Detach(d, p, k.o)
  PROVE  Effect(k, d, e, p, v)
<1>1. PICK t : t = State(d, p)
  OBVIOUS
<1>2. t \in [own : BOOLEAN, joints : Values \cup {None}, attached : Objs(Values)] /\ t.own
  BY <1>1, StateLemma
<1>3. PICK own : own = [d EXCEPT !.state = t]
  OBVIOUS
<1>4. /\ own \in DiffScenes(Values) /\ own.world = d.world /\ own.changes = d.changes
      /\ own.acm = d.acm /\ own.state = t
  BY <1>1, <1>3, OwnLemma
<1>5. PICK shape : shape = t.attached[k.o]
  OBVIOUS
<1>6. d.world \in Objs(Values) /\ d.changes \in [Objects -> Actions] /\ shape \in Values \cup {None}
  BY <1>2, <1>5 DEF DiffScenes, Objs, None
<1>7. PICK back : back = IF shape = None \/ d.world[k.o] # None THEN own
                         ELSE addToObject(own, k.o, shape)
  OBVIOUS
<1>8. e = [back EXCEPT !.state.attached[k.o] = None]
  BY <1>1, <1>3, <1>4, <1>5, <1>7 DEF Detach
<1>9. /\ back \in DiffScenes(Values) /\ back.state = t /\ back.acm = d.acm
      /\ back.world = WorldAfter(k, d.world, t.attached, v)
      /\ \A o \in Objects :
           \/ back.changes[o] = d.changes[o] /\ back.world[o] = d.world[o]
           \/ back.changes[o] = "CHANGE" /\ back.world[o] # None
      /\ back.changes[k.o] = "CHANGE" \/ d.world[k.o] # None \/ shape = None
  <2>1. CASE shape = None \/ d.world[k.o] # None
    BY <1>4, <1>5, <1>7, <2>1 DEF WorldAfter
  <2>2. CASE shape # None /\ d.world[k.o] = None
    <3>1. back = addToObject(own, k.o, shape) /\ shape \in Values
      BY <1>6, <1>7, <2>2 DEF None
    <3>2. /\ back \in DiffScenes(Values) /\ back.state = t /\ back.acm = d.acm
          /\ back.world = [d.world EXCEPT ![k.o] = shape]
          /\ back.changes = [d.changes EXCEPT ![k.o] = "CHANGE"]
      BY <1>4, <3>1, AddToObjectLemma
    <3>3. back.world = WorldAfter(k, d.world, t.attached, v)
      BY <1>5, <2>2, <3>2 DEF WorldAfter
    <3> QED
      BY <1>6, <2>2, <3>2, <3>3 DEF Objs
  <2> QED
    BY <2>1, <2>2
<1>10. /\ e \in DiffScenes(Values) /\ e.world = back.world /\ e.changes = back.changes
       /\ e.acm = back.acm /\ e.state.own /\ e.state.joints = t.joints
       /\ e.state.attached = [t.attached EXCEPT ![k.o] = None]
  BY <1>2, <1>8, <1>9, SMTT(30) DEF DiffScenes, Objs, None
<1>11. State(e, p) = e.state
  BY <1>10 DEF State
<1>12. Kept(d, e, p) /\ Told(d, e, p)
  <2>1. \A o \in Objects : t.attached[o] # None /\ State(e, p).attached[o] = None =>
          e.changes[o] = "CHANGE" \/ d.world[o] # None
    BY <1>2, <1>5, <1>9, <1>10, <1>11 DEF Objs
  <2> QED
    BY <1>1, <1>9, <1>10, <2>1 DEF Kept, Told
<1>13. e.state.attached = AttachedAfter(k, d.world, t.attached, v)
  BY <1>10 DEF AttachedAfter
<1> QED
  BY <1>1, <1>9, <1>10, <1>11, <1>12, <1>13 DEF Effect, MovesOnly

\* A change of a diff scene has its effect on what the scene shows.
LEMMA ChangedLemma ==
  ASSUME NEW d \in DiffScenes(Values), NEW p \in Scenes(Values), NEW k \in Changes,
         NEW v \in Values, NEW e, e = Changed(k, d, p, v)
  PROVE  Effect(k, d, e, p, v)
<1>1. k.op \in {"add", "move", "remove", "attach", "grasp", "detach"} => k.o \in Objects
  BY DEF Changes
<1>2. k.op \in {"add", "move", "remove", "attach", "grasp", "detach", "state", "matrix",
                "transforms", "world"}
  BY DEF Changes
<1>3. CASE k.op = "add"
  BY <1>1, <1>3, AddEffect DEF Changed
<1>4. CASE k.op = "move"
  BY <1>1, <1>4, MoveEffect DEF Changed
<1>5. CASE k.op = "remove"
  BY <1>1, <1>5, RemoveEffect DEF Changed
<1>6. CASE k.op = "attach"
  BY <1>1, <1>6, AttachEffect DEF Changed
<1>7. CASE k.op = "grasp"
  BY <1>1, <1>7, AttachEffect DEF Changed
<1>8. CASE k.op = "detach"
  BY <1>1, <1>8, DetachEffect DEF Changed
<1>9. CASE k.op = "world"
  <2>1. PICK w : w = [o \in Objects |-> IF o \in k.listed THEN v ELSE None]
    OBVIOUS
  <2>2. e = ReplaceWorld(d, w)
    BY <1>9, <2>1 DEF Changed
  <2>3. w \in Objs(Values)
    BY <2>1 DEF Objs, None
  <2>4. w = WorldAfter(k, d.world, State(d, p).attached, v)
    BY <1>9, <2>1 DEF WorldAfter
  <2> QED
    BY <1>9, <2>2, <2>3, <2>4, ReplaceEffect
<1>10. CASE k.op = "matrix" \/ k.op = "transforms"
  BY <1>10, SettingsEffect DEF Changed
<1>11. CASE k.op = "state"
  <2>1. k.msg \in RobotStates
    BY <1>11 DEF Changes
  <2>2. k.msg \in [is_diff : BOOLEAN, given : SUBSET Objects, taken : SUBSET Objects]
    BY <2>1, ScenePublishingAssumption
  <2>3. e = SetState(d, p, k.msg.is_diff, k.msg.given, k.msg.taken, v)
    BY <1>11 DEF Changed
  <2> QED
    BY <1>11, <2>2, <2>3, StateEffect
<1> QED
  BY <1>2, <1>3, <1>4, <1>5, <1>6, <1>7, <1>8, <1>9, <1>10, <1>11

-----------------------------------------------------------------------------
(* What follows from the effect of a change.                               *)

\* Records are kept and never taken back.
LEMMA KeptLemma ==
  ASSUME NEW d \in DiffScenes(Values), NEW p \in Scenes(Values), NEW e, Kept(d, e, p)
  PROVE  /\ Recorded(d) => Recorded(e)
         /\ \A o \in Objects : e.changes[o] = "NONE" =>
              d.changes[o] = "NONE" /\ e.world[o] = d.world[o]
         /\ Recorded(d) /\ Tracked(d, p) /\ Apart(e, p) /\ Told(d, e, p) => Tracked(e, p)
         /\ \A r : Lag(r, d, p) => Lag(r, e, p)
<1>1. ASSUME Recorded(d)
      PROVE  Recorded(e)
  BY <1>1 DEF Recorded, Kept
<1>2. \A o \in Objects : e.changes[o] = "NONE" =>
        d.changes[o] = "NONE" /\ e.world[o] = d.world[o]
  BY DEF Kept
<1>3. ASSUME Recorded(d), Tracked(d, p), Apart(e, p), Told(d, e, p), NEW o \in Objects,
             p.attached[o] # None
      PROVE  /\ e.changes[o] = "NONE" => State(e, p).attached[o] # None
             /\ e.changes[o] = "DESTROY" /\ State(e, p).attached[o] # None => e.state.own
  <2>1. ASSUME e.changes[o] = "NONE"
        PROVE  State(e, p).attached[o] # None
    <3>1. State(d, p).attached[o] # None
      BY <1>2, <1>3, <2>1 DEF Tracked
    <3>2. d.world[o] = None
      BY <1>3, <3>1 DEF Tracked, Apart
    <3> QED
      BY <1>3, <2>1, <3>1, <3>2 DEF Told
  <2>2. ASSUME e.changes[o] = "DESTROY", State(e, p).attached[o] # None, ~e.state.own
        PROVE  FALSE
    <3>1. e.state = d.state
      BY <2>2 DEF Kept
    <3>2. State(e, p) = State(d, p)
      BY <3>1 DEF State
    <3>3. d.world[o] = None
      BY <1>3, <2>2, <3>2 DEF Tracked, Apart
    <3>4. d.changes[o] = "DESTROY"
      BY <2>2, <3>3 DEF Kept
    <3> QED
      BY <1>3, <2>2, <3>1, <3>2, <3>4 DEF Tracked
  <2> QED
    BY <2>1, <2>2
<1>4. ASSUME NEW r, Lag(r, d, p)
      PROVE  Lag(r, e, p)
  <2>1. \A o \in Objects : r.world[o] = p.world[o] \/ e.changes[o] # "NONE"
    BY <1>2, <1>4 DEF Lag
  <2> QED
    BY <1>4, <2>1 DEF Lag, Kept
<1>5. ASSUME Recorded(d), Tracked(d, p), Apart(e, p), Told(d, e, p)
      PROVE  Tracked(e, p)
  BY <1>3, <1>5 DEF Tracked
<1> QED
  BY <1>1, <1>2, <1>4, <1>5

\* What a complete scene made of a diff scene has.
LEMMA DecoupledLemma ==
  ASSUME NEW d \in DiffScenes(Values), NEW p \in Scenes(Values), NEW s, s = decoupleParent(d, p)
  PROVE  /\ s \in Scenes(Values)
         /\ s.joints = State(d, p).joints /\ s.attached = State(d, p).attached
         /\ s.world = d.world
         /\ s.acm = IF d.acm # None THEN d.acm ELSE p.acm
<1>1. State(d, p) \in [own : BOOLEAN, joints : Values \cup {None}, attached : Objs(Values)]
  BY StateLemma
<1>2. [o \in Objects |-> Color(d, p, o)] \in Objs(Values)
  BY DEF Color, DiffScenes, Scenes, Objs
<1>3. PICK c : c = [o \in Objects |-> Color(d, p, o)]
  OBVIOUS
<1>4. PICK t : t = State(d, p)
  OBVIOUS
<1>5. PICK m : m = IF d.acm # None THEN d.acm ELSE p.acm
  OBVIOUS
<1>6. m \in Values \cup {None} /\ d.world \in Objs(Values)
  BY <1>5 DEF DiffScenes, Scenes, None
<1>7. s = [joints |-> t.joints, attached |-> t.attached, world |-> d.world, colors |-> c,
           acm |-> m]
  BY <1>3, <1>4, <1>5, Zenon DEF decoupleParent
<1> QED
  BY <1>1, <1>2, <1>3, <1>4, <1>5, <1>6, <1>7 DEF Scenes, None

\* The same change of two scenes that show the same is a change to the same.
LEMMA CommutesLemma ==
  ASSUME NEW k \in Changes, NEW v \in Values,
         NEW d \in DiffScenes(Values), NEW p \in Scenes(Values), NEW e, e = Changed(k, d, p, v),
         NEW c \in DiffScenes(Values), NEW q \in Scenes(Values), NEW f, f = Changed(k, c, q, v),
         SameScene(decoupleParent(d, p), decoupleParent(c, q))
  PROVE  SameScene(decoupleParent(e, p), decoupleParent(f, q))
<1>1. PICK s : s = decoupleParent(d, p)
  OBVIOUS
<1>2. PICK t : t = decoupleParent(c, q)
  OBVIOUS
<1>3. PICK se : se = decoupleParent(e, p)
  OBVIOUS
<1>4. PICK tf : tf = decoupleParent(f, q)
  OBVIOUS
<1>5. Effect(k, d, e, p, v) /\ Effect(k, c, f, q, v)
  BY ChangedLemma
<1>6. e \in DiffScenes(Values) /\ f \in DiffScenes(Values)
  BY <1>5 DEF Effect, Kept
<1>7. /\ s.joints = State(d, p).joints /\ s.attached = State(d, p).attached
      /\ s.world = d.world
      /\ s.acm = IF d.acm # None THEN d.acm ELSE p.acm
  BY <1>1, DecoupledLemma
<1>8. /\ t.joints = State(c, q).joints /\ t.attached = State(c, q).attached
      /\ t.world = c.world
      /\ t.acm = IF c.acm # None THEN c.acm ELSE q.acm
  BY <1>2, DecoupledLemma
<1>9. /\ se.joints = State(e, p).joints /\ se.attached = State(e, p).attached
      /\ se.world = e.world
      /\ se.acm = IF e.acm # None THEN e.acm ELSE p.acm
  BY <1>3, <1>6, DecoupledLemma
<1>10. /\ tf.joints = State(f, q).joints /\ tf.attached = State(f, q).attached
       /\ tf.world = f.world
       /\ tf.acm = IF f.acm # None THEN f.acm ELSE q.acm
  BY <1>4, <1>6, DecoupledLemma
<1>11. SameScene(s, t)
  BY <1>1, <1>2
<1>12. d.world = c.world /\ State(d, p).attached = State(c, q).attached
  BY <1>7, <1>8, <1>11 DEF SameScene
<1>13. se.world = tf.world /\ se.attached = tf.attached
  BY <1>5, <1>9, <1>10, <1>12 DEF Effect
<1>14. se.joints = tf.joints
  BY <1>5, <1>7, <1>8, <1>9, <1>10, <1>11 DEF Effect, SameScene
<1>15. se.acm = tf.acm
  BY <1>5, <1>7, <1>8, <1>9, <1>10, <1>11, ValueLemma DEF Effect, SameScene, None
<1> QED
  BY <1>3, <1>4, <1>13, <1>14, <1>15 DEF SameScene

\* A scene whose diffs were just cleared shows its parent.
LEMMA ClearedLemma ==
  ASSUME NEW p \in Scenes(Values), NEW d, d = clearDiffs(p)
  PROVE  /\ d \in DiffScenes(Values) /\ Recorded(d)
         /\ d.world = p.world /\ d.acm = None /\ \A o \in Objects : d.changes[o] = "NONE"
         /\ State(d, p).joints = p.joints /\ State(d, p).attached = p.attached
         /\ clearDiffs(d) = d
         /\ SameScene(decoupleParent(d, p), p)
         /\ ~Clashing(p) => Tracked(d, p)
         /\ Clean(d, p)
<1>1. d.state = NoState /\ ~NoState.own
  BY DEF clearDiffs, NoState
<1>2. State(d, p).joints = p.joints /\ State(d, p).attached = p.attached
  BY <1>1 DEF State
<1>3. /\ d.world = p.world /\ d.acm = None /\ \A o \in Objects : d.changes[o] = "NONE"
      /\ clearDiffs(d) = d
  BY DEF clearDiffs
<1>4. d \in DiffScenes(Values)
  BY DEF clearDiffs, Scenes, DiffScenes, Objs, Actions, NoState, Nothing, None
<1>5. Recorded(d)
  BY <1>1, <1>3 DEF Recorded
<1>6. Clean(d, p)
  BY <1>2, <1>3 DEF Clean
<1>7. SameScene(decoupleParent(d, p), p)
  BY <1>2, <1>3, <1>4, DecoupledLemma DEF SameScene
<1>8. ~Clashing(p) => Tracked(d, p)
  BY <1>2, <1>3 DEF Clashing, Tracked, Apart
<1> QED
  BY <1>1, <1>2, <1>3, <1>4, <1>5, <1>6, <1>7, <1>8

-----------------------------------------------------------------------------
(* Publishing.                                                             *)

\* Nothing of the world differs from the parent's without a record.
Faithful(d, p) == \A o \in Objects : d.changes[o] = "NONE" => d.world[o] = p.world[o]

\* A stale scene is one whose world differs from the parent's without a record.
LEMMA FaithfulLemma ==
  ASSUME Monitored
  PROVE  Stale <=> ~Faithful(scene_, parent_scene_)
  BY DEF Stale, Faithful

\* What pushDiffs() makes of the parent is a complete scene,
LEMMA PushedLemma ==
  ASSUME NEW d \in DiffScenes(Values), NEW p \in Scenes(Values), NEW s, s = pushDiffs(d, p)
  PROVE  /\ s \in Scenes(Values)
         /\ s.joints = State(d, p).joints /\ s.attached = State(d, p).attached
         /\ \A o \in Objects : /\ d.changes[o] = "NONE" => s.world[o] = p.world[o]
                               /\ d.changes[o] = "DESTROY" => s.world[o] = None
                               /\ d.changes[o] = "CHANGE" => s.world[o] = d.world[o]
         /\ s.acm = IF d.acm # None THEN d.acm ELSE p.acm
<1>1. PICK w : w = [o \in Objects |-> CASE d.changes[o] = "NONE"    -> p.world[o]
                                        [] d.changes[o] = "DESTROY" -> None
                                        [] d.changes[o] = "CHANGE"  -> d.world[o]]
  OBVIOUS
<1>2. PICK c : c = [o \in Objects |->
                      IF d.changes[o] = "DESTROY" THEN None
                      ELSE IF d.changes[o] = "CHANGE" \/ d.state.attached[o] # None
                      THEN Color(d, p, o) ELSE p.colors[o]]
  OBVIOUS
<1>3. PICK t : t = State(d, p)
  OBVIOUS
<1>4. PICK m : m = IF d.acm # None THEN d.acm ELSE p.acm
  OBVIOUS
<1>5. t \in [own : BOOLEAN, joints : Values \cup {None}, attached : Objs(Values)]
  BY <1>3, StateLemma
<1>6. w \in Objs(Values)
  <2>1. ASSUME NEW o \in Objects
        PROVE  w[o] \in Values \cup {None}
    <3>1. /\ d.changes[o] \in Actions
          /\ p.world[o] \in Values \cup {None} /\ d.world[o] \in Values \cup {None}
      BY DEF DiffScenes, Scenes, Objs
    <3> QED
      BY <1>1, <3>1 DEF Actions
  <2> QED
    BY <1>1, <2>1 DEF Objs
<1>7. c \in Objs(Values)
  <2>1. ASSUME NEW o \in Objects
        PROVE  c[o] \in Values \cup {None}
    BY <1>2 DEF Color, DiffScenes, Scenes, Objs, None
  <2> QED
    BY <1>2, <2>1 DEF Objs
<1>8. m \in Values \cup {None}
  BY <1>4 DEF DiffScenes, Scenes, None
<1>9. s = [joints |-> t.joints, attached |-> t.attached, world |-> w, colors |-> c, acm |-> m]
  BY <1>1, <1>2, <1>3, <1>4, Zenon DEF pushDiffs
<1>10. s \in Scenes(Values)
  BY <1>5, <1>6, <1>7, <1>8, <1>9 DEF Scenes, None
<1>11. s.joints = t.joints /\ s.attached = t.attached /\ s.world = w /\ s.acm = m
  BY <1>9
<1>12. \A o \in Objects : /\ d.changes[o] = "NONE" => w[o] = p.world[o]
                          /\ d.changes[o] = "DESTROY" => w[o] = None
                          /\ d.changes[o] = "CHANGE" => w[o] = d.world[o]
  BY <1>1
<1> QED
  BY <1>3, <1>4, <1>10, <1>11, <1>12, Zenon

\* ... which shows what the diff scene shows, if the records are complete.
LEMMA PushKeepsLemma ==
  ASSUME NEW d \in DiffScenes(Values), NEW p \in Scenes(Values), NEW s, s = pushDiffs(d, p),
         Recorded(d), Faithful(d, p)
  PROVE  /\ s.world = d.world
         /\ SameScene(s, decoupleParent(d, p))
<1>1. s \in Scenes(Values)
  BY PushedLemma
<1>2. ASSUME NEW o \in Objects
      PROVE  s.world[o] = d.world[o]
  <2>1. d.changes[o] \in Actions
    BY DEF DiffScenes
  <2> QED
    BY <2>1, PushedLemma DEF Faithful, Recorded, Actions
<1>3. s.world = d.world
  <2>1. s.world \in Objs(Values) /\ d.world \in Objs(Values)
    BY <1>1 DEF Scenes, DiffScenes, None
  <2> QED
    BY <1>2, <2>1 DEF Objs
<1>4. PICK t : t = decoupleParent(d, p)
  OBVIOUS
<1>5. /\ t.joints = State(d, p).joints /\ t.attached = State(d, p).attached
      /\ t.world = d.world
      /\ t.acm = IF d.acm # None THEN d.acm ELSE p.acm
  BY <1>4, DecoupledLemma
<1>6. /\ s.joints = State(d, p).joints /\ s.attached = State(d, p).attached
      /\ s.acm = IF d.acm # None THEN d.acm ELSE p.acm
  BY PushedLemma
<1> QED
  BY <1>3, <1>4, <1>5, <1>6 DEF SameScene

\* Pushing no diffs changes nothing.
LEMMA PushNothingLemma ==
  ASSUME NEW d \in DiffScenes(Values), NEW p \in Scenes(Values), NEW s, s = pushDiffs(d, p),
         d = clearDiffs(d)
  PROVE  SameScene(s, p)
<1>1. /\ \A o \in Objects : d.changes[o] = "NONE"
      /\ d.state = NoState /\ d.acm = None
  <2>1. PICK c : c = clearDiffs(d)
    OBVIOUS
  <2>2. (\A o \in Objects : c.changes[o] = "NONE") /\ c.state = NoState /\ c.acm = None
    BY <2>1 DEF clearDiffs
  <2> QED
    BY <2>1, <2>2
<1>2. State(d, p).joints = p.joints /\ State(d, p).attached = p.attached
  BY <1>1 DEF State, NoState
<1>3. s \in Scenes(Values)
  BY PushedLemma
<1>4. s.world = p.world
  <2>1. \A o \in Objects : s.world[o] = p.world[o]
    <3>1. \A o \in Objects : d.changes[o] = "NONE" => s.world[o] = p.world[o]
      BY PushedLemma
    <3> QED
      BY <1>1, <3>1
  <2>2. s.world \in Objs(Values) /\ p.world \in Objs(Values)
    BY <1>3 DEF Scenes, None
  <2> QED
    BY <2>1, <2>2 DEF Objs
<1> QED
  BY <1>1, <1>2, <1>4, PushedLemma DEF SameScene

\* The message does to a scene that lags behind the parent by recorded changes what
\* pushDiffs() does to the parent.
LEMMA PublishLemma ==
  ASSUME NEW d \in DiffScenes(Values), NEW p \in Scenes(Values), NEW r,
         Recorded(d), Faithful(d, p), Tracked(d, p), Lag(r, d, p),
         NEW m, m = getPlanningSceneDiffMsg(d, p),
         NEW s, s = setPlanningSceneDiffMsg(r, m)
  PROVE  /\ s.attached = State(d, p).attached /\ s.world = d.world
         /\ s.acm = IF d.acm # None THEN d.acm ELSE p.acm
<1>1. /\ m.joints = d.state.joints /\ m.attached = d.state.attached /\ m.acm = d.acm
      /\ m.removed = {o \in Objects : d.changes[o] = "DESTROY" /\ d.state.attached[o] = None}
      /\ \A o \in Objects :
           /\ o \in m.detached <=> /\ p.attached[o] # None
                                   /\ \/ o \in m.removed
                                      \/ d.changes[o] = "CHANGE"
           /\ m.changed[o] = IF d.changes[o] = "CHANGE" THEN d.world[o] ELSE None
  BY DEF getPlanningSceneDiffMsg
<1>2. PICK t : t = State(d, p)
  OBVIOUS
<1>3. /\ t = IF d.state.own THEN d.state
             ELSE [own |-> TRUE, joints |-> p.joints, attached |-> p.attached]
      /\ t.attached \in Objs(Values)
      /\ \A o \in Objects : d.world[o] = None \/ t.attached[o] = None
      /\ \A o \in Objects : p.attached[o] # None =>
           /\ d.changes[o] = "NONE" => t.attached[o] # None
           /\ d.changes[o] = "DESTROY" /\ t.attached[o] # None => d.state.own
  BY <1>2, StateLemma DEF Tracked, Apart, State
<1>4. \A o \in Objects : d.state.attached[o] # None => d.state.own
  BY DEF Recorded, NoState, Nothing
<1>5. PICK over : over = Override(r.attached, m.attached)
  OBVIOUS
<1>6. \A o \in Objects : over[o] = IF d.state.attached[o] # None THEN d.state.attached[o]
                                   ELSE p.attached[o]
  BY <1>1, <1>5 DEF Override, Lag
<1>7. ASSUME NEW o \in Objects
      PROVE  /\ o \in m.detached => t.attached[o] = None
             /\ o \notin m.detached => t.attached[o] = over[o]
  <2>1. d.changes[o] \in Actions
    BY DEF DiffScenes
  <2>2. CASE d.state.own
    BY <1>1, <1>3, <1>6, <2>1, <2>2 DEF Recorded, Actions
  <2>3. CASE ~d.state.own
    BY <1>1, <1>3, <1>4, <1>6, <2>1, <2>3 DEF Recorded, Actions
  <2> QED
    BY <2>2, <2>3
<1>8. s.attached = t.attached
  <2>1. s.attached = [o \in Objects |-> IF o \in m.detached THEN None ELSE over[o]]
    BY <1>5 DEF setPlanningSceneDiffMsg
  <2> QED
    BY <1>3, <1>7, <2>1 DEF Objs
<1>9. PICK world1 : world1 = [o \in Objects |-> IF m.attached[o] # None THEN None ELSE r.world[o]]
  OBVIOUS
<1>10. PICK world2 : world2 = [o \in Objects |->
                                IF o \in m.detached /\ world1[o] = None THEN over[o] ELSE world1[o]]
  OBVIOUS
<1>11. s.world = [o \in Objects |-> IF o \in m.removed THEN None
                                    ELSE Override(world2, m.changed)[o]]
  BY <1>5, <1>9, <1>10, Zenon DEF setPlanningSceneDiffMsg
<1>12. ASSUME NEW o \in Objects
       PROVE  s.world[o] = d.world[o]
  <2>1. d.changes[o] \in Actions
    BY DEF DiffScenes
  <2>2. world2[o] = IF o \in m.detached /\ world1[o] = None THEN over[o] ELSE world1[o]
    BY <1>10
  <2>3. world1[o] = IF d.state.attached[o] # None THEN None ELSE r.world[o]
    BY <1>1, <1>9
  <2>4. s.world[o] = IF o \in m.removed THEN None
                     ELSE IF m.changed[o] # None THEN m.changed[o] ELSE world2[o]
    BY <1>11 DEF Override
  <2>5. CASE d.changes[o] = "CHANGE"
    BY <1>1, <2>4, <2>5 DEF Recorded
  <2>6. CASE d.changes[o] = "DESTROY"
    BY <1>1, <2>2, <2>3, <2>4, <2>6 DEF Recorded
  <2>7. CASE d.changes[o] = "NONE"
    <3>1. r.world[o] = d.world[o]
      BY <2>7 DEF Lag, Faithful
    <3>2. o \notin m.removed /\ o \notin m.detached /\ m.changed[o] = None
      BY <1>1, <2>7
    <3>3. s.world[o] = world1[o]
      BY <2>2, <2>4, <3>2
    <3>4. d.state.attached[o] # None => d.world[o] = None
      BY <1>3, <1>4
    <3> QED
      BY <2>3, <3>1, <3>3, <3>4
  <2> QED
    BY <2>1, <2>5, <2>6, <2>7 DEF Actions
<1>13. s.world = d.world
  <2>1. s.world = [o \in Objects |-> s.world[o]]
    BY Zenon, <1>11
  <2>2. d.world \in [Objects -> Values \cup {None}]
    BY DEF DiffScenes, Objs
  <2> QED
    BY <1>12, <2>1, <2>2
<1>14. s.acm = IF d.acm # None THEN d.acm ELSE p.acm
  BY <1>1 DEF setPlanningSceneDiffMsg, Lag
<1> QED
  BY <1>2, <1>8, <1>13, <1>14

\* The same for a message without attached objects, if those are the parent's.
LEMMA PublishStateLemma ==
  ASSUME NEW d \in DiffScenes(Values), NEW p \in Scenes(Values), NEW r \in Scenes(Values),
         Recorded(d), Faithful(d, p), Tracked(d, p), Lag(r, d, p),
         State(d, p).attached = p.attached,
         NEW n, n = getPlanningSceneDiffMsg(d, p), NEW m, m = StateOnly(n),
         NEW s, s = setPlanningSceneDiffMsg(r, m)
  PROVE  /\ s.attached = State(d, p).attached /\ s.world = d.world
         /\ s.acm = IF d.acm # None THEN d.acm ELSE p.acm
<1>1. /\ n.acm = d.acm
      /\ n.removed = {o \in Objects : d.changes[o] = "DESTROY" /\ d.state.attached[o] = None}
      /\ \A o \in Objects :
           n.changed[o] = IF d.changes[o] = "CHANGE" THEN d.world[o] ELSE None
  BY DEF getPlanningSceneDiffMsg
<1>2. /\ m.acm = n.acm /\ m.removed = n.removed /\ m.changed = n.changed
      /\ m.attached = Nothing /\ m.detached = {}
  BY DEF StateOnly, getPlanningSceneDiffMsg
<1>3. \A o \in Objects : Nothing[o] = None
  BY DEF Nothing
<1>4. r.attached = p.attached /\ r.attached \in Objs(Values)
  BY DEF Lag, Scenes, None
<1>5. PICK over : over = Override(r.attached, m.attached)
  OBVIOUS
<1>6. \A o \in Objects : over[o] = p.attached[o]
  BY <1>2, <1>3, <1>4, <1>5 DEF Override
<1>7. s.attached = p.attached
  <2>1. s.attached = [o \in Objects |-> IF o \in m.detached THEN None ELSE over[o]]
    BY <1>5 DEF setPlanningSceneDiffMsg
  <2>2. \A o \in Objects : s.attached[o] = p.attached[o]
    BY <1>2, <1>6, <2>1
  <2>3. p.attached \in [Objects -> Values \cup {None}]
    BY <1>4 DEF Objs
  <2> QED
    BY <2>1, <2>2, <2>3
<1>8. PICK world1 : world1 = [o \in Objects |-> IF m.attached[o] # None THEN None ELSE r.world[o]]
  OBVIOUS
<1>9. PICK world2 : world2 = [o \in Objects |->
                                IF o \in m.detached /\ world1[o] = None THEN over[o] ELSE world1[o]]
  OBVIOUS
<1>10. s.world = [o \in Objects |-> IF o \in m.removed THEN None
                                    ELSE Override(world2, m.changed)[o]]
  BY <1>5, <1>8, <1>9, Zenon DEF setPlanningSceneDiffMsg
<1>11. ASSUME NEW o \in Objects
       PROVE  s.world[o] = d.world[o]
  <2>1. d.changes[o] \in Actions
    BY DEF DiffScenes
  <2>2. world2[o] = r.world[o]
    BY <1>2, <1>3, <1>8, <1>9
  <2>3. s.world[o] = IF o \in m.removed THEN None
                     ELSE IF m.changed[o] # None THEN m.changed[o] ELSE r.world[o]
    BY <1>10, <2>2 DEF Override
  <2>4. CASE d.changes[o] = "CHANGE"
    BY <1>1, <1>2, <2>3, <2>4 DEF Recorded
  <2>5. CASE d.changes[o] = "DESTROY"
    <3>1. d.world[o] = None
      BY <2>5 DEF Recorded
    <3>2. CASE d.state.attached[o] = None
      BY <1>1, <1>2, <2>3, <2>5, <3>1, <3>2
    <3>3. CASE d.state.attached[o] # None
      <4>1. State(d, p).attached[o] # None
        BY <3>3 DEF Recorded, NoState, Nothing, State
      <4>2. r.attached[o] # None
        BY <1>4, <4>1
      <4>3. r.world[o] = None
        BY <4>2 DEF Lag, Clashing
      <4> QED
        BY <1>1, <1>2, <2>3, <2>5, <3>1, <4>3
    <3> QED
      BY <3>2, <3>3
  <2>6. CASE d.changes[o] = "NONE"
    BY <1>1, <1>2, <2>3, <2>6 DEF Lag, Faithful
  <2> QED
    BY <2>1, <2>4, <2>5, <2>6 DEF Actions
<1>12. s.world = d.world
  <2>1. s.world = [o \in Objects |-> s.world[o]]
    BY Zenon, <1>10
  <2>2. d.world \in [Objects -> Values \cup {None}]
    BY DEF DiffScenes, Objs
  <2> QED
    BY <1>11, <2>1, <2>2
<1>13. s.acm = IF d.acm # None THEN d.acm ELSE p.acm
  BY <1>1, <1>2 DEF setPlanningSceneDiffMsg, Lag
<1> QED
  BY <1>7, <1>12, <1>13

\* What is made has the type of a message.
LEMMA MessageLemma ==
  ASSUME NEW d \in DiffScenes(Values), NEW p \in Scenes(Values), NEW m,
         m = getPlanningSceneDiffMsg(d, p)
  PROVE  m \in DiffMessages /\ StateOnly(m) \in DiffMessages
<1>1. PICK w : w = [o \in Objects |-> IF d.changes[o] = "CHANGE" THEN d.world[o] ELSE None]
  OBVIOUS
<1>2. w \in Objs(Values)
  BY <1>1 DEF DiffScenes, Objs, None
<1>3. PICK gone : gone = {o \in Objects : d.changes[o] = "DESTROY" /\ d.state.attached[o] = None}
  OBVIOUS
<1>4. \E del \in SUBSET Objects :
        m = [joints |-> d.state.joints, attached |-> d.state.attached, detached |-> del,
             removed |-> gone, changed |-> w, colors |-> d.colors, acm |-> d.acm]
  <2>1. PICK del : del = {o \in gone \cup {q \in Objects : d.changes[q] = "CHANGE"} :
                            p.attached[o] # None}
    OBVIOUS
  <2>2. del \in SUBSET Objects
    BY <1>3, <2>1
  <2>3. w = [o \in Objects |-> IF o \in {q \in Objects : d.changes[q] = "CHANGE"}
                               THEN d.world[o] ELSE None]
    BY <1>1
  <2> QED
    BY <1>3, <2>1, <2>2, <2>3, Zenon DEF getPlanningSceneDiffMsg
<1>5. gone \in SUBSET Objects /\ Nothing \in Objs(Values) /\ {} \in SUBSET Objects
  BY <1>3 DEF Nothing, Objs
<1>6. /\ d.state.joints \in Values \cup {None} /\ d.state.attached \in Objs(Values)
      /\ d.colors \in Objs(Values) /\ d.acm \in Values \cup {None}
  BY DEF DiffScenes
<1>7. m \in DiffMessages
  BY <1>2, <1>4, <1>5, <1>6 DEF DiffMessages
<1>8. StateOnly(m) \in DiffMessages
  BY <1>5, <1>7 DEF StateOnly, DiffMessages
<1> QED
  BY <1>7, <1>8

\* What a message makes of a complete scene is a complete scene.
LEMMA ApplyLemma ==
  ASSUME NEW r \in Scenes(Values), NEW m \in DiffMessages, NEW s,
         s = setPlanningSceneDiffMsg(r, m)
  PROVE  s \in Scenes(Values)
<1>1. PICK over : over = Override(r.attached, m.attached)
  OBVIOUS
<1>2. PICK world1 : world1 = [o \in Objects |-> IF m.attached[o] # None THEN None ELSE r.world[o]]
  OBVIOUS
<1>3. PICK world2 : world2 = [o \in Objects |->
                                IF o \in m.detached /\ world1[o] = None THEN over[o] ELSE world1[o]]
  OBVIOUS
<1>4. PICK world3 : world3 = Override(world2, m.changed)
  OBVIOUS
<1>5. PICK j : j = IF m.joints # None THEN m.joints ELSE r.joints
  OBVIOUS
<1>6. PICK a : a = IF m.acm # None THEN m.acm ELSE r.acm
  OBVIOUS
<1>7. PICK held : held = [o \in Objects |-> IF o \in m.detached THEN None ELSE over[o]]
  OBVIOUS
<1>8. PICK world : world = [o \in Objects |-> IF o \in m.removed THEN None ELSE world3[o]]
  OBVIOUS
<1>9. PICK colors : colors = [o \in Objects |->
                               IF o \in m.removed /\ world3[o] # None THEN None
                               ELSE Override(r.colors, m.colors)[o]]
  OBVIOUS
<1>10. s = [joints |-> j, attached |-> held, world |-> world, colors |-> colors, acm |-> a]
  BY <1>1, <1>2, <1>3, <1>4, <1>5, <1>6, <1>7, <1>8, <1>9, Zenon DEF setPlanningSceneDiffMsg
<1>11. ASSUME NEW f \in Objs(Values), NEW g \in Objs(Values)
       PROVE  Override(f, g) \in Objs(Values)
  BY <1>11 DEF Override, Objs
<1>12. over \in Objs(Values) /\ Override(r.colors, m.colors) \in Objs(Values)
  BY <1>1, <1>11 DEF Scenes, DiffMessages
<1>13. world1 \in Objs(Values)
  BY <1>2 DEF Scenes, Objs
<1>14. world2 \in Objs(Values)
  BY <1>3, <1>12, <1>13 DEF Objs
<1>15. world3 \in Objs(Values)
  BY <1>4, <1>11, <1>14 DEF DiffMessages
<1>16. held \in Objs(Values) /\ world \in Objs(Values)
  BY <1>7, <1>8, <1>12, <1>15 DEF Objs
<1>17. colors \in Objs(Values)
  BY <1>9, <1>12 DEF Objs
<1>18. j \in Values \cup {None} /\ a \in Values \cup {None}
  BY <1>5, <1>6 DEF Scenes, DiffMessages
<1> QED
  BY <1>10, <1>16, <1>17, <1>18 DEF Scenes

-----------------------------------------------------------------------------
(* The steps of the publisher, the callbacks and the client.               *)

\* A change of a complete scene.
LEMMA PlainLemma ==
  ASSUME NEW k \in Changes, NEW v \in Values, NEW s \in Scenes(Values)
  PROVE  /\ ChangedPlain(k, s, v) \in Scenes(Values)
         /\ \A d \in DiffScenes(Values), p \in Scenes(Values) :
              SameScene(decoupleParent(d, p), s) =>
                SameScene(decoupleParent(Changed(k, d, p, v), p), ChangedPlain(k, s, v))
         /\ \A t \in Scenes(Values) :
              SameScene(t, s) => SameScene(ChangedPlain(k, t, v), ChangedPlain(k, s, v))
<1>1. PICK c : c = clearDiffs(s)
  OBVIOUS
<1>2. c \in DiffScenes(Values) /\ SameScene(decoupleParent(c, s), s)
  BY <1>1, ClearedLemma
<1>3. PICK f : f = Changed(k, c, s, v)
  OBVIOUS
<1>4. f \in DiffScenes(Values)
  BY <1>2, <1>3, ChangedLemma DEF Effect, Kept
<1>5. ChangedPlain(k, s, v) = decoupleParent(f, s)
  BY <1>1, <1>3 DEF ChangedPlain
<1>6. ChangedPlain(k, s, v) \in Scenes(Values)
  BY <1>4, <1>5, DecoupledLemma
<1>7. ASSUME NEW d \in DiffScenes(Values), NEW p \in Scenes(Values),
             SameScene(decoupleParent(d, p), s)
      PROVE  SameScene(decoupleParent(Changed(k, d, p, v), p), ChangedPlain(k, s, v))
  <2>1. SameScene(decoupleParent(d, p), decoupleParent(c, s))
    BY <1>2, <1>7 DEF SameScene
  <2> QED
    BY <1>2, <1>3, <1>5, <2>1, CommutesLemma
<1>8. ASSUME NEW t \in Scenes(Values), SameScene(t, s)
      PROVE  SameScene(ChangedPlain(k, t, v), ChangedPlain(k, s, v))
  <2>1. PICK d : d = clearDiffs(t)
    OBVIOUS
  <2>2. d \in DiffScenes(Values) /\ SameScene(decoupleParent(d, t), t)
    BY <2>1, ClearedLemma
  <2>3. SameScene(decoupleParent(d, t), s)
    BY <1>8, <2>2 DEF SameScene
  <2>4. SameScene(decoupleParent(Changed(k, d, t, v), t), ChangedPlain(k, s, v))
    BY <1>7, <2>2, <2>3
  <2> QED
    BY <2>1, <2>4 DEF ChangedPlain
<1> QED
  BY <1>6, <1>7, <1>8

\* A callback begins to announce.
LEMMA AnnounceLemma ==
  ASSUME Announcements, NEW c \in Callers, callers[c].pc = "idle", NEW types, Whole(types),
         Announce(c, types), new_scene_update_' = new_scene_update_
  PROVE  /\ Announcements'
         /\ SceneOnItsWay => SceneOnItsWay'
         /\ GeometryOnItsWay => GeometryOnItsWay'
         /\ "OTHER" \in types => SceneOnItsWay'
         /\ "GEOMETRY" \in types => GeometryOnItsWay'
<1>1. \A b \in Callers :
          callers'[b] = IF b = c THEN [pc |-> "announce", types |-> types, seen |-> {}]
                                       ELSE callers[b]
  BY DEF Announce, Announcements
<1>2. types \subseteq UpdateTypes /\ Whole({})
  BY DEF Whole
<1>3. callers' \in [Callers -> CallerRecords]
  BY <1>2 DEF Announce, Announcements, CallerRecords
<1>4. Announcements'
  BY <1>1, <1>2, <1>3 DEF Announcements, Whole
<1>5. \A b \in Callers : callers[b].types \subseteq callers'[b].types
  BY <1>1 DEF Announcements
<1> QED
  BY <1>1, <1>4, <1>5 DEF SceneOnItsWay, GeometryOnItsWay

\* Steps that change no scene and lose no announcement.
LEMMA StillLemma ==
  ASSUME Maintained, Followed, UNCHANGED scenes, Replica' = Replica, Active' => Active,
         SceneOnItsWay \/ diverged => (SceneOnItsWay \/ diverged)',
         GeometryOnItsWay \/ diverged => (GeometryOnItsWay \/ diverged)'
  PROVE  Maintained' /\ Followed'
<1>1. /\ parent_scene_' = parent_scene_ /\ scene_' = scene_ /\ expected' = expected
      /\ ghost' = ghost
  BY DEF scenes
<1>2. Maintained'
  <2>1. Stale' = Stale /\ Shown' = Shown
    BY <1>1 DEF Stale, Shown, Monitored
  <2> QED
    BY <1>1, <2>1 DEF Maintained
<1>3. Followed'
  BY <1>1 DEF Followed, Monitored
<1> QED
  BY <1>2, <1>3

\* Steps of the publisher that leave the scene and the announcements alone.
LEMMA PublisherStillLemma ==
  ASSUME IInv, ComposeFirst \/ TestUpdate \/ Wait \/ SkipUpdate \/ Send \/ Loop
  PROVE  Control' /\ Announcements'
<1>1. /\ callers' = callers /\ new_scene_update_' = new_scene_update_ /\ client' = client
      /\ publish_planning_scene_' = publish_planning_scene_ /\ parent_scene_' = parent_scene_
  BY DEF ComposeFirst, TestUpdate, Wait, SkipUpdate, Send, Loop, scenes
<1>2. Announcements'
  BY <1>1 DEF IInv, Announcements
<1>3. publisher.pc # "off" /\ Control
  BY DEF ComposeFirst, TestUpdate, Wait, SkipUpdate, Send, Loop, IInv
<1>4. Control'
  BY <1>1, <1>3 DEF Control, Monitored
<1> QED
  BY <1>2, <1>4

\* The first message is the complete scene that is shown.
LEMMA ComposeFirstStep ==
  ASSUME IInv, ComposeFirst
  PROVE  IInv'
<1>1. PICK d : d = scene_
  OBVIOUS
<1>2. PICK p : p = parent_scene_
  OBVIOUS
<1>3. Monitored /\ Shown = decoupleParent(d, p)
  BY <1>1, <1>2 DEF IInv, Control, Shown, ComposeFirst
<1>4. d \in DiffScenes(Values) /\ p \in Scenes(Values)
  BY <1>1, <1>2, <1>3 DEF IInv, SceneTypes
<1>5. PICK s : s = Shown
  OBVIOUS
<1>6. /\ s \in Scenes(Values)
      /\ s.attached = State(d, p).attached /\ s.world = d.world
      /\ s.acm = IF d.acm # None THEN d.acm ELSE p.acm
  BY <1>3, <1>4, <1>5, DecoupledLemma
<1>7. /\ publisher' = [pc |-> "send", types |-> UPDATE_SCENE, msg |-> s]
      /\ diverged' = (diverged \/ s.attached # p.attached)
      /\ parent_scene_' = parent_scene_ /\ scene_' = scene_ /\ expected' = expected
      /\ ghost' = ghost /\ missed' = missed /\ subscriber' = subscriber
      /\ edits' = edits /\ publish_update_types_' = publish_update_types_
      /\ callers' = callers /\ new_scene_update_' = new_scene_update_
  BY <1>2, <1>5 DEF ComposeFirst, scenes
<1>8. /\ publisher'.pc = "send" /\ publisher'.types = UPDATE_SCENE /\ publisher'.msg = s
      /\ s # NoScene
  BY <1>6, <1>7, ScenePublishingAssumption
<1>9. SceneTypes'
  BY <1>7 DEF IInv, SceneTypes, Monitored
<1>10. PublisherTypes'
  BY <1>6, <1>7, <1>8 DEF PublisherTypes, UPDATE_SCENE, PublisherRecords
<1>11. Control' /\ Announcements'
  BY PublisherStillLemma
<1>12. Stale' = Stale /\ Shown' = Shown /\ SceneOnItsWay' = SceneOnItsWay
       /\ Monitored' = Monitored /\ GeometryOnItsWay' = GeometryOnItsWay
  BY <1>7 DEF Stale, Shown, Monitored, SceneOnItsWay, GeometryOnItsWay
<1>13. diverged => diverged'
  BY <1>7
<1>14. Maintained'
  BY <1>7, <1>12, <1>13 DEF IInv, Maintained
<1>15. Composed'
  BY <1>8 DEF Composed
<1>16. Replica' = s
  BY <1>8 DEF Replica
<1>17. Lag(s, d, p) \/ SceneOnItsWay \/ diverged'
  <2> SUFFICES ASSUME ~SceneOnItsWay, ~diverged'
               PROVE  Lag(s, d, p)
    OBVIOUS
  <2>1. s.attached = p.attached /\ ~diverged
    BY <1>7
  <2>2. ~Stale
    BY <2>1 DEF IInv, Maintained
  <2>3. \A o \in Objects : s.world[o] = p.world[o] \/ d.changes[o] # "NONE"
    BY <1>1, <1>2, <1>3, <1>6, <2>2 DEF Stale
  <2>4. Tracked(d, p)
    BY <1>1, <1>2, <1>3, <2>1 DEF IInv, Followed
  <2>5. ~Clashing(s)
    BY <1>6, <2>4 DEF Tracked, Apart, Clashing
  <2> QED
    BY <1>6, <2>1, <2>3, <2>5 DEF Lag
<1>18. Followed'
  BY <1>1, <1>2, <1>7, <1>12, <1>13, <1>16, <1>17 DEF IInv, Followed
<1> QED
  BY <1>9, <1>10, <1>11, <1>14, <1>15, <1>18 DEF IInv

\* The publisher goes on without a message.
LEMMA PublisherStep ==
  ASSUME IInv, TestUpdate \/ Wait \/ SkipUpdate \/ Send \/ Loop
  PROVE  IInv'
<1>1. /\ parent_scene_' = parent_scene_ /\ scene_' = scene_ /\ expected' = expected
      /\ ghost' = ghost /\ missed' = missed /\ diverged' = diverged
      /\ edits' = edits /\ publish_update_types_' = publish_update_types_
      /\ callers' = callers /\ new_scene_update_' = new_scene_update_ /\ UNCHANGED scenes
  BY DEF TestUpdate, Wait, SkipUpdate, Send, Loop, scenes, history
<1>2. /\ publisher \in PublisherRecords
      /\ new_scene_update_ \subseteq UpdateTypes
  BY DEF IInv, PublisherTypes, Announcements, Whole
<1>3. /\ PublisherTypes'
      /\ publisher'.pc # "composed" \/ publisher'.msg = NoScene
      /\ Replica' = Replica /\ subscriber' \in Scenes(Values) /\ (Active' => Active)
  <2>1. CASE TestUpdate
    <3>1. /\ publisher'.pc \in {"loop", "tested"} /\ subscriber' = subscriber
          /\ PublisherTypes' /\ publisher.pc = "top"
      BY <1>2, <2>1 DEF TestUpdate, PublisherTypes, PublisherRecords
    <3> QED
      BY <3>1 DEF IInv, SceneTypes, Replica, Active
  <2>2. CASE Wait
    <3>1. /\ publisher'.pc = "waiting" /\ subscriber' = subscriber
          /\ PublisherTypes' /\ publisher.pc = "tested"
      BY <1>2, <2>2 DEF Wait, PublisherTypes, PublisherRecords
    <3> QED
      BY <3>1 DEF IInv, SceneTypes, Replica, Active
  <2>3. CASE SkipUpdate
    <3>1. /\ publisher'.pc = "composed" /\ publisher'.msg = NoScene /\ subscriber' = subscriber
          /\ PublisherTypes' /\ publisher.pc = "tested"
      BY <1>2, <2>3 DEF SkipUpdate, PublisherTypes, Wanted, PublisherRecords
    <3> QED
      BY <3>1 DEF IInv, SceneTypes, Replica, Active
  <2>4. CASE Send
    <3>1. /\ publisher'.pc = "loop" /\ PublisherTypes' /\ publisher.pc = "send"
          /\ publisher.msg # NoScene
          /\ publisher.msg \in IF publisher.types = UPDATE_SCENE THEN Scenes(Values)
                               ELSE DiffMessages
      BY <1>2, <2>4 DEF Send, IInv, PublisherTypes, PublisherRecords
    <3>2. subscriber' = IF publisher.types = UPDATE_SCENE THEN publisher.msg
                        ELSE setPlanningSceneDiffMsg(subscriber, publisher.msg)
      BY <2>4 DEF Send
    <3>3. subscriber' = Replica /\ Replica' = subscriber'
      BY <3>1, <3>2 DEF Replica
    <3>4. subscriber' \in Scenes(Values)
      <4>1. CASE publisher.types = UPDATE_SCENE
        BY <3>1, <3>2, <4>1
      <4>2. CASE publisher.types # UPDATE_SCENE
        <5>1. publisher.msg \in DiffMessages /\ subscriber \in Scenes(Values)
          BY <3>1, <4>2 DEF IInv, SceneTypes
        <5> QED
          BY <3>2, <4>2, <5>1, ApplyLemma
      <4> QED
        BY <4>1, <4>2
    <3> QED
      BY <3>1, <3>3, <3>4 DEF Active
  <2>5. CASE Loop
    <3>1. /\ publisher'.pc \in {"top", "off"} /\ subscriber' = subscriber
          /\ PublisherTypes' /\ publisher.pc = "loop"
      BY <1>2, <2>5 DEF Loop, PublisherTypes, PublisherRecords
    <3> QED
      BY <3>1 DEF IInv, SceneTypes, Replica, Active
  <2> QED
    BY <2>1, <2>2, <2>3, <2>4, <2>5
<1>4. SceneTypes'
  BY <1>1, <1>3 DEF IInv, SceneTypes, Monitored
<1>5. Control' /\ Announcements'
  BY PublisherStillLemma
<1>6. SceneOnItsWay' = SceneOnItsWay /\ GeometryOnItsWay' = GeometryOnItsWay
  BY <1>1 DEF SceneOnItsWay, GeometryOnItsWay
<1>7. Maintained' /\ Followed'
  BY <1>1, <1>3, <1>6, StillLemma DEF IInv
<1>8. Composed'
  BY <1>3 DEF Composed
<1> QED
  BY <1>3, <1>4, <1>5, <1>7, <1>8 DEF IInv

\* A notification moves a publisher that waits, and nothing else.
LEMMA NotifyLemma ==
  ASSUME PublisherTypes, subscriber' = subscriber, missed \in BOOLEAN, Notify
  PROVE  /\ PublisherTypes' /\ Replica' = Replica /\ Active' = Active /\ missed' \in BOOLEAN
         /\ publisher'.pc = "composed" => publisher' = publisher
         /\ publisher.pc = "off" <=> publisher'.pc = "off"
<1>1. CASE publisher.pc = "waiting"
  <2>1. publisher' = [publisher EXCEPT !.pc = "top"] /\ missed' = FALSE
    BY <1>1 DEF Notify
  <2>2. publisher'.pc = "top" /\ PublisherTypes'
    BY <2>1 DEF PublisherTypes, PublisherRecords
  <2> QED
    BY <1>1, <2>1, <2>2 DEF Replica, Active
<1>2. CASE publisher.pc # "waiting"
  <2>1. publisher' = publisher /\ missed' \in BOOLEAN
    BY <1>2 DEF Notify
  <2> QED
    BY <2>1 DEF PublisherTypes, Replica, Active
<1> QED
  BY <1>1, <1>2

\* What is composed stays while the scene and the publisher stay.
LEMMA ComposedStillLemma ==
  ASSUME Composed, UNCHANGED <<scenes, subscriber>>, diverged => diverged',
         publisher'.pc = "composed" => publisher' = publisher
  PROVE  Composed'
<1>1. CASE publisher'.pc # "composed"
  BY <1>1 DEF Composed
<1>2. CASE publisher'.pc = "composed"
  <2>1. /\ publisher' = publisher /\ parent_scene_' = parent_scene_ /\ scene_' = scene_
        /\ subscriber' = subscriber
    BY <1>2 DEF scenes
  <2>2. Replica' = Replica
    BY <2>1 DEF Replica
  <2> QED
    BY <2>1, <2>2 DEF Composed
<1> QED
  BY <1>1, <1>2

\* A callback announces its change.
LEMMA UpdateStep ==
  ASSUME IInv, NEW c \in Callers, ReadUpdate(c) \/ WriteUpdate(c)
  PROVE  IInv'
<1>1. /\ parent_scene_' = parent_scene_ /\ UNCHANGED scenes /\ diverged' = diverged
      /\ publish_update_types_' = publish_update_types_
      /\ publish_planning_scene_' = publish_planning_scene_
      /\ client' = client /\ subscriber' = subscriber /\ edits' = edits
  BY DEF ReadUpdate, WriteUpdate, scenes, history
<1>2. /\ PublisherTypes' /\ Replica' = Replica /\ Active' = Active /\ missed' \in BOOLEAN
      /\ publisher'.pc = "composed" => publisher' = publisher
      /\ publisher.pc = "off" <=> publisher'.pc = "off"
  <2>1. CASE ReadUpdate(c)
    <3>1. publisher' = publisher /\ missed' = missed /\ missed \in BOOLEAN
      BY <2>1 DEF ReadUpdate, history, IInv, SceneTypes
    <3> QED
      BY <1>1, <3>1 DEF IInv, PublisherTypes, Replica, Active
  <2>2. CASE WriteUpdate(c)
    BY <1>1, <2>2, NotifyLemma DEF WriteUpdate, IInv, SceneTypes
  <2> QED
    BY <2>1, <2>2
<1>3. /\ Announcements'
      /\ SceneOnItsWay => SceneOnItsWay'
      /\ GeometryOnItsWay => GeometryOnItsWay'
  <2>1. CASE ReadUpdate(c)
    <3>1. /\ callers' = [callers EXCEPT ![c].pc = "write", ![c].seen = new_scene_update_]
          /\ new_scene_update_' = new_scene_update_
          /\ \A b \in Callers : callers[b].pc # "write"
          /\ callers[c].pc = "announce"
      BY <2>1 DEF ReadUpdate
    <3>2. /\ callers'[c].pc = "write" /\ callers'[c].types = callers[c].types
          /\ callers'[c].seen = new_scene_update_
          /\ \A b \in Callers : b # c => callers'[b] = callers[b]
          /\ callers' \in [Callers -> CallerRecords]
      <4>1. /\ callers[c] \in CallerRecords
            /\ new_scene_update_ \in SUBSET UpdateTypes
        BY DEF IInv, Announcements, Whole
      <4>2. c \in DOMAIN callers /\ DOMAIN callers = Callers
        BY DEF IInv, Announcements
      <4>3. /\ callers'[c] = [[callers[c] EXCEPT !.pc = "write"] EXCEPT !.seen = new_scene_update_]
            /\ \A b \in Callers : b # c => callers'[b] = callers[b]
            /\ DOMAIN callers' = Callers /\ callers' = [b \in Callers |-> callers'[b]]
        BY <3>1, <4>2
      <4>4. /\ callers'[c].pc = "write" /\ callers'[c].types = callers[c].types
            /\ callers'[c].seen = new_scene_update_
            /\ callers'[c] \in CallerRecords
        BY <4>1, <4>3 DEF CallerRecords
      <4>5. \A b \in Callers : callers[b] \in CallerRecords
        BY DEF IInv, Announcements
      <4>6. \A b \in Callers : callers'[b] \in CallerRecords
        BY <4>3, <4>4, <4>5
      <4> QED
        BY <4>3, <4>4, <4>6
    <3>3. \A b \in Callers : callers'[b].types = callers[b].types
      BY <3>2
    <3>4. Announcements'
      BY <3>1, <3>2 DEF IInv, Announcements
    <3> QED
      BY <3>1, <3>3, <3>4 DEF SceneOnItsWay, GeometryOnItsWay
  <2>2. CASE WriteUpdate(c)
    <3>1. /\ callers' = [callers EXCEPT ![c] = Idle]
          /\ new_scene_update_' = callers[c].seen \cup callers[c].types
          /\ callers[c].pc = "write"
      BY <2>2 DEF WriteUpdate
    <3>2. /\ callers'[c] = [pc |-> "idle", types |-> {}, seen |-> {}]
          /\ \A b \in Callers : b # c => callers'[b] = callers[b]
          /\ callers' \in [Callers -> CallerRecords]
      BY <3>1 DEF IInv, Announcements, Idle, CallerRecords
    <3>3. \A b \in Callers : callers'[b].pc = "write" => FALSE
      BY <3>1, <3>2 DEF IInv, Announcements
    <3>4. Whole(new_scene_update_') /\ Whole({})
      <4>1. Whole(callers[c].seen) /\ Whole(callers[c].types)
        BY DEF IInv, Announcements
      <4> QED
        BY <3>1, <4>1 DEF Whole, UPDATE_SCENE
    <3>5. Announcements'
      <4>1. ASSUME NEW b \in Callers
            PROVE  /\ Whole(callers'[b].types) /\ Whole(callers'[b].seen)
                   /\ callers'[b].pc = "idle" => callers'[b].types = {}
        BY <3>2, <3>4 DEF IInv, Announcements, CallerRecords
      <4> QED
        BY <3>2, <3>3, <3>4, <4>1 DEF Announcements
    <3>6. /\ new_scene_update_ \subseteq new_scene_update_'
          /\ callers[c].types \subseteq new_scene_update_'
      BY <3>1 DEF IInv, Announcements
    <3> QED
      BY <3>2, <3>5, <3>6 DEF SceneOnItsWay, GeometryOnItsWay
  <2> QED
    BY <2>1, <2>2
<1>4. SceneTypes'
  BY <1>1, <1>2 DEF IInv, SceneTypes, Monitored, scenes
<1>5. Control'
  BY <1>1, <1>2 DEF IInv, Control, Monitored
<1>6. Maintained' /\ Followed'
  BY <1>1, <1>2, <1>3, StillLemma DEF IInv
<1>7. Composed'
  BY <1>1, <1>2, ComposedStillLemma DEF IInv
<1> QED
  BY <1>2, <1>3, <1>4, <1>5, <1>6, <1>7 DEF IInv

\* The client moves on without touching a scene.
LEMMA ClientStep ==
  ASSUME IInv, SetPointer \/ Stop \/ NotifyStop \/ Join \/ UNCHANGED vars
  PROVE  IInv'
<1>1. /\ parent_scene_' = parent_scene_ /\ UNCHANGED scenes /\ diverged' = diverged
      /\ publish_update_types_' = publish_update_types_
      /\ subscriber' = subscriber /\ edits' = edits
      /\ callers' = callers /\ new_scene_update_' = new_scene_update_
  BY DEF SetPointer, Stop, NotifyStop, Join, scenes, history, vars
<1>2. /\ PublisherTypes' /\ Replica' = Replica /\ Active' = Active /\ missed' \in BOOLEAN
      /\ publisher'.pc = "composed" => publisher' = publisher
      /\ publisher.pc = "off" <=> publisher'.pc = "off"
  <2>0. missed \in BOOLEAN /\ PublisherTypes
    BY DEF IInv, SceneTypes
  <2>1. CASE publisher' = publisher /\ missed' \in {missed, FALSE}
    BY <1>1, <2>0, <2>1 DEF PublisherTypes, Replica, Active
  <2>2. CASE Notify
    BY <1>1, <2>0, <2>2, NotifyLemma
  <2> QED
    BY <2>1, <2>2 DEF SetPointer, Stop, NotifyStop, Join, history, vars
<1>3. Announcements' /\ SceneOnItsWay' = SceneOnItsWay /\ GeometryOnItsWay' = GeometryOnItsWay
  BY <1>1 DEF IInv, Announcements, SceneOnItsWay, GeometryOnItsWay
<1>4. SceneTypes'
  BY <1>1, <1>2 DEF IInv, SceneTypes, Monitored, scenes
<1>5. Control'
  <2>1. Monitored' = Monitored
    BY <1>1 DEF Monitored
  <2>2. CASE SetPointer
    BY <1>2, <2>1, <2>2 DEF IInv, Control, SetPointer
  <2>3. CASE Stop
    BY <1>2, <2>1, <2>3 DEF IInv, Control, Stop
  <2>4. CASE NotifyStop
    BY <1>2, <2>1, <2>4 DEF IInv, Control, NotifyStop
  <2>5. CASE Join
    BY <1>2, <2>1, <2>5 DEF IInv, Control, Join
  <2>6. CASE UNCHANGED vars
    BY <1>2, <2>1, <2>6 DEF IInv, Control, vars
  <2> QED
    BY <2>2, <2>3, <2>4, <2>5, <2>6
<1>6. Maintained' /\ Followed'
  BY <1>1, <1>2, <1>3, StillLemma DEF IInv
<1>7. Composed'
  BY <1>1, <1>2, ComposedStillLemma DEF IInv
<1> QED
  BY <1>2, <1>3, <1>4, <1>5, <1>6, <1>7 DEF IInv

\* new_scene_update_ is reset; what was announced since the test is lost.
LEMMA ResetStep ==
  ASSUME IInv, ResetUpdate
  PROVE  IInv'
<1>1. /\ parent_scene_' = parent_scene_ /\ scene_' = scene_ /\ expected' = expected
      /\ ghost' = ghost /\ UNCHANGED scenes
      /\ publish_update_types_' = publish_update_types_ /\ missed' = missed
      /\ publish_planning_scene_' = publish_planning_scene_ /\ client' = client
      /\ subscriber' = subscriber /\ edits' = edits
      /\ callers' = callers /\ new_scene_update_' = {}
      /\ publisher.pc = "composed"
      /\ diverged' = (\/ diverged
                      \/ (publisher.msg = NoScene /\ Wanted(new_scene_update_))
                      \/ (publisher.types # UPDATE_SCENE /\ new_scene_update_ = UPDATE_SCENE))
      /\ publisher' = [publisher EXCEPT !.pc = IF publisher.msg = NoScene THEN "loop" ELSE "send"]
  BY DEF ResetUpdate, scenes
<1>2. /\ publisher'.pc = IF publisher.msg = NoScene THEN "loop" ELSE "send"
      /\ publisher'.types = publisher.types /\ publisher'.msg = publisher.msg
      /\ publisher' \in PublisherRecords
  BY <1>1 DEF IInv, PublisherTypes, PublisherRecords
<1>3. PublisherTypes'
  BY <1>1, <1>2 DEF IInv, PublisherTypes
<1>4. Replica' = Replica
  BY <1>1, <1>2 DEF Replica
<1>5. Announcements'
  BY <1>1 DEF IInv, Announcements, Whole
<1>6. diverged' \in BOOLEAN
  BY <1>1 DEF IInv, SceneTypes
<1>7. SceneTypes'
  BY <1>1, <1>6 DEF IInv, SceneTypes, Monitored
<1>8. Monitored /\ Control'
  BY <1>1, <1>2 DEF IInv, Control, Monitored
<1>9. PICK p : p = parent_scene_
  OBVIOUS
<1>10. p \in Scenes(Values)
  BY <1>8, <1>9 DEF IInv, SceneTypes
<1>11. diverged' \/ (SceneOnItsWay => SceneOnItsWay') \/ publisher.types = UPDATE_SCENE
  <2>1. "OTHER" \in new_scene_update_ => new_scene_update_ = UPDATE_SCENE
    BY DEF IInv, Announcements, Whole
  <2> QED
    BY <1>1, <2>1 DEF SceneOnItsWay
<1>12. publisher.msg # NoScene => scene_ = clearDiffs(p) /\ (diverged' \/ ~Clashing(p))
  BY <1>1, <1>9 DEF IInv, Composed
<1>13. publisher.types = UPDATE_SCENE => publisher.msg # NoScene
  BY <1>1 DEF IInv, PublisherTypes
<1>14. Stale' = Stale /\ Shown' = Shown /\ Monitored' = Monitored
  BY <1>1 DEF Stale, Shown, Monitored
<1>15. scene_ = clearDiffs(p) => ~Stale
  BY <1>9, <1>10, ClearedLemma DEF Stale
<1>16. Maintained'
  BY <1>1, <1>11, <1>12, <1>13, <1>14, <1>15 DEF IInv, Maintained
<1>17. Composed'
  BY <1>2 DEF Composed
<1>18. Followed'
  <2>1. Recorded(scene_)
    BY <1>8 DEF IInv, Followed
  <2>2. GeometryIsPublished => Clean(scene_, p) \/ GeometryOnItsWay' \/ diverged'
    <3>1. CASE publisher.msg # NoScene
      BY <1>10, <1>12, <3>1, ClearedLemma
    <3>2. CASE publisher.msg = NoScene
      <4>1. GeometryIsPublished => "GEOMETRY" \in publish_update_types_
        BY DEF IInv, SceneTypes, GeometryIsPublished
      <4>2. GeometryIsPublished /\ "GEOMETRY" \in new_scene_update_ => diverged'
        BY <1>1, <3>2, <4>1 DEF Wanted
      <4> QED
        BY <1>1, <1>8, <1>9, <4>2 DEF IInv, Followed, GeometryOnItsWay
    <3> QED
      BY <3>1, <3>2
  <2>3. Tracked(scene_, p) \/ SceneOnItsWay' \/ diverged'
    <3>1. CASE publisher.types = UPDATE_SCENE
      BY <1>10, <1>12, <1>13, <3>1, ClearedLemma
    <3>2. CASE publisher.types # UPDATE_SCENE
      BY <1>1, <1>8, <1>9, <1>11, <3>2 DEF IInv, Followed
    <3> QED
      BY <3>1, <3>2
  <2>4. Lag(Replica, scene_, p) \/ SceneOnItsWay' \/ diverged'
    <3>1. CASE publisher.types = UPDATE_SCENE
      <4>1. /\ Replica.world = p.world /\ Replica.attached = p.attached
            /\ Replica.acm = p.acm
        BY <1>1, <1>9, <1>13, <3>1 DEF IInv, Composed
      <4>2. ~Clashing(p) => ~Clashing(Replica)
        BY <4>1 DEF Clashing
      <4> QED
        BY <1>12, <1>13, <3>1, <4>1, <4>2 DEF Lag
    <3>2. CASE publisher.types # UPDATE_SCENE
      BY <1>1, <1>9, <1>11, <3>2 DEF IInv, Followed, Active
    <3> QED
      BY <3>1, <3>2
  <2> QED
    BY <1>1, <1>4, <1>9, <1>14, <2>1, <2>2, <2>3, <2>4 DEF Followed
<1> QED
  BY <1>3, <1>5, <1>7, <1>8, <1>16, <1>17, <1>18 DEF IInv

\* A scene that was just cleared, and whose parent is expected, starts anew.
LEMMA FreshLemma ==
  ASSUME NEW p \in Scenes(Values), parent_scene_' = p, scene_' = clearDiffs(p),
         diverged' \/ ~Clashing(p), ghost' \/ SameScene(p, expected'),
         Active' => Lag(Replica', scene_', p) \/ SceneOnItsWay' \/ diverged'
  PROVE  Maintained' /\ Followed'
<1>1. PICK d : d = clearDiffs(p)
  OBVIOUS
<1>2. /\ d \in DiffScenes(Values) /\ Recorded(d) /\ d.world = p.world
      /\ SameScene(decoupleParent(d, p), p)
      /\ ~Clashing(p) => Tracked(d, p)
      /\ Clean(d, p)
  BY <1>1, ClearedLemma
<1>3. scene_' = d /\ parent_scene_' = p
  BY <1>1
<1>4. Monitored'
  BY <1>3, ScenePublishingAssumption DEF Monitored
<1>5. ~Stale' /\ Shown' = decoupleParent(d, p)
  BY <1>2, <1>3, <1>4 DEF Stale, Shown
<1>6. ghost' \/ SameScene(Shown', expected')
  BY <1>2, <1>5 DEF SameScene
<1>7. Maintained'
  BY <1>5, <1>6 DEF Maintained
<1>8. Followed'
  BY <1>2, <1>3 DEF Followed
<1> QED
  BY <1>7, <1>8

\* monitorDiffs(true), unless the scene is published already.
LEMMA StartStep ==
  ASSUME IInv, Start
  PROVE  IInv'
<1>1. /\ publish_update_types_' \in PublishChoices
      /\ expected' = expected /\ ghost' = ghost /\ missed' = missed
      /\ new_scene_update_' = new_scene_update_ /\ callers' = callers
      /\ publish_planning_scene_' = publish_planning_scene_
      /\ subscriber' = subscriber /\ edits' = edits /\ client = "idle"
  BY DEF Start
<1>2. Announcements' /\ SceneOnItsWay' = SceneOnItsWay /\ GeometryOnItsWay' = GeometryOnItsWay
  BY <1>1 DEF IInv, Announcements, SceneOnItsWay, GeometryOnItsWay
<1>3. CASE /\ publish_planning_scene_
           /\ UNCHANGED <<parent_scene_, scene_, publisher, client, diverged>>
  <2>1. SceneTypes'
    BY <1>1, <1>3 DEF IInv, SceneTypes, Monitored
  <2>2. PublisherTypes' /\ Replica' = Replica /\ Active' = Active /\ UNCHANGED scenes
    BY <1>1, <1>3 DEF IInv, PublisherTypes, Replica, Active, scenes
  <2>3. Control'
    BY <1>1, <1>3 DEF IInv, Control, Monitored
  <2>4. Maintained' /\ Followed'
    BY <1>2, <1>3, <2>2, StillLemma DEF IInv
  <2>5. Composed'
    BY <1>1, <1>3, <2>2, ComposedStillLemma DEF IInv
  <2> QED
    BY <1>2, <2>1, <2>2, <2>3, <2>4, <2>5 DEF IInv
<1>4. CASE /\ ~publish_planning_scene_ /\ ~Locked
           /\ parent_scene_' = scene_
           /\ scene_' = clearDiffs(scene_)
           /\ publisher' = [pc |-> "first", types |-> {}, msg |-> NoScene]
           /\ client' = "started"
           /\ diverged' = Clashing(scene_)
  <2>1. PICK p : p = scene_
    OBVIOUS
  <2>2. ~Monitored
    BY <1>1, <1>4 DEF IInv, Control
  <2>3. p \in Scenes(Values) /\ Shown = p /\ ~Stale
    BY <2>1, <2>2 DEF IInv, SceneTypes, Shown, Stale
  <2>4. parent_scene_' = p /\ scene_' = clearDiffs(p) /\ Monitored'
    BY <1>4, <2>1, <2>3, ScenePublishingAssumption DEF Monitored
  <2>5. clearDiffs(p) \in DiffScenes(Values)
    BY <2>3, ClearedLemma
  <2>6. diverged' \in BOOLEAN /\ (diverged' \/ ~Clashing(p))
    BY <1>4, <2>1 DEF Clashing
  <2>7. publisher'.pc = "first" /\ publisher'.types = {} /\ publisher'.msg = NoScene
    BY <1>4
  <2>8. SceneTypes'
    BY <1>1, <2>3, <2>4, <2>5, <2>6 DEF IInv, SceneTypes
  <2>9. PublisherTypes'
    BY <1>4, <2>7 DEF PublisherTypes, PublisherRecords
  <2>10. Control'
    BY <1>1, <1>4, <2>4, <2>7 DEF IInv, Control
  <2>11. ghost' \/ SameScene(p, expected')
    BY <1>1, <2>3 DEF IInv, Maintained
  <2>12. ~Active'
    BY <2>7 DEF Active
  <2>13. Maintained' /\ Followed'
    BY <2>3, <2>4, <2>6, <2>11, <2>12, FreshLemma
  <2>14. Composed'
    BY <2>7 DEF Composed
  <2> QED
    BY <1>2, <2>8, <2>9, <2>10, <2>13, <2>14 DEF IInv
<1> QED
  BY <1>3, <1>4 DEF Start

\* monitorDiffs(false).
LEMMA DecoupleStep ==
  ASSUME IInv, Decouple
  PROVE  IInv'
<1>1. /\ client = "joined" /\ client' = "idle"
      /\ scene_' = Shown /\ parent_scene_' = NoScene
      /\ ghost' = (ghost \/ Stale)
      /\ expected' = expected /\ diverged' = diverged /\ missed' = missed
      /\ new_scene_update_' = new_scene_update_ /\ callers' = callers
      /\ publish_planning_scene_' = publish_planning_scene_
      /\ publish_update_types_' = publish_update_types_ /\ publisher' = publisher
      /\ subscriber' = subscriber /\ edits' = edits
  BY DEF Decouple, history
<1>2. Monitored /\ publisher.pc = "off" /\ ~publish_planning_scene_
  BY <1>1 DEF IInv, Control
<1>3. Shown \in Scenes(Values)
  BY <1>2, DecoupledLemma DEF IInv, SceneTypes, Shown
<1>4. ~Monitored' /\ ~Stale' /\ Shown' = Shown
  BY <1>1 DEF Monitored, Stale, Shown
<1>5. Announcements'
  BY <1>1 DEF IInv, Announcements
<1>6. Stale \in BOOLEAN
  BY DEF Stale
<1>7. SceneTypes'
  BY <1>1, <1>3, <1>4, <1>6 DEF IInv, SceneTypes
<1>8. PublisherTypes'
  BY <1>1 DEF IInv, PublisherTypes
<1>9. Control'
  BY <1>1, <1>2, <1>4 DEF IInv, Control
<1>10. Maintained'
  BY <1>1, <1>4 DEF IInv, Maintained
<1>11. Composed' /\ Followed'
  BY <1>1, <1>2, <1>4 DEF Composed, Followed, Active
<1> QED
  BY <1>5, <1>7, <1>8, <1>9, <1>10, <1>11 DEF IInv

\* A scene that shows the same as its parent lags behind in nothing.
LEMMA NoLagLemma ==
  ASSUME NEW p \in Scenes(Values), ~Clashing(p), NEW r, NEW d,
         r.world = p.world, r.attached = p.attached, r.acm = p.acm
  PROVE  Lag(r, d, p)
  BY DEF Lag, Clashing

\* The message is made, the diffs are pushed and cleared.
LEMMA ComposeStep ==
  ASSUME IInv, Compose
  PROVE  IInv'
<1>1. PICK d : d = scene_
  OBVIOUS
<1>2. PICK p : p = parent_scene_
  OBVIOUS
<1>3. PICK q : q = pushDiffs(d, p)
  OBVIOUS
<1>4. PICK c : c = clearDiffs(q)
  OBVIOUS
<1>5. PICK m : m = getPlanningSceneDiffMsg(d, p)
  OBVIOUS
<1>6. PICK s : s = decoupleParent(c, q)
  OBVIOUS
<1>7. PICK state : state <=> new_scene_update_ = {"STATE"}
  OBVIOUS
<1>8. /\ publisher.pc = "tested"
      /\ parent_scene_' = q /\ scene_' = c
      /\ publisher' = [publisher EXCEPT
                         !.pc = "composed",
                         !.msg = IF publisher.types = UPDATE_SCENE THEN s
                                 ELSE IF state THEN StateOnly(m) ELSE m]
      /\ diverged' = IF publisher.types = UPDATE_SCENE THEN Clashing(q)
                     ELSE \/ diverged \/ Clashing(q)
                          \/ (state /\ Shown.attached # p.attached)
      /\ expected' = expected /\ ghost' = ghost /\ missed' = missed
      /\ new_scene_update_' = new_scene_update_ /\ callers' = callers
      /\ publish_update_types_' = publish_update_types_
      /\ publish_planning_scene_' = publish_planning_scene_
      /\ client' = client /\ subscriber' = subscriber /\ edits' = edits
  BY <1>1, <1>2, <1>3, <1>4, <1>5, <1>6, <1>7 DEF Compose
<1>9. Monitored /\ Shown = decoupleParent(d, p)
  BY <1>1, <1>2, <1>8 DEF IInv, Control, Shown
<1>10. d \in DiffScenes(Values) /\ p \in Scenes(Values) /\ Recorded(d)
  BY <1>1, <1>2, <1>9 DEF IInv, SceneTypes, Followed
<1>11. /\ q \in Scenes(Values) /\ q.attached = State(d, p).attached
       /\ q.acm = IF d.acm # None THEN d.acm ELSE p.acm
  BY <1>3, <1>10, PushedLemma
<1>12. /\ c \in DiffScenes(Values) /\ SameScene(s, q)
  BY <1>4, <1>6, <1>11, ClearedLemma
<1>13. s \in Scenes(Values)
  BY <1>6, <1>11, <1>12, DecoupledLemma
<1>14. m \in DiffMessages /\ StateOnly(m) \in DiffMessages
  BY <1>5, <1>10, MessageLemma
<1>15. PICK msg : msg = IF publisher.types = UPDATE_SCENE THEN s
                        ELSE IF state THEN StateOnly(m) ELSE m
  OBVIOUS
<1>16. /\ publisher'.pc = "composed" /\ publisher'.types = publisher.types
       /\ publisher'.msg = msg
       /\ msg \in IF publisher.types = UPDATE_SCENE THEN Scenes(Values) ELSE DiffMessages
       /\ PublisherTypes'
  <2>1. msg \in IF publisher.types = UPDATE_SCENE THEN Scenes(Values) ELSE DiffMessages
    BY <1>13, <1>14, <1>15
  <2>2. msg \in Scenes(Values) \cup DiffMessages
    BY <2>1
  <2>3. msg # NoScene
    BY <2>2, ScenePublishingAssumption
  <2>4. publisher' = [publisher EXCEPT !.pc = "composed", !.msg = msg]
    BY <1>8, <1>15
  <2>5. publisher \in PublisherRecords
    BY DEF IInv, PublisherTypes
  <2>6. /\ publisher'.pc = "composed" /\ publisher'.types = publisher.types
        /\ publisher'.msg = msg
        /\ publisher' \in PublisherRecords
    BY <2>2, <2>4, <2>5 DEF PublisherRecords
  <2> QED
    BY <2>1, <2>3, <2>6 DEF PublisherTypes
<1>17. Replica' = IF publisher.types = UPDATE_SCENE THEN s
                  ELSE setPlanningSceneDiffMsg(subscriber, msg)
  <2>1. msg \in Scenes(Values) \cup DiffMessages
    BY <1>16
  <2>2. msg # NoScene
    BY <2>1, ScenePublishingAssumption
  <2> QED
    BY <1>8, <1>15, <1>16, <2>2 DEF Replica
<1>18. Announcements' /\ SceneOnItsWay' = SceneOnItsWay
  BY <1>8 DEF IInv, Announcements, SceneOnItsWay
<1>19. Monitored'
  BY <1>8, <1>11, ScenePublishingAssumption DEF Monitored
<1>20. diverged' \in BOOLEAN /\ (diverged' \/ ~Clashing(q))
  BY <1>7, <1>8 DEF IInv, SceneTypes, Clashing
<1>21. SceneTypes'
  BY <1>8, <1>11, <1>12, <1>19, <1>20 DEF IInv, SceneTypes
<1>22. Control'
  BY <1>8, <1>9, <1>16, <1>19 DEF IInv, Control
<1>23. Stale <=> ~Faithful(d, p)
  BY <1>1, <1>2, <1>9, FaithfulLemma
<1>24. ghost' \/ SameScene(q, expected')
  <2>1. CASE ghost
    BY <1>8, <2>1
  <2>2. CASE ~ghost /\ Stale
    <3>1. SameScene(p, expected) /\ d = clearDiffs(d)
      BY <1>1, <1>2, <2>2 DEF IInv, Maintained
    <3>2. SameScene(q, p)
      BY <1>3, <1>10, <3>1, PushNothingLemma
    <3> QED
      BY <1>8, <3>1, <3>2 DEF SameScene
  <2>3. CASE ~ghost /\ ~Stale
    <3>1. SameScene(decoupleParent(d, p), expected)
      BY <1>9, <2>3 DEF IInv, Maintained
    <3>2. SameScene(q, decoupleParent(d, p))
      BY <1>3, <1>10, <1>23, <2>3, PushKeepsLemma
    <3> QED
      BY <1>8, <3>1, <3>2 DEF SameScene
  <2> QED
    BY <2>1, <2>2, <2>3
<1>25. CASE publisher.types = UPDATE_SCENE
  <2>1. Replica' = s /\ s.world = q.world /\ s.attached = q.attached /\ s.acm = q.acm
    BY <1>12, <1>17, <1>25 DEF SameScene
  <2>2. Lag(s, c, q) \/ diverged'
    BY <1>11, <1>20, <2>1, NoLagLemma
  <2>3. Maintained' /\ Followed'
    BY <1>4, <1>8, <1>11, <1>20, <1>24, <2>1, <2>2, FreshLemma
  <2>4. Composed'
    BY <1>4, <1>8, <1>20, <2>1 DEF Composed
  <2> QED
    BY <1>16, <1>18, <1>21, <1>22, <2>3, <2>4 DEF IInv
<1>26. CASE publisher.types # UPDATE_SCENE
  <2>1. PICK r : r = setPlanningSceneDiffMsg(subscriber, msg)
    OBVIOUS
  <2>2. Replica' = r
    BY <1>17, <1>26, <2>1
  <2>3. ASSUME ~SceneOnItsWay, ~diverged'
        PROVE  Lag(r, c, q)
    <3>1. /\ ~diverged /\ ~Clashing(q)
          /\ state => State(d, p).attached = p.attached
      BY <1>8, <1>9, <1>10, <1>26, <2>3, DecoupledLemma
    <3>2. Faithful(d, p)
      BY <1>23, <2>3, <3>1 DEF IInv, Maintained
    <3>3. Tracked(d, p)
      BY <1>1, <1>2, <1>9, <2>3, <3>1 DEF IInv, Followed
    <3>4. Lag(subscriber, d, p) /\ subscriber \in Scenes(Values)
      <4>1. Replica = subscriber /\ Active
        BY <1>8 DEF Replica, Active
      <4> QED
        BY <1>1, <1>2, <2>3, <3>1, <4>1 DEF IInv, Followed, SceneTypes
    <3>5. /\ r.attached = State(d, p).attached /\ r.world = d.world
          /\ r.acm = IF d.acm # None THEN d.acm ELSE p.acm
      <4>1. CASE state
        <5>1. msg = StateOnly(m)
          BY <1>15, <1>26, <4>1
        <5> QED
          BY <1>5, <1>10, <2>1, <3>1, <3>2, <3>3, <3>4, <4>1, <5>1, PublishStateLemma
      <4>2. CASE ~state
        <5>1. msg = m
          BY <1>15, <1>26, <4>2
        <5> QED
          BY <1>5, <1>10, <2>1, <3>2, <3>3, <3>4, <5>1, PublishLemma
      <4> QED
        BY <4>1, <4>2
    <3>6. q.world = d.world
      BY <1>3, <1>10, <3>2, PushKeepsLemma
    <3> QED
      BY <1>11, <3>1, <3>5, <3>6, NoLagLemma
  <2>4. Lag(Replica', scene_', q) \/ SceneOnItsWay' \/ diverged'
    BY <1>8, <1>18, <2>2, <2>3
  <2>5. Maintained' /\ Followed'
    BY <1>4, <1>8, <1>11, <1>20, <1>24, <2>4, FreshLemma
  <2>6. Composed'
    BY <1>4, <1>8, <1>16, <1>20, <1>26 DEF Composed
  <2> QED
    BY <1>16, <1>18, <1>21, <1>22, <2>5, <2>6 DEF IInv
<1> QED
  BY <1>25, <1>26

\* What is announced for a change.
LEMMA AnnouncedLemma ==
  ASSUME NEW k \in Changes, NEW types \in Announced(k)
  PROVE  Whole(types) /\ ("GEOMETRY" \in types \/ MovesOnly(k))
<1>1. k.op \in {"add", "move", "remove", "attach", "grasp", "detach", "state", "matrix",
                "transforms", "world"}
  BY DEF Changes
<1>2. CASE k.op \in {"add", "move", "remove"}
  <2>1. types = {"GEOMETRY"}
    BY <1>2 DEF Announced
  <2> QED
    BY <2>1 DEF Whole, UpdateTypes
<1>3. CASE k.op \in {"attach", "grasp", "detach"}
  <2>1. types = {"GEOMETRY"} \/ types = {"STATE", "GEOMETRY"}
    BY <1>3 DEF Announced
  <2> QED
    BY <2>1 DEF Whole, UpdateTypes
<1>4. CASE k.op = "state"
  <2>1. \/ types = {"STATE", "GEOMETRY"}
        \/ types = {"STATE"} /\ MovesOnly(k)
    BY <1>4 DEF Announced, MovesOnly
  <2> QED
    BY <2>1 DEF Whole, UpdateTypes
<1>5. CASE k.op = "transforms"
  <2>1. types = {"TRANSFORMS"}
    BY <1>5 DEF Announced
  <2> QED
    BY <1>5, <2>1 DEF Whole, UpdateTypes, MovesOnly
<1>6. CASE k.op \in {"matrix", "world"}
  <2>1. types = UPDATE_SCENE
    BY <1>6 DEF Announced
  <2> QED
    BY <2>1 DEF Whole, UpdateTypes, UPDATE_SCENE
<1> QED
  BY <1>1, <1>2, <1>3, <1>4, <1>5, <1>6

\* A callback changes the scene.
LEMMA ChangeStep ==
  ASSUME IInv, NEW c \in Callers, ChangeScene(c)
  PROVE  IInv'
<1>1. PICK d : d = scene_
  OBVIOUS
<1>2. PICK p : p = parent_scene_
  OBVIOUS
<1>3. PICK v : v = edits'
  OBVIOUS
<1>4. PICK k \in Changes :
        /\ IF Refused(k) THEN expected.world[k.o] # None /\ UNCHANGED callers
           ELSE \E types \in Announced(k) : Announce(c, types)
        /\ scene_' = IF Monitored THEN Changed(k, d, p, v) ELSE ChangedPlain(k, d, v)
        /\ expected' = ChangedPlain(k, expected, v)
        /\ diverged' = (diverged \/ Clashing(Shown') \/ Drops(k, scene_'))
  BY <1>1, <1>2, <1>3 DEF ChangeScene
<1>5. /\ callers[c].pc = "idle" /\ ~Locked /\ edits' = edits + 1 /\ edits < MaxEdits
      /\ ghost' = (ghost \/ Stale)
      /\ parent_scene_' = p /\ missed' = missed
      /\ new_scene_update_' = new_scene_update_
      /\ publish_update_types_' = publish_update_types_
      /\ publish_planning_scene_' = publish_planning_scene_ /\ publisher' = publisher
      /\ client' = client /\ subscriber' = subscriber
  BY <1>2 DEF ChangeScene
<1>6. v \in Values /\ edits' \in 0 .. MaxEdits
  BY <1>3, <1>5, ScenePublishingAssumption DEF IInv, SceneTypes, Values
<1>7. Monitored' = Monitored
  BY <1>2, <1>5 DEF Monitored
<1>8. /\ Announcements'
      /\ SceneOnItsWay => SceneOnItsWay'
      /\ GeometryOnItsWay => GeometryOnItsWay'
      /\ GeometryOnItsWay' \/ Refused(k) \/ MovesOnly(k)
  <2>1. CASE Refused(k)
    <3>1. callers' = callers
      BY <1>4, <2>1
    <3> QED
      BY <1>5, <2>1, <3>1 DEF IInv, Announcements, SceneOnItsWay, GeometryOnItsWay
  <2>2. CASE ~Refused(k)
    <3>1. PICK types \in Announced(k) : Announce(c, types)
      BY <1>4, <2>2
    <3>2. Whole(types) /\ ("GEOMETRY" \in types \/ MovesOnly(k))
      BY AnnouncedLemma
    <3> QED
      BY <1>5, <3>1, <3>2, AnnounceLemma DEF IInv
  <2> QED
    BY <2>1, <2>2
<1>9. expected \in Scenes(Values) /\ expected' \in Scenes(Values)
  BY <1>4, <1>6, PlainLemma DEF IInv, SceneTypes
<1>10. ghost' \in BOOLEAN /\ diverged' \in BOOLEAN /\ (diverged' \/ ~Clashing(Shown'))
       /\ (diverged => diverged') /\ (ghost' <=> (ghost \/ Stale))
       /\ (diverged' \/ ~Drops(k, scene_'))
  BY <1>4, <1>5 DEF IInv, SceneTypes, Stale, Clashing, Drops
<1>11. Control'
  BY <1>5, <1>7 DEF IInv, Control
<1>12. PublisherTypes' /\ Replica' = Replica /\ Active' = Active
  BY <1>5 DEF IInv, PublisherTypes, Replica, Active
<1>13. Composed'
  BY <1>5 DEF Composed, Locked
<1>14. CASE ~Monitored
  <2>1. d \in Scenes(Values) /\ scene_' = ChangedPlain(k, d, v) /\ Shown = d /\ Shown' = scene_'
    BY <1>1, <1>4, <1>7, <1>14 DEF IInv, SceneTypes, Shown
  <2>2. ~Stale /\ ~Stale'
    BY <1>7, <1>14 DEF Stale
  <2>3. scene_' \in Scenes(Values)
    BY <1>6, <2>1, PlainLemma
  <2>4. SceneTypes'
    BY <1>5, <1>6, <1>7, <1>9, <1>10, <1>14, <2>3 DEF IInv, SceneTypes
  <2>5. ghost' \/ SameScene(Shown', expected')
    <3>1. ghost \/ SameScene(d, expected)
      BY <2>1, <2>2 DEF IInv, Maintained
    <3> QED
      BY <1>4, <1>6, <1>9, <1>10, <2>1, <3>1, PlainLemma
  <2>6. Maintained'
    BY <2>2, <2>5 DEF Maintained
  <2>7. publisher.pc = "off"
    BY <1>14 DEF IInv, Control
  <2>8. Followed'
    BY <1>5, <1>7, <1>14, <2>7 DEF Followed, Active
  <2> QED
    BY <1>8, <1>11, <1>12, <1>13, <2>4, <2>6, <2>8 DEF IInv
<1>15. CASE Monitored
  <2>1. PICK e : e = scene_'
    OBVIOUS
  <2>2. /\ d \in DiffScenes(Values) /\ p \in Scenes(Values)
        /\ Shown = decoupleParent(d, p) /\ Shown' = decoupleParent(e, p)
        /\ e = Changed(k, d, p, v)
    BY <1>1, <1>2, <1>4, <1>5, <1>7, <1>15, <2>1 DEF IInv, SceneTypes, Shown
  <2>3. Effect(k, d, e, p, v)
    BY <1>6, <2>2, ChangedLemma
  <2>4. Kept(d, e, p) /\ e \in DiffScenes(Values)
    BY <2>3 DEF Effect, Kept
  <2>5. Recorded(d)
    BY <1>1, <1>15 DEF IInv, Followed
  <2>6. /\ Recorded(e)
        /\ \A o \in Objects : e.changes[o] = "NONE" =>
             d.changes[o] = "NONE" /\ e.world[o] = d.world[o]
        /\ Tracked(d, p) /\ Apart(e, p) /\ Told(d, e, p) => Tracked(e, p)
        /\ \A r : Lag(r, d, p) => Lag(r, e, p)
    BY <2>2, <2>4, <2>5, KeptLemma
  <2>7. Stale' => Stale
    BY <1>1, <1>2, <1>5, <1>15, <2>1, <2>6 DEF Stale
  <2>8. SceneTypes'
    BY <1>5, <1>6, <1>7, <1>9, <1>10, <1>15, <2>1, <2>2, <2>4 DEF IInv, SceneTypes
  <2>9. Maintained'
    <3>1. ghost' \/ SameScene(Shown', expected')
      <4>1. CASE ghost \/ Stale
        BY <1>10, <4>1
      <4>2. CASE ~ghost /\ ~Stale
        <5>1. SameScene(decoupleParent(d, p), expected)
          BY <2>2, <4>2 DEF IInv, Maintained
        <5> QED
          BY <1>4, <1>6, <1>9, <2>2, <5>1, PlainLemma
      <4> QED
        BY <4>1, <4>2
    <3>2. Stale' => (SceneOnItsWay' \/ diverged') /\ ghost'
      BY <1>8, <1>10, <2>7 DEF IInv, Maintained
    <3> QED
      BY <3>1, <3>2 DEF Maintained
  <2>10. Tracked(e, p) \/ SceneOnItsWay' \/ diverged'
    <3>1. diverged' \/ Apart(e, p)
      <4>1. PICK s : s = decoupleParent(e, p)
        OBVIOUS
      <4>2. s.attached = State(e, p).attached /\ s.world = e.world
        BY <2>2, <2>4, <4>1, DecoupledLemma
      <4> QED
        BY <1>10, <2>2, <4>1, <4>2 DEF Clashing, Apart
    <3>2. diverged' \/ Told(d, e, p)
      <4>1. CASE k.op # "state"
        BY <2>3, <4>1 DEF Effect
      <4>2. CASE k.op = "state"
        <5>1. State(e, p) = e.state
          BY <2>3, <4>2 DEF Effect, State
        <5>2. Shown.attached = State(d, p).attached
          BY <2>2, DecoupledLemma
        <5> QED
          BY <1>2, <1>10, <1>15, <2>1, <4>2, <5>1, <5>2 DEF Drops, Told
      <4> QED
        BY <4>1, <4>2
    <3> QED
      BY <1>1, <1>2, <1>8, <1>10, <1>15, <2>6, <3>1, <3>2 DEF IInv, Followed
  <2>11. Active => Lag(Replica, e, p) \/ SceneOnItsWay' \/ diverged'
    BY <1>1, <1>2, <1>8, <1>10, <2>6 DEF IInv, Followed
  <2>12. GeometryIsPublished => Clean(e, p) \/ GeometryOnItsWay' \/ diverged'
    <3>1. CASE GeometryOnItsWay'
      BY <3>1
    <3>2. CASE Refused(k)
      <4>1. d.world[k.o] = None /\ k.op \in {"move", "remove"}
        BY <2>2, <3>2, DecoupledLemma DEF Refused
      <4>2. e = d
        BY <2>2, <4>1 DEF Changed, MoveObject, RemoveObject
      <4> QED
        BY <1>1, <1>2, <1>8, <1>10, <1>15, <4>2 DEF IInv, Followed
    <3>3. CASE MovesOnly(k)
      <4>1. e.changes = d.changes /\ e.acm = d.acm
        BY <2>3, <3>3 DEF Effect, MovesOnly
      <4>2. State(e, p).attached = State(d, p).attached
        <5>1. PICK t : t = State(d, p).attached
          OBVIOUS
        <5>2. State(e, p).attached = AttachedAfter(k, d.world, t, v)
          BY <2>3, <5>1 DEF Effect
        <5>3. CASE k.op = "transforms"
          BY <5>1, <5>2, <5>3 DEF AttachedAfter
        <5>4. CASE k.op = "state" /\ k.msg.is_diff /\ k.msg.given \cup k.msg.taken = {}
          <6>1. Attaches(k, d.world) = {} /\ k.msg.given = {}
            BY <5>4 DEF Attaches
          <6>2. t \in Objs(Values)
            BY <2>2, <5>1, StateLemma
          <6>3. AttachedAfter(k, d.world, t, v) = [o \in Objects |-> t[o]]
            BY <5>4, <6>1 DEF AttachedAfter
          <6> QED
            BY <5>1, <5>2, <6>2, <6>3 DEF Objs
        <5> QED
          BY <3>3, <5>3, <5>4 DEF MovesOnly
      <4>3. Clean(d, p) => Clean(e, p)
        BY <4>1, <4>2 DEF Clean
      <4> QED
        BY <1>1, <1>2, <1>8, <1>10, <1>15, <4>3 DEF IInv, Followed
    <3> QED
      BY <1>8, <3>1, <3>2, <3>3
  <2>13. Followed'
    BY <1>5, <1>12, <2>1, <2>6, <2>10, <2>11, <2>12 DEF Followed
  <2> QED
    BY <1>8, <1>11, <1>12, <1>13, <2>8, <2>9, <2>13 DEF IInv
<1> QED
  BY <1>14, <1>15

\* A complete scene is set.
LEMMA SetStep ==
  ASSUME IInv, NEW c \in Callers, SetScene(c)
  PROVE  IInv'
<1>1. PICK p : p = parent_scene_
  OBVIOUS
<1>2. PICK v : v = edits'
  OBVIOUS
<1>3. PICK full \in [joints : {v}, acm : {v}, colors : {Nothing},
                     world : [Objects -> {None, v}], attached : [Objects -> {None, v}]] :
        /\ expected' = full
        /\ IF Monitored THEN parent_scene_' = full /\ scene_' = clearDiffs(p)
           ELSE scene_' = full /\ UNCHANGED parent_scene_
  BY <1>1, <1>2 DEF SetScene, SetSceneAs
<1>4. /\ callers[c].pc = "idle" /\ ~Locked /\ edits' = edits + 1 /\ edits < MaxEdits
      /\ ghost' = FALSE /\ Announce(c, UPDATE_SCENE)
      /\ diverged' = diverged /\ missed' = missed
      /\ new_scene_update_' = new_scene_update_
      /\ publish_update_types_' = publish_update_types_
      /\ publish_planning_scene_' = publish_planning_scene_ /\ publisher' = publisher
      /\ client' = client /\ subscriber' = subscriber
  BY DEF SetScene, SetSceneAs, history
<1>5. v \in Values /\ edits' \in 0 .. MaxEdits
  BY <1>2, <1>4, ScenePublishingAssumption DEF IInv, SceneTypes, Values
<1>6. full \in Scenes(Values) /\ full # NoScene
  <2>1. full \in Scenes(Values)
    BY <1>5 DEF Scenes, Objs, Nothing
  <2> QED
    BY <2>1, ScenePublishingAssumption
<1>7. /\ Announcements' /\ SceneOnItsWay' /\ GeometryOnItsWay'
  <2>1. Whole(UPDATE_SCENE) /\ "OTHER" \in UPDATE_SCENE /\ "GEOMETRY" \in UPDATE_SCENE
    BY DEF Whole, UPDATE_SCENE, UpdateTypes
  <2> QED
    BY <1>4, <2>1, AnnounceLemma DEF IInv
<1>8. Monitored' = Monitored
  BY <1>3, <1>6 DEF Monitored
<1>9. Control'
  BY <1>4, <1>8 DEF IInv, Control
<1>10. PublisherTypes' /\ Active' = Active
  BY <1>4 DEF IInv, PublisherTypes, Active
<1>11. Composed'
  BY <1>4 DEF Composed, Locked
<1>12. CASE ~Monitored
  <2>1. scene_' = full /\ Shown' = full /\ ~Stale'
    BY <1>3, <1>8, <1>12 DEF Shown, Stale
  <2>2. SceneTypes'
    BY <1>3, <1>4, <1>5, <1>6, <1>8, <1>12, <2>1 DEF IInv, SceneTypes
  <2>3. Maintained'
    BY <1>3, <2>1 DEF Maintained, SameScene
  <2>4. Followed'
    BY <1>4, <1>8, <1>12 DEF IInv, Control, Followed, Active
  <2> QED
    BY <1>7, <1>9, <1>10, <1>11, <2>2, <2>3, <2>4 DEF IInv
<1>13. CASE Monitored
  <2>1. PICK d : d = clearDiffs(p)
    OBVIOUS
  <2>2. p \in Scenes(Values) /\ parent_scene_' = full /\ scene_' = d
    BY <1>1, <1>3, <1>13, <2>1 DEF IInv, SceneTypes
  <2>3. /\ d \in DiffScenes(Values) /\ Recorded(d) /\ clearDiffs(d) = d /\ d.acm = None
        /\ \A o \in Objects : d.changes[o] = "NONE"
        /\ State(d, full).joints = full.joints /\ State(d, full).attached = full.attached
    <3>1. d.state = NoState /\ ~NoState.own
      BY <2>1 DEF clearDiffs, NoState
    <3>2. State(d, full).joints = full.joints /\ State(d, full).attached = full.attached
      BY <3>1 DEF State
    <3> QED
      BY <2>1, <2>2, <3>2, ClearedLemma
  <2>4. SceneTypes'
    BY <1>3, <1>4, <1>5, <1>6, <1>8, <1>13, <2>2, <2>3 DEF IInv, SceneTypes
  <2>5. ~Stale' => SameScene(Shown', expected')
    <3>1. Shown' = decoupleParent(d, full)
      BY <1>8, <1>13, <2>2 DEF Shown
    <3>2. PICK s : s = decoupleParent(d, full)
      OBVIOUS
    <3>3. /\ s.joints = full.joints /\ s.attached = full.attached /\ s.world = d.world
          /\ s.acm = full.acm
      BY <1>6, <2>3, <3>2, DecoupledLemma
    <3>4. ASSUME ~Stale'
          PROVE  d.world = full.world
      <4>1. \A o \in Objects : d.world[o] = full.world[o]
        BY <1>8, <1>13, <2>2, <2>3, <3>4 DEF Stale
      <4>2. d.world \in Objs(Values) /\ full.world \in Objs(Values)
        BY <1>6, <2>3 DEF Scenes, DiffScenes
      <4> QED
        BY <4>1, <4>2 DEF Objs
    <3> QED
      BY <1>3, <3>1, <3>2, <3>3, <3>4 DEF SameScene
  <2>6. SameScene(parent_scene_', expected') /\ scene_' = clearDiffs(scene_')
    BY <1>3, <2>2, <2>3 DEF SameScene
  <2>7. Maintained'
    BY <1>7, <2>5, <2>6 DEF Maintained
  <2>8. Followed'
    BY <1>7, <2>2, <2>3 DEF Followed
  <2> QED
    BY <1>7, <1>9, <1>10, <1>11, <2>4, <2>7, <2>8 DEF IInv
<1> QED
  BY <1>12, <1>13

\* Nothing is monitored at first.
LEMMA InitLemma == Init => IInv
<1> SUFFICES ASSUME Init PROVE IInv
  OBVIOUS
<1>1. Empty \in Scenes(Values)
  BY DEF Empty, Scenes, Objs, Nothing
<1>2. ~Monitored /\ ~Stale /\ Shown = Empty
  BY DEF Init, Monitored, Stale, Shown
<1>3. /\ publisher.pc = "off" /\ publisher.types = {} /\ publisher.msg = NoScene
      /\ publisher \in PublisherRecords
  BY DEF Init, PublisherRecords
<1>4. SceneTypes
  <2>1. ~Monitored /\ scene_ \in Scenes(Values)
    BY <1>1, <1>2 DEF Init
  <2>2. edits \in 0 .. MaxEdits
    BY ScenePublishingAssumption DEF Init, ScenePublishingAssumption
  <2>3. subscriber \in Scenes(Values) /\ expected \in Scenes(Values)
    BY <1>1 DEF Init
  <2>4. publish_update_types_ \in PublishChoices
    BY DEF Init
  <2>5. ghost \in BOOLEAN /\ diverged \in BOOLEAN /\ missed \in BOOLEAN
    BY DEF Init
  <2> QED
    BY <2>1, <2>2, <2>3, <2>4, <2>5 DEF SceneTypes
<1>5. PublisherTypes
  BY <1>3 DEF PublisherTypes
<1>6. Control
  BY <1>2, <1>3 DEF Init, Control
<1>7. Announcements
  BY DEF Init, Announcements, Whole, Idle, CallerRecords
<1>8. Maintained /\ Composed /\ Followed
  BY <1>2, <1>3 DEF Init, Maintained, Composed, Followed, SameScene, Active
<1> QED
  BY <1>4, <1>5, <1>6, <1>7, <1>8 DEF IInv

\* Every step keeps the invariant.
LEMMA StepLemma == IInv /\ [Next]_vars => IInv'
<1> SUFFICES ASSUME IInv, [Next]_vars PROVE IInv'
  OBVIOUS
<1>1. ASSUME NEW c \in Callers,
             ChangeScene(c) \/ SetScene(c) \/ ReadUpdate(c) \/ WriteUpdate(c)
      PROVE  IInv'
  BY <1>1, ChangeStep, SetStep, UpdateStep
<1>2. CASE Publisher
  BY <1>2, ComposeFirstStep, PublisherStep, ComposeStep, ResetStep DEF Publisher
<1>3. CASE Start \/ Decouple
  BY <1>3, StartStep, DecoupleStep
<1>4. CASE SetPointer \/ Stop \/ NotifyStop \/ Join \/ UNCHANGED vars
  BY <1>4, ClientStep
<1> QED
  BY <1>1, <1>2, <1>3, <1>4 DEF Next

\* The invariant holds in every reachable state.
LEMMA Invariance == Spec => []IInv
  BY InitLemma, StepLemma, PTL DEF Spec

-----------------------------------------------------------------------------
(* The theorems.                                                           *)

\* The scenes, the messages and the positions of all threads keep their types.
THEOREM TypeCorrect == Spec => []TypeOK
<1>1. IInv => TypeOK
  BY DEF IInv, SceneTypes, PublisherTypes, Control, Announcements, Whole,
         TypeOK, CallerRecords, PublisherRecords
<1> QED
  BY <1>1, Invariance, PTL

\* What is maintained is what the messages make of one plain scene, whatever is
\* published, started and stopped in between.
THEOREM MaintainedIsExpectedAlways == Spec => []MaintainedIsExpected
<1>1. IInv => MaintainedIsExpected
  BY DEF IInv, Maintained, MaintainedIsExpected
<1> QED
  BY <1>1, Invariance, PTL

\* Once all is announced and published, a subscriber that is sent the objects has
\* those of the maintained scene, but for the recorded races.
THEOREM SubscriberFollowsAlways ==
  ASSUME GeometryIsPublished
  PROVE  Spec => []SubscriberFollows
<1>1. ASSUME IInv, Quiet, ~diverged
      PROVE  /\ subscriber.world = Shown.world /\ subscriber.attached = Shown.attached
             /\ subscriber.acm = Shown.acm
  <2>1. /\ publisher.pc = "waiting" /\ Active /\ Replica = subscriber
        /\ ~SceneOnItsWay /\ ~GeometryOnItsWay
    BY <1>1 DEF Quiet, Active, Replica, SceneOnItsWay, GeometryOnItsWay, IInv, Announcements
  <2>2. PICK d : d = scene_
    OBVIOUS
  <2>3. PICK p : p = parent_scene_
    OBVIOUS
  <2>4. Monitored /\ Shown = decoupleParent(d, p)
    BY <1>1, <2>1, <2>2, <2>3 DEF IInv, Control, Shown
  <2>5. d \in DiffScenes(Values) /\ p \in Scenes(Values) /\ subscriber \in Scenes(Values)
    BY <1>1, <2>2, <2>3, <2>4 DEF IInv, SceneTypes
  <2>6. Lag(subscriber, d, p) /\ Clean(d, p)
    BY <1>1, <2>1, <2>2, <2>3, <2>4 DEF IInv, Followed
  <2>7. ~Stale
    BY <1>1, <2>1 DEF IInv, Maintained
  <2>8. PICK s : s = Shown
    OBVIOUS
  <2>9. /\ s.attached = State(d, p).attached /\ s.world = d.world
        /\ s.acm = IF d.acm # None THEN d.acm ELSE p.acm
    BY <2>4, <2>5, <2>8, DecoupledLemma
  <2>10. subscriber.attached = s.attached /\ subscriber.acm = s.acm
    BY <2>6, <2>9 DEF Lag, Clean
  <2>11. \A o \in Objects : subscriber.world[o] = d.world[o]
    BY <2>2, <2>3, <2>4, <2>6, <2>7 DEF Lag, Clean, Stale
  <2>12. subscriber.world \in Objs(Values) /\ d.world \in Objs(Values)
    BY <2>5 DEF Scenes, DiffScenes
  <2>13. subscriber.world = d.world
    BY <2>11, <2>12 DEF Objs
  <2> QED
    BY <2>8, <2>9, <2>10, <2>13
<1>2. IInv => SubscriberFollows
  BY <1>1 DEF SubscriberFollows
<1> QED
  BY <1>2, Invariance, PTL
================================================================================
