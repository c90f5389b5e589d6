----------------------------- MODULE SceneDiff_proofs -----------------------------
(***************************************************************************)
(* Proofs about SceneDiff, for any set of objects and any number of        *)
(* operations: a diff scene records every change of its world, and a       *)
(* subscriber who applies the messages made from the records has the scene *)
(* that the diffs were pushed into.                                        *)
(***************************************************************************)
EXTENDS SceneDiff, TLAPS

-----------------------------------------------------------------------------
(* The inductive invariant, about a diff scene d and its parent p.         *)

Types ==
  /\ parent_scene_ \in Scenes(Nat)
  /\ scene_ \in DiffScenes(Nat)
  /\ edits \in Nat /\ clash \in BOOLEAN /\ dropped \subseteq Objects

\* Every change of the world has its record, and a scene without a state of its
\* own has none of its parts.
Recorded(d, p) ==
  /\ \A o \in Objects :
       /\ d.changes[o] = "NONE" => d.world[o] = p.world[o]
       /\ d.changes[o] = "DESTROY" => d.world[o] = None
       /\ d.changes[o] = "CHANGE" => d.world[o] # None
  /\ ~d.state.own => d.state = NoState
  /\ d.state.own /\ d.state.joints = None => p.joints = None

Apart(d, p) ==
  \A o \in Objects : d.world[o] = None \/ State(d, p).attached[o] = None

\* While no id is both in the world and attached: what was detached, but for the
\* objects of out, has a record in the world, and a removed object that is attached
\* is so in the scene's own state.
Tracked(d, p, out) ==
  /\ Apart(d, p)
  /\ \A o \in Objects : p.attached[o] # None =>
       /\ d.changes[o] = "NONE" /\ o \notin out => State(d, p).attached[o] # None
       /\ d.changes[o] = "DESTROY" /\ State(d, p).attached[o] # None => d.state.own

IInv ==
  /\ Types
  /\ Recorded(scene_, parent_scene_)
  /\ clash \/ Tracked(scene_, parent_scene_, dropped)
  /\ ReplicaFollows

-----------------------------------------------------------------------------
(* The operations keep a diff scene a diff scene with its records.         *)

\* The state of a diff scene is a state.
LEMMA StateLemma ==
  ASSUME NEW d \in DiffScenes(Nat), NEW p \in Scenes(Nat)
  PROVE  /\ State(d, p) \in [own : BOOLEAN, joints : Nat, attached : Objs(Nat)]
         /\ Recorded(d, p) /\ State(d, p).joints = None => p.joints = None
  BY DEF State, DiffScenes, Scenes, Objs, Recorded, None

\* What an operation on object o of the world may make of a diff scene.
Touched(d, e, o) ==
  /\ e \in DiffScenes(Nat)
  /\ e.state = d.state
  /\ \A q \in Objects : q # o => e.world[q] = d.world[q] /\ e.changes[q] = d.changes[q]
  /\ \/ e.world[o] = d.world[o] /\ e.changes[o] = d.changes[o]
     \/ e.world[o] # None /\ e.changes[o] = "CHANGE"
     \/ d.world[o] # None /\ e.world[o] = None /\ e.changes[o] = "DESTROY"

\* An object that is added is in the world, with a record of its change.
LEMMA AddToObjectLemma ==
  ASSUME NEW d \in DiffScenes(Nat), NEW o \in Objects, NEW v \in Nat \ {0}
  PROVE  /\ Touched(d, addToObject(d, o, v), o)
         /\ addToObject(d, o, v).world[o] = v
         /\ addToObject(d, o, v).changes[o] = "CHANGE"
  BY DEF Touched, addToObject, DiffScenes, Objs, Actions, None

\* An object that is removed is not in the world, and its colour is untouched.
LEMMA RemoveFromWorldLemma ==
  ASSUME NEW d \in DiffScenes(Nat), NEW o \in Objects
  PROVE  /\ Touched(d, removeObject(d, o), o)
         /\ removeObject(d, o).world[o] = None
         /\ removeObject(d, o).colors = d.colors
<1>1. CASE d.world[o] = None
  BY <1>1 DEF Touched, removeObject
<1>2. CASE d.world[o] # None
  BY <1>2 DEF Touched, removeObject, DiffScenes, Objs, Actions, None
<1> QED
  BY <1>1, <1>2

\* Adding, moving and removing objects of the world.
LEMMA WorldOpsLemma ==
  ASSUME NEW d \in DiffScenes(Nat), NEW o \in Objects, NEW v \in Nat \ {0}
  PROVE  /\ Touched(d, AddObject(d, o, v), o)
         /\ Touched(d, MoveObject(d, o, v), o)
         /\ Touched(d, RemoveObject(d, o), o)
<1>1. Touched(d, AddObject(d, o, v), o)
  <2> DEFINE r == removeObject(d, o)
             a == addToObject(r, o, v)
  <2>1. Touched(d, r, o)
    BY RemoveFromWorldLemma
  <2>2. r \in DiffScenes(Nat)
    BY <2>1 DEF Touched
  <2> HIDE DEF r
  <2>3. Touched(r, a, o) /\ a.world[o] = v /\ a.changes[o] = "CHANGE"
    BY <2>2, AddToObjectLemma
  <2> HIDE DEF a
  <2>4. Touched(d, a, o)
    BY <2>1, <2>3 DEF Touched, None
  <2> QED
    BY <2>4 DEF AddObject, a, r
<1>2. Touched(d, MoveObject(d, o, v), o)
  BY AddToObjectLemma DEF MoveObject, Touched
<1>3. Touched(d, RemoveObject(d, o), o)
  <2>1. CASE d.world[o] = None
    BY <2>1 DEF RemoveObject, Touched
  <2>2. CASE d.world[o] # None
    <3> DEFINE r == removeObject(d, o)
               e == [r EXCEPT !.colors[o] = None]
    <3>1. Touched(d, r, o)
      BY RemoveFromWorldLemma
    <3> HIDE DEF r
    <3>2. Touched(d, e, o)
      BY <3>1 DEF Touched, DiffScenes, Objs, None
    <3> QED
      BY <2>2, <3>2 DEF RemoveObject, r
  <2> QED
    BY <2>1, <2>2
<1> QED
  BY <1>1, <1>2, <1>3

\* Such an operation keeps the records.
LEMMA TouchedLemma ==
  ASSUME NEW d \in DiffScenes(Nat), NEW p \in Scenes(Nat), NEW o \in Objects, NEW e,
         NEW out, Recorded(d, p), Touched(d, e, o)
  PROVE  /\ e \in DiffScenes(Nat) /\ Recorded(e, p)
         /\ Tracked(d, p, out) /\ Apart(e, p) => Tracked(e, p, out)
<1>1. State(e, p) = State(d, p)
  BY DEF Touched, State
<1>2. Recorded(e, p)
  BY DEF Touched, Recorded
<1>3. Tracked(d, p, out) /\ Apart(e, p) => Tracked(e, p, out)
  BY <1>1 DEF Touched, Tracked, Apart
<1> QED
  BY <1>2, <1>3 DEF Touched

\* What every operation on the scene shall do, which turns the objects without a
\* record from out into more.
Keeps(d, e, p, out, more) ==
  /\ e \in DiffScenes(Nat) /\ Recorded(e, p)
  /\ Tracked(d, p, out) /\ Apart(e, p) => Tracked(e, p, more)

\* The operations on an object of the world keep the records.
LEMMA EditWorldLemma ==
  ASSUME NEW d \in DiffScenes(Nat), NEW p \in Scenes(Nat), NEW out, Recorded(d, p),
         NEW o \in Objects, NEW v \in Nat \ {0}
  PROVE  /\ Keeps(d, AddObject(d, o, v), p, out, out)
         /\ Keeps(d, MoveObject(d, o, v), p, out, out)
         /\ Keeps(d, RemoveObject(d, o), p, out, out)
  BY WorldOpsLemma, TouchedLemma DEF Keeps

\* The operations on the whole world keep the records.
LEMMA AllObjectsLemma ==
  ASSUME NEW d \in DiffScenes(Nat), NEW p \in Scenes(Nat), NEW out, Recorded(d, p),
         NEW w \in Objs(Nat)
  PROVE  /\ Keeps(d, RemoveAll(d), p, out, out)
         /\ Keeps(d, ReplaceWorld(d, w), p, out, out)
<1>1. Keeps(d, RemoveAll(d), p, out, out)
  <2> DEFINE e == RemoveAll(d)
  <2>1. /\ e \in DiffScenes(Nat) /\ e.state = d.state
        /\ \A o \in Objects : /\ e.world[o] = None
                              /\ e.changes[o] = IF d.world[o] # None THEN "DESTROY"
                                                ELSE d.changes[o]
    BY DEF RemoveAll, DiffScenes, Objs, Actions, Nothing, None
  <2> HIDE DEF e
  <2>2. State(e, p) = State(d, p)
    BY <2>1 DEF State
  <2>3. Recorded(e, p)
    BY <2>1 DEF Recorded, None
  <2>4. Tracked(d, p, out) /\ Apart(e, p) => Tracked(e, p, out)
    BY <2>1, <2>2 DEF Tracked, Apart, Recorded, None
  <2> QED
    BY <2>1, <2>3, <2>4 DEF Keeps, e
<1>2. Keeps(d, ReplaceWorld(d, w), p, out, out)
  <2> DEFINE e == ReplaceWorld(d, w)
  <2>1. /\ e \in DiffScenes(Nat) /\ e.state = d.state
        /\ \A o \in Objects : /\ e.world[o] = w[o]
                              /\ e.changes[o] = IF w[o] # None THEN "CHANGE"
                                                ELSE IF d.world[o] # None THEN "DESTROY"
                                                ELSE d.changes[o]
    BY DEF ReplaceWorld, DiffScenes, Objs, Actions, None
  <2> HIDE DEF e
  <2>2. State(e, p) = State(d, p)
    BY <2>1 DEF State
  <2>3. Recorded(e, p)
    BY <2>1 DEF Recorded, None
  <2>4. Tracked(d, p, out) /\ Apart(e, p) => Tracked(e, p, out)
    BY <2>1, <2>2 DEF Tracked, Apart, Recorded, None
  <2> QED
    BY <2>1, <2>3, <2>4 DEF Keeps, e
<1> QED
  BY <1>1, <1>2

\* Colours and the matrix touch neither the world nor the robot.
LEMMA SettingsLemma ==
  ASSUME NEW d \in DiffScenes(Nat), NEW p \in Scenes(Nat), NEW out, Recorded(d, p),
         NEW v \in Nat \ {0}
  PROVE  /\ \A o \in Objects : Keeps(d, SetColor(d, o, v), p, out, out)
         /\ Keeps(d, SetMatrix(d, v), p, out, out)
<1>1. ASSUME NEW e \in DiffScenes(Nat), e.world = d.world, e.changes = d.changes,
             e.state = d.state
      PROVE  Keeps(d, e, p, out, out)
  BY <1>1 DEF Keeps, Recorded, Tracked, Apart, State
<1>2. \A o \in Objects : Keeps(d, SetColor(d, o, v), p, out, out)
  BY <1>1 DEF SetColor, DiffScenes, Objs
<1>3. Keeps(d, SetMatrix(d, v), p, out, out)
  BY <1>1 DEF SetMatrix, DiffScenes, Objs
<1> QED
  BY <1>2, <1>3

\* A robot state keeps the records of the world it takes objects from; what it
\* drops has none.
LEMMA SetStateLemma ==
  ASSUME NEW d \in DiffScenes(Nat), NEW p \in Scenes(Nat), NEW out, Recorded(d, p),
         NEW is_diff \in BOOLEAN, NEW given \in SUBSET Objects, NEW taken \in SUBSET Objects,
         NEW v \in Nat \ {0}, NEW e, e = SetState(d, p, is_diff, given, taken, v),
         NEW lost, lost = IF is_diff THEN {}
                          ELSE {o \in Objects : /\ State(d, p).attached[o] # None
                                                /\ e.state.attached[o] = None}
  PROVE  Keeps(d, e, p, out, out \cup lost)
<1>1. PICK t : t = State(d, p).attached
  OBVIOUS
<1>2. PICK attaches : attaches = given \cup {o \in taken : d.world[o] # None}
  OBVIOUS
<1>3. PICK a : a = [o \in Objects |-> IF o \in given THEN v
                                      ELSE IF o \in attaches THEN d.world[o]
                                      ELSE IF is_diff THEN t[o] ELSE None]
  OBVIOUS
<1>4. PICK w : w = [o \in Objects |-> IF o \in attaches THEN None ELSE d.world[o]]
  OBVIOUS
<1>5. PICK c : c = [o \in Objects |-> IF o \in attaches /\ d.world[o] # None THEN "DESTROY"
                                      ELSE d.changes[o]]
  OBVIOUS
<1>6. \A o \in Objects : t[o] \in Nat /\ d.world[o] \in Nat /\ d.changes[o] \in Actions
  BY <1>1, StateLemma DEF DiffScenes, Objs, None
<1>7. a \in Objs(Nat) /\ w \in Objs(Nat) /\ c \in [Objects -> Actions]
  <2>1. a \in Objs(Nat) /\ w \in Objs(Nat)
    BY <1>3, <1>4, <1>6 DEF Objs, None
  <2>2. c \in [Objects -> Actions]
    BY <1>5, <1>6 DEF Actions
  <2> QED
    BY <2>1, <2>2
<1>8. PICK st : st = [own |-> TRUE, joints |-> v, attached |-> a]
  OBVIOUS
<1>9. /\ st \in [own : BOOLEAN, joints : Nat, attached : Objs(Nat)]
      /\ st.own /\ st.joints = v /\ st.attached = a
  BY <1>7, <1>8
<1>10. e = [d EXCEPT !.state = st, !.world = w, !.changes = c]
  <2>1. PICK kept : kept = IF is_diff THEN State(d, p).attached ELSE Nothing
    OBVIOUS
  <2>2. \A o \in Objects : kept[o] = IF is_diff THEN t[o] ELSE None
    BY <1>1, <2>1 DEF Nothing
  <2>3. a = [o \in Objects |-> IF o \in given THEN v
                               ELSE IF o \in attaches THEN d.world[o] ELSE kept[o]]
    BY <1>3, <2>2
  <2> QED
    BY <1>2, <1>4, <1>5, <1>8, <2>1, <2>3, Zenon DEF SetState
<1>11. e \in DiffScenes(Nat) /\ e.state = st /\ e.world = w /\ e.changes = c
  BY <1>7, <1>9, <1>10 DEF DiffScenes, None
<1>12. Recorded(e, p)
  BY <1>4, <1>5, <1>9, <1>11 DEF Recorded, None
<1>13. State(e, p) = st
  BY <1>9, <1>11 DEF State
<1>14. ASSUME Tracked(d, p, out), NEW o \in Objects, p.attached[o] # None,
              e.changes[o] = "NONE", o \notin out \cup lost
       PROVE  a[o] # None
  <2>1. d.changes[o] = "NONE" /\ (o \in attaches => o \in given)
    <3>1. c[o] = "NONE"
      BY <1>11, <1>14
    <3>2. o \in attaches => o \in given \/ d.world[o] # None
      BY <1>2
    <3> QED
      BY <1>5, <3>1, <3>2
  <2>2. t[o] # None
    BY <1>1, <1>14, <2>1 DEF Tracked
  <2>3. CASE is_diff
    BY <1>3, <2>1, <2>2, <2>3 DEF None
  <2>4. CASE ~is_diff
    BY <1>1, <1>9, <1>11, <1>14, <2>2, <2>4
  <2> QED
    BY <2>3, <2>4
<1>15. Tracked(d, p, out) /\ Apart(e, p) => Tracked(e, p, out \cup lost)
  BY <1>9, <1>11, <1>13, <1>14 DEF Tracked
<1> QED
  BY <1>11, <1>12, <1>15 DEF Keeps

-----------------------------------------------------------------------------
(* Attaching and detaching.                                                *)

\* A scene with a state of its own shows what it showed before.
LEMMA OwnLemma ==
  ASSUME NEW d \in DiffScenes(Nat), NEW p \in Scenes(Nat), NEW out, Recorded(d, p),
         NEW e, e = [d EXCEPT !.state = State(d, p)]
  PROVE  /\ e \in DiffScenes(Nat) /\ Recorded(e, p)
         /\ e.world = d.world /\ e.changes = d.changes /\ e.state = State(d, p)
         /\ e.state.own /\ State(e, p) = State(d, p)
         /\ Tracked(d, p, out) => Tracked(e, p, out)
<1>1. State(d, p) \in [own : BOOLEAN, joints : Nat, attached : Objs(Nat)] /\ State(d, p).own
  BY StateLemma DEF State
<1>2. /\ e \in DiffScenes(Nat)
      /\ e.world = d.world /\ e.changes = d.changes /\ e.state = State(d, p)
  BY <1>1 DEF DiffScenes
<1>3. State(e, p) = State(d, p)
  BY <1>1, <1>2 DEF State
<1>4. Recorded(e, p)
  BY <1>1, <1>2, StateLemma DEF Recorded
<1>5. Tracked(d, p, out) => Tracked(e, p, out)
  BY <1>1, <1>2, <1>3 DEF Tracked, Apart
<1> QED
  BY <1>1, <1>2, <1>3, <1>4, <1>5

\* Attaching an object keeps the records of the world it is taken from.
LEMMA AttachLemma ==
  ASSUME NEW d \in DiffScenes(Nat), NEW p \in Scenes(Nat), NEW out, Recorded(d, p),
         NEW o \in Objects, NEW v \in Nat
  PROVE  Keeps(d, Attach(d, p, o, v), p, out, out)
<1> DEFINE own == [d EXCEPT !.state = State(d, p)]
           shape == IF v # None THEN v ELSE d.world[o]
           r == removeObject(own, o)
           e == [r EXCEPT !.state.attached[o] = shape]
<1>1. /\ own \in DiffScenes(Nat) /\ Recorded(own, p)
      /\ own.state.own /\ State(own, p) = State(d, p) /\ own.world = d.world
      /\ own.state = State(d, p)
      /\ Tracked(d, p, out) => Tracked(own, p, out)
  BY OwnLemma
<1>2. CASE shape = None
  <2>1. Keeps(d, own, p, out, out)
    BY <1>1 DEF Keeps
  <2> QED
    BY <1>2, <2>1 DEF Attach
<1>3. CASE shape # None
  <2>1. shape \in Nat \ {0}
    BY <1>3 DEF DiffScenes, Objs, None
  <2> HIDE DEF own, shape
  <2>2. Touched(own, r, o) /\ r.world[o] = None
    BY <1>1, RemoveFromWorldLemma
  <2> HIDE DEF r
  <2>3. r \in DiffScenes(Nat) /\ r.state = State(d, p) /\ Recorded(r, p)
    BY <1>1, <2>2, TouchedLemma DEF Touched
  <2>4. /\ e \in DiffScenes(Nat) /\ e.world = r.world /\ e.changes = r.changes
        /\ e.state.own /\ e.state.joints = r.state.joints
        /\ e.state.attached[o] = shape
        /\ \A q \in Objects : q # o => e.state.attached[q] = r.state.attached[q]
    BY <1>1, <2>1, <2>3 DEF DiffScenes, Objs
  <2> HIDE DEF e
  <2>5. State(e, p) = e.state
    BY <2>4 DEF State
  <2>6. Recorded(e, p)
    BY <2>3, <2>4, <1>1 DEF Recorded
  <2>7. Tracked(own, p, out) /\ Apart(e, p) => Tracked(e, p, out)
    BY <1>1, <2>1, <2>2, <2>3, <2>4, <2>5 DEF Tracked, Touched, None
  <2>8. Keeps(d, e, p, out, out)
    BY <1>1, <2>4, <2>6, <2>7 DEF Keeps
  <2> QED
    BY <1>3, <2>8 DEF Attach, e, r, own, shape
<1> QED
  BY <1>2, <1>3
\* Detaching an object keeps the records of the world it is put into.
LEMMA DetachLemma ==
  ASSUME NEW d \in DiffScenes(Nat), NEW p \in Scenes(Nat), NEW out, Recorded(d, p),
         NEW o \in Objects
  PROVE  Keeps(d, Detach(d, p, o), p, out, out)
<1> DEFINE own == [d EXCEPT !.state = State(d, p)]
           shape == own.state.attached[o]
           back == IF shape = None \/ d.world[o] # None THEN own ELSE addToObject(own, o, shape)
           e == [back EXCEPT !.state.attached[o] = None]
<1>1. /\ own \in DiffScenes(Nat) /\ Recorded(own, p)
      /\ own.state.own /\ State(own, p) = State(d, p) /\ own.world = d.world
      /\ own.state = State(d, p)
      /\ Tracked(d, p, out) => Tracked(own, p, out)
  BY OwnLemma
<1> HIDE DEF own
<1>2. shape \in Nat
  BY <1>1 DEF DiffScenes, Objs, None
<1>3. /\ Touched(own, back, o)
      /\ shape # None /\ own.world[o] = None => back.changes[o] = "CHANGE"
  <2>1. CASE shape = None \/ d.world[o] # None
    BY <1>1, <2>1 DEF Touched
  <2>2. CASE shape # None /\ d.world[o] = None
    <3>1. shape \in Nat \ {0}
      BY <1>2, <2>2 DEF None
    <3> HIDE DEF shape
    <3>2. /\ Touched(own, addToObject(own, o, shape), o)
          /\ addToObject(own, o, shape).changes[o] = "CHANGE"
      BY <1>1, <3>1, AddToObjectLemma
    <3> QED
      BY <2>2, <3>2
  <2> QED
    BY <2>1, <2>2
<1> HIDE DEF back
<1>4. back \in DiffScenes(Nat) /\ back.state = own.state /\ Recorded(back, p)
  BY <1>1, <1>3, TouchedLemma DEF Touched
<1>5. /\ e \in DiffScenes(Nat) /\ e.world = back.world /\ e.changes = back.changes
      /\ e.state.own /\ e.state.joints = back.state.joints
      /\ e.state.attached[o] = None
      /\ \A q \in Objects : q # o => e.state.attached[q] = back.state.attached[q]
  BY <1>1, <1>4 DEF DiffScenes, Objs, None
<1> HIDE DEF e
<1>6. State(e, p) = e.state
  BY <1>5 DEF State
<1>7. Recorded(e, p)
  BY <1>1, <1>4, <1>5 DEF Recorded
<1>8. Tracked(own, p, out) /\ Apart(e, p) => Tracked(e, p, out)
  BY <1>1, <1>3, <1>4, <1>5, <1>6 DEF Tracked, Touched, Apart, None
<1>9. Keeps(d, e, p, out, out)
  BY <1>1, <1>5, <1>7, <1>8 DEF Keeps
<1> QED
  BY <1>9 DEF Detach, e, back, own

-----------------------------------------------------------------------------
(* Publishing and recoupling.                                              *)

\* A scene that was just cleared has nothing to record.
LEMMA ClearedLemma ==
  ASSUME NEW p \in Scenes(Nat), NEW out
  PROVE  /\ clearDiffs(p) \in DiffScenes(Nat) /\ Recorded(clearDiffs(p), p)
         /\ (\A o \in Objects : p.world[o] = None \/ p.attached[o] = None)
              => Tracked(clearDiffs(p), p, out)
  BY DEF clearDiffs, Scenes, DiffScenes, Objs, Actions, NoState, Nothing, None,
         Recorded, Tracked, Apart, State

\* Making a complete scene of a diff scene, and pushing it into its parent.
LEMMA CompleteLemma ==
  ASSUME NEW d \in DiffScenes(Nat), NEW p \in Scenes(Nat), Recorded(d, p)
  PROVE  /\ decoupleParent(d, p) \in Scenes(Nat)
         /\ pushDiffs(d, p) \in Scenes(Nat)
         /\ Agree(pushDiffs(d, p), decoupleParent(d, p))
<1> DEFINE j == State(d, p).joints
           a == State(d, p).attached
<1>1. j \in Nat /\ a \in Objs(Nat)
  BY StateLemma
<1> HIDE DEF j, a
<1>2. decoupleParent(d, p) \in Scenes(Nat)
  <2>1. [o \in Objects |-> Color(d, p, o)] \in Objs(Nat)
    BY DEF Color, DiffScenes, Scenes, Objs
  <2>2. (IF d.acm # None THEN d.acm ELSE p.acm) \in Nat /\ d.world \in Objs(Nat)
    BY DEF DiffScenes, Scenes, None
  <2> QED
    BY <1>1, <2>1, <2>2 DEF decoupleParent, Scenes, j, a
<1>3. pushDiffs(d, p).world = d.world /\ pushDiffs(d, p).world \in Objs(Nat)
  <2> DEFINE W(o) == CASE d.changes[o] = "NONE"    -> p.world[o]
                       [] d.changes[o] = "DESTROY" -> None
                       [] d.changes[o] = "CHANGE"  -> d.world[o]
  <2>1. ASSUME NEW o \in Objects
        PROVE  W(o) = d.world[o]
    <3>1. CASE d.changes[o] = "NONE"
      BY <3>1 DEF Recorded
    <3>2. CASE d.changes[o] = "DESTROY"
      BY <3>2 DEF Recorded
    <3>3. CASE d.changes[o] = "CHANGE"
      BY <3>3
    <3> QED
      BY <3>1, <3>2, <3>3 DEF DiffScenes, Actions
  <2>2. d.world \in Objs(Nat)
    BY DEF DiffScenes, None
  <2>3. pushDiffs(d, p).world = [o \in Objects |-> W(o)]
    BY DEF pushDiffs
  <2> HIDE DEF W
  <2> QED
    BY <2>1, <2>2, <2>3 DEF Objs
<1>4. pushDiffs(d, p) \in Scenes(Nat)
  <2> DEFINE C(o) == IF d.changes[o] = "DESTROY" THEN None
                     ELSE IF d.changes[o] = "CHANGE" \/ d.state.attached[o] # None
                     THEN Color(d, p, o) ELSE p.colors[o]
  <2>1. \A o \in Objects : C(o) \in Nat \cup {None}
    BY DEF Color, DiffScenes, Scenes, Objs, None
  <2>2. (IF d.acm # None THEN d.acm ELSE p.acm) \in Nat \cup {None}
    BY DEF DiffScenes, Scenes, None
  <2>3. /\ pushDiffs(d, p).colors = [o \in Objects |-> C(o)]
        /\ pushDiffs(d, p).acm = IF d.acm # None THEN d.acm ELSE p.acm
        /\ pushDiffs(d, p).joints = j /\ pushDiffs(d, p).attached = a
    BY DEF pushDiffs, j, a
  <2> HIDE DEF C
  <2>4. pushDiffs(d, p) = [joints |-> j, attached |-> a, world |-> pushDiffs(d, p).world,
                           colors |-> [o \in Objects |-> C(o)],
                           acm |-> IF d.acm # None THEN d.acm ELSE p.acm]
    BY Zenon DEF pushDiffs, C, j, a
  <2>5. [o \in Objects |-> C(o)] \in Objs(Nat)
    BY <2>1 DEF Objs
  <2> QED
    BY <1>1, <1>3, <2>2, <2>4, <2>5 DEF Scenes, None
<1>5. Agree(pushDiffs(d, p), decoupleParent(d, p))
  BY <1>3 DEF Agree, pushDiffs, decoupleParent
<1> QED
  BY <1>2, <1>4, <1>5

\* The message does to a replica of the parent what pushDiffs() does to it, but for
\* the objects without a record that it does not name.
LEMMA PublishLemma ==
  ASSUME NEW d \in DiffScenes(Nat), NEW p \in Scenes(Nat), NEW r, NEW out,
         Recorded(d, p), Tracked(d, p, out), AgreeBut(r, p, out),
         NEW left,
         left = {o \in out \ getPlanningSceneDiffMsg(d, p).detached :
                   getPlanningSceneDiffMsg(d, p).attached[o] = None}
  PROVE  AgreeBut(setPlanningSceneDiffMsg(r, getPlanningSceneDiffMsg(d, p)), pushDiffs(d, p),
                  left)
<1> DEFINE m == getPlanningSceneDiffMsg(d, p)
           s == setPlanningSceneDiffMsg(r, m)
           t == State(d, p)
<1>1. /\ m.joints = d.state.joints /\ m.attached = d.state.attached /\ m.acm = d.acm
      /\ m.removed = {o \in Objects : d.changes[o] = "DESTROY" /\ d.state.attached[o] = None}
      /\ \A o \in Objects :
           /\ o \in m.detached <=> /\ p.attached[o] # None
                                   /\ \/ o \in m.removed
                                      \/ d.changes[o] = "CHANGE"
           /\ m.changed[o] = IF d.changes[o] = "CHANGE" THEN d.world[o] ELSE None
  BY DEF getPlanningSceneDiffMsg
<1>0. \A o \in Objects \ left : o \in m.detached \/ m.attached[o] # None \/ o \notin out
  OBVIOUS
<1> HIDE DEF m
<1>2. /\ t = IF d.state.own THEN d.state
             ELSE [own |-> TRUE, joints |-> p.joints, attached |-> p.attached]
      /\ t.attached \in Objs(Nat)
      /\ \A o \in Objects : d.world[o] = None \/ t.attached[o] = None
      /\ \A o \in Objects : p.attached[o] # None =>
           /\ d.changes[o] = "NONE" /\ o \notin out => t.attached[o] # None
           /\ d.changes[o] = "DESTROY" /\ t.attached[o] # None => d.state.own
  BY StateLemma DEF Tracked, Apart, State
<1> HIDE DEF t
<1>3. s.joints = t.joints /\ s.acm = IF d.acm # None THEN d.acm ELSE p.acm
  BY <1>1, <1>2 DEF setPlanningSceneDiffMsg, Recorded, NoState, AgreeBut, None
<1>4. \A o \in Objects : d.state.attached[o] # None => d.state.own
  BY DEF Recorded, NoState, Nothing
<1>5. ASSUME NEW o \in Objects \ left
      PROVE  /\ o \in m.detached => t.attached[o] = None
             /\ o \notin m.detached => t.attached[o] = Override(r.attached, m.attached)[o]
  <2>1. /\ d.state.attached[o] # None =>
             Override(r.attached, m.attached)[o] = d.state.attached[o]
        /\ d.state.attached[o] = None /\ o \notin out =>
             Override(r.attached, m.attached)[o] = p.attached[o]
    BY <1>1 DEF Override, AgreeBut
  <2>2. d.changes[o] \in Actions
    BY DEF DiffScenes
  <2>3. CASE d.state.own
    BY <1>0, <1>1, <1>2, <2>1, <2>2, <2>3 DEF Recorded, Actions
  <2>4. CASE ~d.state.own
    BY <1>0, <1>1, <1>2, <1>4, <2>1, <2>2, <2>4 DEF Recorded, Actions
  <2> QED
    BY <2>3, <2>4
<1>6. \A o \in Objects \ left : s.attached[o] = t.attached[o]
  <2>1. s.attached = [o \in Objects |-> IF o \in m.detached THEN None
                                        ELSE Override(r.attached, m.attached)[o]]
    BY DEF setPlanningSceneDiffMsg
  <2> QED
    BY <1>5, <2>1
<1> DEFINE world1 == [o \in Objects |-> IF m.attached[o] # None THEN None ELSE r.world[o]]
           world2 == [o \in Objects |->
                        IF o \in m.detached /\ world1[o] = None
                        THEN Override(r.attached, m.attached)[o] ELSE world1[o]]
<1>7. s.world = [o \in Objects |-> IF o \in m.removed THEN None
                                   ELSE Override(world2, m.changed)[o]]
  BY Zenon DEF setPlanningSceneDiffMsg
<1>8. ASSUME NEW o \in Objects
      PROVE  s.world[o] = d.world[o]
  <2>1. d.changes[o] \in Actions
    BY DEF DiffScenes
  <2>2. world2[o] = IF o \in m.detached /\ world1[o] = None
                    THEN Override(r.attached, m.attached)[o] ELSE world1[o]
    OBVIOUS
  <2>3. world1[o] = IF d.state.attached[o] # None THEN None ELSE p.world[o]
    BY <1>1 DEF AgreeBut
  <2> HIDE DEF world1, world2
  <2>4. s.world[o] = IF o \in m.removed THEN None
                     ELSE IF m.changed[o] # None THEN m.changed[o] ELSE world2[o]
    BY <1>7 DEF Override
  <2>5. CASE d.changes[o] = "CHANGE"
    BY <1>1, <2>4, <2>5 DEF Recorded
  <2>6. CASE d.changes[o] = "DESTROY"
    BY <1>1, <2>2, <2>3, <2>4, <2>6 DEF Recorded
  <2>7. CASE d.changes[o] = "NONE"
    BY <1>1, <1>2, <1>4, <2>2, <2>3, <2>4, <2>7 DEF Recorded
  <2> QED
    BY <2>1, <2>5, <2>6, <2>7 DEF Actions
<1>9. s.world = d.world
  <2>1. s.world = [o \in Objects |-> s.world[o]]
    BY Zenon, <1>7
  <2>2. d.world \in [Objects -> Nat \cup {None}]
    BY DEF DiffScenes, Objs
  <2> HIDE DEF s, world1, world2
  <2> QED
    BY <1>8, <2>1, <2>2
<1>10. AgreeBut(s, decoupleParent(d, p), left)
  BY <1>3, <1>6, <1>9 DEF AgreeBut, decoupleParent, t
<1>11. Agree(pushDiffs(d, p), decoupleParent(d, p))
  BY CompleteLemma
<1> QED
  BY <1>10, <1>11 DEF Agree, AgreeBut, s, m

-----------------------------------------------------------------------------
(* The invariant.                                                          *)

\* The initial states satisfy the invariant.
LEMMA InitLemma == Init => IInv
<1> SUFFICES ASSUME Init PROVE IInv
  OBVIOUS
<1>1. parent_scene_ \in Scenes(Nat)
  BY DEF Init, Scenes, Objs, Nothing, None
<1>2. \A o \in Objects : parent_scene_.world[o] = None
  BY DEF Init, Nothing
<1>3. /\ clearDiffs(parent_scene_) \in DiffScenes(Nat)
      /\ Recorded(clearDiffs(parent_scene_), parent_scene_)
      /\ Tracked(clearDiffs(parent_scene_), parent_scene_, dropped)
  BY <1>1, <1>2, ClearedLemma
<1> QED
  BY <1>1, <1>3 DEF Init, IInv, Types, ReplicaFollows, AgreeBut

\* Every operation on the scene keeps it.
LEMMA EditLemma ==
  ASSUME IInv, NEW e, NEW lost \in SUBSET Objects, EditDropping(e, lost),
         Keeps(scene_, e, parent_scene_, dropped, dropped \cup lost)
  PROVE  IInv'
<1>1. Types'
  BY DEF IInv, Types, EditDropping, Keeps
<1>2. ~clash' => ~clash /\ Apart(e, parent_scene_)
  BY DEF EditDropping, Clashing, Apart, decoupleParent
<1>3. Recorded(scene_, parent_scene_)' /\ (clash \/ Tracked(scene_, parent_scene_, dropped))'
  BY <1>2 DEF IInv, Types, EditDropping, Keeps
<1>4. ReplicaFollows'
  BY DEF IInv, ReplicaFollows, EditDropping, AgreeBut
<1> QED
  BY <1>1, <1>3, <1>4 DEF IInv

\* An operation that drops nothing.
LEMMA NothingLostLemma ==
  ASSUME NEW e, Edit(e), Keeps(scene_, e, parent_scene_, dropped, dropped)
  PROVE  \E lost \in SUBSET Objects :
           EditDropping(e, lost) /\ Keeps(scene_, e, parent_scene_, dropped, dropped \cup lost)
<1>1. {} \in SUBSET Objects /\ dropped \cup {} = dropped
  OBVIOUS
<1> QED
  BY <1>1, Zenon DEF Edit

\* Every operation of the maintained scene is one of those above.
LEMMA EditsLemma ==
  ASSUME IInv, EditWorld \/ EditState \/ EditSettings
  PROVE  \E e : \E lost \in SUBSET Objects :
           EditDropping(e, lost) /\ Keeps(scene_, e, parent_scene_, dropped, dropped \cup lost)
<1> DEFINE Good(e, lost) ==
             EditDropping(e, lost) /\ Keeps(scene_, e, parent_scene_, dropped, dropped \cup lost)
<1> SUFFICES \E e : \E lost \in SUBSET Objects : Good(e, lost)
  OBVIOUS
<1>0. ASSUME NEW e, Edit(e), Keeps(scene_, e, parent_scene_, dropped, dropped)
      PROVE  \E f : \E lost \in SUBSET Objects : Good(f, lost)
  BY <1>0, NothingLostLemma, Zenon
<1> HIDE DEF Good
<1>1. /\ scene_ \in DiffScenes(Nat) /\ parent_scene_ \in Scenes(Nat)
      /\ Recorded(scene_, parent_scene_)
      /\ edits + 1 \in Nat \ {0}
  BY DEF IInv, Types
<1>2. CASE EditWorld
  <2>1. ASSUME NEW o \in Objects,
               \/ Edit(AddObject(scene_, o, edits + 1))
               \/ Edit(MoveObject(scene_, o, edits + 1))
               \/ Edit(RemoveObject(scene_, o))
        PROVE  \E e : \E lost \in SUBSET Objects : Good(e, lost)
    BY <1>0, <1>1, <2>1, EditWorldLemma, Zenon
  <2>2. CASE Edit(RemoveAll(scene_))
    <3>1. Nothing \in Objs(Nat)
      BY DEF Nothing, Objs
    <3> QED
      BY <1>0, <1>1, <2>2, <3>1, AllObjectsLemma, Zenon
  <2>3. ASSUME NEW listed \in SUBSET Objects,
               Edit(ReplaceWorld(scene_, [o \in Objects |-> IF o \in listed THEN edits + 1
                                                            ELSE None]))
        PROVE  \E e : \E lost \in SUBSET Objects : Good(e, lost)
    <3> DEFINE w == [o \in Objects |-> IF o \in listed THEN edits + 1 ELSE None]
    <3>1. w \in Objs(Nat)
      BY <1>1 DEF Objs
    <3> HIDE DEF w
    <3>2. Keeps(scene_, ReplaceWorld(scene_, w), parent_scene_, dropped, dropped)
      BY <1>1, <3>1, AllObjectsLemma, Zenon
    <3> QED
      BY <1>0, <2>3, <3>2, Zenon DEF w
  <2> QED
    BY <1>2, <2>1, <2>2, <2>3, Zenon DEF EditWorld
<1>3. CASE EditState
  <2>1. ASSUME NEW is_diff \in BOOLEAN, NEW given \in SUBSET Objects,
               NEW taken \in SUBSET Objects, NEW s,
               s = SetState(scene_, parent_scene_, is_diff, given, taken, edits + 1),
               EditDropping(s, IF is_diff THEN {} ELSE Lost(s))
        PROVE  \E e : \E lost \in SUBSET Objects : Good(e, lost)
    <3>1. PICK lost : lost = IF is_diff THEN {} ELSE Lost(s)
      OBVIOUS
    <3>2. lost \in SUBSET Objects
      BY <3>1 DEF Lost
    <3>3. Keeps(scene_, s, parent_scene_, dropped, dropped \cup lost)
      BY <1>1, <2>1, <3>1, SetStateLemma, Zenon DEF Lost
    <3> QED
      BY <2>1, <3>1, <3>2, <3>3, Zenon DEF Good
  <2>2. ASSUME NEW o \in Objects, NEW v \in {None, edits + 1},
               Edit(Attach(scene_, parent_scene_, o, v))
        PROVE  \E e : \E lost \in SUBSET Objects : Good(e, lost)
    <3>1. v \in Nat
      BY <1>1 DEF None
    <3> QED
      BY <1>0, <1>1, <2>2, <3>1, AttachLemma, Zenon
  <2>3. ASSUME NEW o \in Objects, Edit(Detach(scene_, parent_scene_, o))
        PROVE  \E e : \E lost \in SUBSET Objects : Good(e, lost)
    BY <1>0, <1>1, <2>3, DetachLemma, Zenon
  <2> QED
    BY <1>3, <2>1, <2>2, <2>3, Zenon DEF EditState
<1>4. CASE EditSettings
  BY <1>0, <1>1, <1>4, SettingsLemma, Zenon DEF EditSettings
<1> QED
  BY <1>2, <1>3, <1>4, Zenon

\* Publishing the differences keeps the invariant.
LEMMA PublishStepLemma == IInv /\ Publish => IInv'
<1> SUFFICES ASSUME IInv, Publish PROVE IInv'
  OBVIOUS
<1>1. /\ scene_ \in DiffScenes(Nat) /\ parent_scene_ \in Scenes(Nat)
      /\ Recorded(scene_, parent_scene_)
      /\ clash \/ Tracked(scene_, parent_scene_, dropped)
  BY DEF IInv, Types
<1>2. /\ parent_scene_' \in Scenes(Nat)
      /\ Agree(parent_scene_', decoupleParent(scene_, parent_scene_))
  BY <1>1, CompleteLemma DEF Publish
<1>3. ~clash => \A o \in Objects : \/ parent_scene_'.world[o] = None
                                   \/ parent_scene_'.attached[o] = None
  BY <1>1, <1>2 DEF Tracked, Apart, Agree, decoupleParent
<1>4. /\ scene_' \in DiffScenes(Nat) /\ Recorded(scene_', parent_scene_')
      /\ ~clash => Tracked(scene_', parent_scene_', dropped')
  BY <1>2, <1>3, ClearedLemma DEF Publish
<1>5. ~clash => AgreeBut(replica', parent_scene_', dropped')
  BY <1>1, PublishLemma DEF Publish, IInv, ReplicaFollows
<1>6. Types'
  BY <1>2, <1>4 DEF IInv, Types, Publish
<1> QED
  BY <1>4, <1>5, <1>6 DEF IInv, ReplicaFollows, Publish

\* monitorDiffs(false) and monitorDiffs(true) keep the invariant.
LEMMA RecoupleStepLemma == IInv /\ Recouple => IInv'
<1> SUFFICES ASSUME IInv, Recouple PROVE IInv'
  OBVIOUS
<1>1. /\ scene_ \in DiffScenes(Nat) /\ parent_scene_ \in Scenes(Nat)
      /\ Recorded(scene_, parent_scene_)
      /\ clash \/ Tracked(scene_, parent_scene_, dropped)
  BY DEF IInv, Types
<1>2. parent_scene_' \in Scenes(Nat)
  BY <1>1, CompleteLemma DEF Recouple, Shown
<1>3. ~clash => \A o \in Objects : \/ parent_scene_'.world[o] = None
                                   \/ parent_scene_'.attached[o] = None
  BY <1>1 DEF Tracked, Apart, Recouple, Shown, decoupleParent
<1>4. /\ scene_' \in DiffScenes(Nat) /\ Recorded(scene_', parent_scene_')
      /\ ~clash => Tracked(scene_', parent_scene_', dropped')
  BY <1>2, <1>3, ClearedLemma DEF Recouple
<1>5. AgreeBut(replica', parent_scene_', dropped')
  BY DEF Recouple, AgreeBut
<1>6. Types'
  BY <1>2, <1>4 DEF IInv, Types, Recouple
<1> QED
  BY <1>4, <1>5, <1>6 DEF IInv, ReplicaFollows, Recouple

\* The invariant holds.
LEMMA InvariantLemma == Spec => []IInv
<1>1. Init => IInv
  BY InitLemma
<1>2. IInv /\ [Next]_vars => IInv'
  <2> SUFFICES ASSUME IInv, [Next]_vars PROVE IInv'
    OBVIOUS
  <2>1. CASE EditWorld \/ EditState \/ EditSettings
    BY <2>1, EditsLemma, EditLemma, Zenon
  <2>2. CASE Publish
    BY <2>2, PublishStepLemma
  <2>3. CASE Recouple
    BY <2>3, RecoupleStepLemma
  <2>4. CASE UNCHANGED vars
    BY <2>4 DEF vars, IInv, Types, ReplicaFollows, AgreeBut
  <2> QED
    BY <2>1, <2>2, <2>3, <2>4 DEF Next
<1> QED
  BY <1>1, <1>2, PTL DEF Spec

-----------------------------------------------------------------------------
(* The theorems.                                                           *)

\* ChangesAreRecorded for any objects and any sequence of operations: no
\* operation of planning_scene.cpp changes the world of a diff scene behind the
\* back of its WorldDiff.
THEOREM ChangesTheorem == Spec => []ChangesAreRecorded
<1>1. IInv => ChangesAreRecorded
  BY DEF IInv, Recorded, ChangesAreRecorded
<1> QED
  BY <1>1, InvariantLemma, PTL

\* ReplicaFollows for any objects and any sequence of operations: the message
\* of getPlanningSceneDiffMsg() does to a subscriber's scene what pushDiffs()
\* does to the parent.
THEOREM ReplicaTheorem == Spec => []ReplicaFollows
<1>1. IInv => ReplicaFollows
  BY DEF IInv
<1> QED
  BY <1>1, InvariantLemma, PTL

\* PublishingKeepsScene: whatever is published, the maintained scene shows the
\* same before and after.
THEOREM PublishingTheorem == Spec => PublishingKeepsScene
<1>1. IInv /\ [Next]_vars => [edits' = edits => Agree(Shown', Shown)]_vars
  <2> SUFFICES ASSUME IInv, Next, edits' = edits PROVE Agree(Shown', Shown)
    BY DEF vars
  <2>1. /\ scene_ \in DiffScenes(Nat) /\ parent_scene_ \in Scenes(Nat) /\ edits \in Nat
        /\ Recorded(scene_, parent_scene_)
    BY DEF IInv, Types
  <2>2. \A q \in Scenes(Nat) : Agree(decoupleParent(clearDiffs(q), q), q)
    BY DEF Agree, decoupleParent, clearDiffs, State, NoState, Scenes, None
  <2>3. CASE Publish
    <3>1. /\ parent_scene_' \in Scenes(Nat) /\ Agree(parent_scene_', Shown)
      BY <2>1, <2>3, CompleteLemma DEF Publish, Shown
    <3>2. Agree(Shown', parent_scene_')
      BY <2>2, <2>3, <3>1 DEF Publish, Shown
    <3> QED
      BY <3>1, <3>2 DEF Agree
  <2>4. CASE Recouple
    <3>1. /\ parent_scene_' \in Scenes(Nat) /\ parent_scene_' = Shown
      BY <2>1, <2>4, CompleteLemma DEF Recouple, Shown
    <3>2. Agree(Shown', parent_scene_')
      BY <2>2, <2>4, <3>1 DEF Recouple, Shown
    <3> QED
      BY <3>1, <3>2 DEF Agree
  <2>5. CASE EditWorld \/ EditState \/ EditSettings
    <3>1. PICK e, lost : EditDropping(e, lost)
      BY <2>5, EditsLemma, Zenon
    <3> QED
      BY <2>1, <3>1 DEF EditDropping
  <2> QED
    BY <2>3, <2>4, <2>5 DEF Next
<1> QED
  BY <1>1, InvariantLemma, PTL DEF Spec, PublishingKeepsScene

===================================================================================
