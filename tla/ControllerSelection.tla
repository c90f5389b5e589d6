-------------------------- MODULE ControllerSelection -------------------------
(***************************************************************************)
(* How TrajectoryExecutionManager (trajectory_execution_manager.cpp)       *)
(* chooses the controllers that execute a trajectory and makes sure that   *)
(* they are active, on top of the ros_control plugin.                      *)
(*                                                                         *)
(* One thread calls it at a time: push() refuses to configure while the    *)
(* execution thread, which ensures the controllers of a part, is running.  *)
(* A call is a step; the clock does not advance during a call.             *)
(***************************************************************************)
EXTENDS RosControlInterface, Sequences, FiniteSetsExt

CONSTANTS
  Goals,    \* sets of actuated joints of the trajectories that are pushed
  Requests, \* controllers a client names: sequences, <<>> to leave the choice
  MaxDisturbances \* bound: starts, stops and unloads at the node, failed calls of
                  \* list_controllers

ASSUME ControllerSelectionAssumption ==
  /\ MaxDisturbances \in Nat
  /\ IsFiniteSet(Managed)
  /\ \A claims \in Claims : IsFiniteSet(UNION {claims[c] : c \in Managed})

VARIABLES
  manage_controllers_,
  known_controllers_, \* the state read last of each known controller, and its age
  context,            \* the trajectory configured last: its joints, the controllers
                      \* its client named and those selected
  ensured,            \* history: controllers a call has promised to be active, until
                      \* the next call, tick or change of the node
  quiet,              \* history: ticks since the node started or stopped a controller
                      \* or failed by itself
  disturbances,       \* bound: disturbances left
  overruled           \* history: ticks since the plugin stopped, without being told
                      \* to, a controller the manager held to be active

nodeVars == <<claimed_resources, disjoint, listed, running>>
disturbanceVars == <<quiet, disturbances>>
historyVars == <<ensured, disturbanceVars, overruled>>
vars == <<nodeVars, interface, manage_controllers_, known_controllers_, context,
          historyVars>>

NoContext == [joints |-> {}, request |-> <<>>, controllers |-> {}]

\* Bound on the ticks counted since a disturbance.  A state read ValidityAge - 1
\* ticks after the plugin has read it is trusted for another ValidityAge - 1.
Settled == 2 * ValidityAge - 1

Names(seq) == {seq[i] : i \in DOMAIN seq}

\* The order in which controllers are considered: the client's, or that of names.
ByName == [i \in 1 .. Max(Managed) |-> i]

Order(request) == IF request = <<>> THEN ByName ELSE request

-----------------------------------------------------------------------------
(* Readings: known_controllers_ and the members of the plugin.  Within one *)
(* call every list_controllers gets the same response.                     *)

Reading == [known |-> known_controllers_, plugin |-> interface]

\* reloadControllerInformation(): nothing is known of the controllers' state.
reload(r, response) ==
  LET i == discover(r.plugin, FALSE, response)
  IN  [known |-> [c \in i.managed_controllers_ |->
                    [active_ |-> FALSE, age |-> ValidityAge]],
       plugin |-> i]

Stale(r, c) == c \in DOMAIN r.known /\ r.known[c].age >= ValidityAge

\* updateControllerState() for the controllers in set.
updateControllerState(r, set, response) ==
  IF \E c \in set : Stale(r, c) THEN
    LET i == discover(r.plugin, FALSE, response)
    IN  [known |-> [c \in DOMAIN r.known |->
                      IF c \in set /\ Stale(r, c)
                      THEN [active_ |-> isActive(i, c), age |-> 0]
                      ELSE r.known[c]],
         plugin |-> i]
  ELSE r

Active(r) == {c \in DOMAIN r.known : r.known[c].active_}

\* Controllers whose state areControllersActive() reads when active is what the
\* readings show: it returns at the first that is not active.
ReadInTurn(set, order, active) ==
  {order[i] : i \in {j \in DOMAIN order :
     order[j] \in set /\ \A h \in 1 .. j - 1 : order[h] \notin set \ active}}

-----------------------------------------------------------------------------
(* selectControllers(): operators of the joints, the controllers that are  *)
(* available, their order, and those that the readings show to be active.  *)

\* What generateControllerCombination() and checkControllerCombination() find, for
\* any number of controllers.
Combinations(joints, available) ==
  {s \in disjoint :
     s \subseteq available /\ joints \subseteq JointsOf(s)}

\* How many joints the controllers of a combination have, no two the same.
JointCount(set) == Cardinality(JointsOf(set))

\* OrderPotentialControllerCombination, where no controller is marked as default.
Before(s, t, active) ==
  \/ JointCount(s) < JointCount(t)
  \/ /\ JointCount(s) = JointCount(t)
     /\ Cardinality(s \cap active) < Cardinality(t \cap active)

\* The first of the sorted options, any of those that tie.
Best(options, active) == {s \in options : \A t \in options : ~Before(t, s, active)}

\* Faulty variant: the first option, whether it is active or not.
findControllers_First(options, active) == Best(options, active)

\* findControllers(): which of the combinations of one size it may select.
findControllers(options, active) ==
  LET loaded == {s \in options : s \subseteq active}
  IN  IF ~manage_controllers_ /\ loaded # {} THEN Best(loaded, active)
      ELSE Best(options, active)

\* The controllers whose state findControllers() reads.
Compared(options) == IF Cardinality(options) = 1 THEN {} ELSE UNION options

\* selectControllers(): what it may select and the controllers whose state it reads,
\* none when no combination covers the joints.  A manager that may not switch goes
\* on to larger combinations until it finds active ones.
selectControllers(joints, available, order, active) ==
  LET combinations == Combinations(joints, available)
      sizes == {Cardinality(s) : s \in combinations}
      n == Min(sizes)
      Options(m) == {s \in combinations : Cardinality(s) = m}
      Found(m) == findControllers(Options(m), active)
      Checked(m, s) == Compared(Options(m)) \cup ReadInTurn(s, order, active)
      larger == {m \in sizes : m > n /\ \E s \in Found(m) : s \subseteq active}
      tried == {m \in sizes : m > n /\ \A h \in larger : m <= h}
      better == {s \in UNION {Found(m) : m \in tried} : s \subseteq active}
      Examined(s) == Checked(n, s) \cup
        UNION {Checked(Cardinality(t), t) : t \in UNION {Found(m) : m \in tried}}
  IN  IF sizes = {} THEN {}
      ELSE IF manage_controllers_
      THEN {[selected |-> s, read |-> Compared(Options(n))] : s \in Found(n)}
      ELSE UNION {
        IF s \subseteq active THEN {[selected |-> s, read |-> Checked(n, s)]}
        ELSE {[selected |-> t, read |-> Examined(s)] :
                t \in IF better = {} THEN {s} ELSE better} : s \in Found(n)}

\* The same on readings r: what is read is what the response shows.
Selections(joints, available, order, r, response) ==
  LET active == Active(updateControllerState(r, DOMAIN r.known, response))
  IN  {[controllers |-> res.selected,
        reading |-> updateControllerState(r, res.read, response)] :
         res \in selectControllers(joints, available, order, active)}

-----------------------------------------------------------------------------
(* Actions.                                                                *)

Read(r) == known_controllers_' = r.known /\ interface' = r.plugin

Forget == ensured' = {}

Disturb ==
  /\ disturbances > 0
  /\ disturbances' = disturbances - 1
  /\ quiet' = 0

\* A response that is not what the node would say disturbs.
Failed(response) == response.controllers # listed \cup Unmanaged

Answers == {response \in Responses(running) : Failed(response) => disturbances > 0}

Heard(response) ==
  IF Failed(response) THEN Disturb ELSE UNCHANGED disturbanceVars

Init ==
  /\ NodeInit
  /\ manage_controllers_ \in BOOLEAN
  /\ LET r == reload([known |-> <<>>, plugin |-> Unread],
                     [controllers |-> listed, running |-> running])
     IN  known_controllers_ = r.known /\ interface = r.plugin
  /\ context = NoContext
  /\ ensured = {}
  /\ quiet = Settled
  /\ disturbances = MaxDisturbances
  /\ overruled = Settled

\* configure(), called by push(), for a trajectory that actuates the joints.
configure(joints, request, response) ==
  LET Available(r) == IF request = <<>> THEN DOMAIN r.known ELSE Names(request)
      Found(r) == IF Names(request) \subseteq DOMAIN r.known
                  THEN Selections(joints, Available(r), Order(request), r, response)
                  ELSE {}
      first == Found(Reading)
      reloads == IF request = <<>> THEN first = {}
                 ELSE ~(Names(request) \subseteq DOMAIN Reading.known)
      r1 == IF reloads THEN reload(Reading, response) ELSE Reading
      found == IF reloads THEN Found(r1) ELSE first
  IN  /\ \/ /\ found = {}
            /\ Read(r1)
            /\ UNCHANGED context
         \/ \E res \in found :
              /\ Read(res.reading)
              /\ context' = [joints |-> joints, request |-> request,
                             controllers |-> res.controllers]
      /\ Heard(response)
      /\ Forget
      /\ UNCHANGED <<nodeVars, manage_controllers_, overruled>>

Configure ==
  \E joints \in Goals, request \in Requests, response \in Answers :
    configure(joints, request, response)

\* The end of a call that left the node alone.
Answer(controllers, ok, r, response) ==
  /\ Read(r)
  /\ Heard(response)
  /\ ensured' = IF ok THEN controllers ELSE {}
  /\ UNCHANGED <<nodeVars, overruled>>

\* Faulty variant: only what is to be started is read again.
Reset_Started(r, start, deactivate) ==
  [r EXCEPT !.known = [c \in DOMAIN r.known |->
     IF c \in start THEN [r.known[c] EXCEPT !.age = ValidityAge] ELSE r.known[c]]]

\* last_update_ is reset for every controller of the switch.
Reset(r, start, deactivate) ==
  [r EXCEPT !.known = [c \in DOMAIN r.known |->
     IF c \in start \cup deactivate
     THEN [r.known[c] EXCEPT !.age = ValidityAge] ELSE r.known[c]]]

\* switchControllers(start, deactivate) with readings r, for the sake of controllers.
switchControllers(controllers, start, deactivate, r, response) ==
  LET i == discover(r.plugin, TRUE, response)
      starts == StartList(i, start)
      stops == StopList(i, start, deactivate)
      res == SwitchResult(starts, stops)
      unasked == (stops \ (start \cup deactivate)) \cap Active(r)
  IN  IF starts \cup stops = {}
      THEN Answer(controllers, TRUE, [r EXCEPT !.plugin = i], response)
      ELSE \E last \in Responses(res.running) :
        /\ Read([r EXCEPT !.plugin = discover(i, TRUE, last)])
        /\ Heard(last)
        /\ running' = res.running
        /\ ensured' = IF res.ok THEN controllers ELSE {}
        /\ overruled' = IF res.ok /\ unasked # {} THEN 0 ELSE overruled
        /\ UNCHANGED <<claimed_resources, disjoint, listed>>

\* Faulty variant: nobody takes over the joints of what is deactivated.
Uncovered_None(activate, deactivate) == {}

\* Joints that would lose their controller.
Uncovered(activate, deactivate) == JointsOf(deactivate) \ JointsOf(activate)

\* std::includes() of the sorted set and the controllers in their order, which finds
\* the elements of an ascending sequence only.
Includes(set, controllers, order) ==
  /\ controllers \subseteq set
  /\ \A i, j \in DOMAIN order :
       (i < j /\ {order[i], order[j]} \subseteq controllers) => order[i] < order[j]

\* ensureActiveControllers(controllers), given in that order, with readings r0.
ensureActiveControllers(controllers, order, r0, response) ==
  LET r == updateControllerState(r0, DOMAIN r0.known, response)
      activate == controllers \ Active(r)
      deactivate == {d \in Active(r) : \E c \in activate : Overlap(c, d)}
      uncovered == Uncovered(activate, deactivate)
      possible == {c \in DOMAIN r.known : \A a \in activate : ~Overlap(c, a)}
      additional == IF uncovered = {} THEN {{}}
                    ELSE {res.controllers :
                            res \in Selections(uncovered, possible, ByName, r, response)}
  IN  /\ \/ /\ ~manage_controllers_
            /\ Answer(controllers, Includes(Active(r), controllers, order), r, response)
         \/ /\ manage_controllers_
            /\ ~(controllers \subseteq DOMAIN r.known) \/ additional = {}
            /\ Answer(controllers, FALSE, r, response)
         \/ /\ manage_controllers_
            /\ controllers \subseteq DOMAIN r.known
            /\ \E more \in additional :
                 IF activate \cup more \cup deactivate = {}
                 THEN Answer(controllers, TRUE, r, response)
                 ELSE switchControllers(controllers, activate \cup more, deactivate,
                        Reset(r, activate \cup more, deactivate), response)
      /\ UNCHANGED <<manage_controllers_, context>>

\* executePart() ensures the controllers of its context.
EnsureContext ==
  /\ context # NoContext
  /\ \E response \in Answers :
       ensureActiveControllers(context.controllers, Order(context.request), Reading,
                               response)

\* ensureActiveControllersForJoints(), on any controllers that are known.
EnsureForJoints ==
  \E joints \in Goals, response \in Answers :
    LET found == Selections(joints, DOMAIN known_controllers_, ByName, Reading, response)
    IN  \/ /\ found = {}
           /\ Answer({}, FALSE, Reading, response)
           /\ UNCHANGED <<manage_controllers_, context>>
        \/ \E res \in found :
             ensureActiveControllers(res.controllers, ByName, res.reading, response)

NodeSwitches ==
  /\ SomebodySwitches
  /\ Forget
  /\ Disturb
  /\ UNCHANGED <<manage_controllers_, known_controllers_, context, overruled>>

NodeLoads ==
  /\ SomebodyLoads
  /\ Forget
  /\ UNCHANGED <<manage_controllers_, known_controllers_, context, disturbanceVars,
                 overruled>>

NodeUnloads ==
  /\ SomebodyUnloads
  /\ Forget
  /\ disturbances > 0
  /\ disturbances' = disturbances - 1
  /\ UNCHANGED <<manage_controllers_, known_controllers_, context, quiet, overruled>>

Later(n, bound) == IF n < bound THEN n + 1 ELSE n

Tick ==
  /\ known_controllers_' =
       [c \in DOMAIN known_controllers_ |->
          [known_controllers_[c] EXCEPT !.age = Later(@, ValidityAge)]]
  /\ interface' = [interface EXCEPT !.controllers_stamp_ = Later(@, ValidityAge)]
  /\ quiet' = Later(quiet, Settled)
  /\ overruled' = Later(overruled, Settled)
  /\ Forget
  /\ UNCHANGED <<nodeVars, manage_controllers_, context, disturbances>>

Next ==
  \/ Configure
  \/ EnsureContext
  \/ EnsureForJoints
  \/ NodeSwitches
  \/ NodeLoads
  \/ NodeUnloads
  \/ Tick

Spec == Init /\ [][Next]_vars

-----------------------------------------------------------------------------
(* Properties.                                                             *)

\* The readings are of managed controllers, and those selected claim no joint twice.
TypeOK ==
  /\ listed \subseteq Managed
  /\ running \subseteq listed \cup Unmanaged
  /\ interface.managed_controllers_ \subseteq Managed
  /\ interface.active_controllers_ \subseteq AllControllers
  /\ interface.controllers_stamp_ \in 0 .. ValidityAge
  /\ DOMAIN known_controllers_ \subseteq Managed
  /\ \A c \in DOMAIN known_controllers_ :
       known_controllers_[c] \in [active_ : BOOLEAN, age : 0 .. ValidityAge]
  /\ context.controllers \in disjoint
  /\ quiet \in 0 .. Settled
  /\ disturbances \in 0 .. MaxDisturbances
  /\ overruled \in 0 .. Settled

\* When nothing has changed behind its back for two periods of validity, a manager
\* that may not switch controllers selects active ones whenever active ones, of
\* those available, can move the joints (lines 526-535 and 567-581).
ConfigureFindsActive ==
  [][(context' # context /\ ~manage_controllers_ /\ quiet' = Settled) =>
       \/ context'.controllers \subseteq running
       \/ LET available == IF context'.request = <<>> THEN DOMAIN known_controllers_'
                            ELSE Names(context'.request)
          IN  ~(context'.joints \subseteq JointsOf(running \cap available))]_vars

\* A state that is held to be up to date (updateControllerState, lines 345-359) is
\* the state of the controller unless it was changed behind the manager's back less
\* than two periods of validity ago: every switch of its own is seen at once.
ReadingsAgree ==
  (quiet = Settled /\ overruled = Settled) =>
    \A c \in DOMAIN known_controllers_ :
      known_controllers_[c].age < ValidityAge =>
        (known_controllers_[c].active_ <=> c \in running)

\* Controllers the manager knows and counts on that were unloaded since it read the
\* list; the plugin leaves them out of a switch without a word (its lines 338-339).
Unloaded == DOMAIN known_controllers_ \ listed

\* What ensureActiveControllers() (lines 1447-1543) has promised is active, with the
\* same reservation, or was unloaded, however long ago: nothing else is missing.
EnsuredIsActive ==
  (quiet = Settled /\ overruled = Settled) => ensured \subseteq running \cup Unloaded

\* Switching to the controllers of a trajectory takes no joint from under the
\* control of the controllers the manager knows: what it deactivates is replaced
\* (lines 1484-1512), if only by a controller that was unloaded.
JointsStayActuated ==
  [][(quiet = Settled /\ overruled = Settled /\ quiet' # 0 /\ overruled' # 0) =>
       JointsOf(running \cap DOMAIN known_controllers_)
         \subseteq JointsOf(running' \cup Unloaded)]_vars
=============================================================================
