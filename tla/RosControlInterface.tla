------------------------- MODULE RosControlInterface -------------------------
(***************************************************************************)
(* moveit_ros_control_interface::MoveItControllerManager                   *)
(* (controller_manager_plugin.cpp): the plugin through which MoveIt lists, *)
(* watches and switches the controllers of one ros_control node, and that  *)
(* node as the plugin uses it.                                             *)
(*                                                                         *)
(* Controllers are numbered in the order of their names.  MoveIt is told   *)
(* of the managed ones only, those whose type has an allocator plugin;     *)
(* the others claim joints all the same.  Calls hold controllers_mutex_    *)
(* and last no time; time is counted in fractions of the second for which  *)
(* both this plugin and the manager above trust what they read.            *)
(***************************************************************************)
EXTENDS Naturals

CONSTANTS
  Managed,     \* controllers with an allocator plugin
  Unmanaged,   \* other controllers of the node
  Loaded,      \* managed controllers the node has loaded at first
  Claims,      \* possible claimed_resources: the joints each controller claims,
               \* listed in ascending order
  ValidityAge, \* ticks in the second after which a reading is refreshed
  ListFails    \* whether calls of list_controllers may fail

VARIABLES
  claimed_resources, \* one of Claims
  disjoint,          \* the sets of controllers that claim no joint twice; a
                     \* function of claimed_resources, computed once
  listed,            \* managed controllers loaded into the node
  running,           \* controllers that run
  interface          \* the members of the plugin, see Unread

AllControllers == Managed \cup Unmanaged

ASSUME RosControlAssumption ==
  /\ AllControllers \subseteq Nat \ {0}
  /\ Managed \cap Unmanaged = {}
  /\ Loaded \subseteq Managed
  /\ Claims \subseteq [AllControllers -> SUBSET Nat]
  /\ ValidityAge \in Nat \ {0}
  /\ ListFails \in BOOLEAN

Joints(c) == claimed_resources[c]

JointsOf(set) == UNION {Joints(c) : c \in set}

Overlap(c, d) == c # d /\ Joints(c) \cap Joints(d) # {}

Disjoint(set) == set \in disjoint

-----------------------------------------------------------------------------
(* What the plugin has read.                                               *)

Unread ==
  [managed_controllers_ |-> {}, active_controllers_ |-> {},
   controllers_stamp_ |-> ValidityAge]

\* What list_controllers may respond while the controllers in r run: the response
\* of a failed call is empty.
Responses(r) ==
  {[controllers |-> listed \cup Unmanaged, running |-> r]}
    \cup IF ListFails THEN {[controllers |-> {}, running |-> {}]} ELSE {}

\* Faulty variant: the throttle holds even when force is set.
discover_Throttled(i, force, response) ==
  IF i.controllers_stamp_ = ValidityAge
  THEN [managed_controllers_ |-> response.controllers \cap Managed,
        active_controllers_ |-> response.running,
        controllers_stamp_ |-> 0]
  ELSE i

\* discover(force), when the node answers with response.
discover(i, force, response) ==
  IF force \/ i.controllers_stamp_ = ValidityAge
  THEN [managed_controllers_ |-> response.controllers \cap Managed,
        active_controllers_ |-> response.running,
        controllers_stamp_ |-> 0]
  ELSE i

\* getControllerState(c).active_ once discover() has made the plugin's members i;
\* this plugin leaves default_ false.
isActive(i, c) == c \in i.managed_controllers_ \cap i.active_controllers_

-----------------------------------------------------------------------------
(* switchControllers(activate, deactivate).                                *)

\* The bimap holds one resource of each active controller: its left view has
\* unique keys, the names, so that the second resource is not inserted.
FirstClaim(c) == {j \in Joints(c) : \A k \in Joints(c) : j <= k}

StartList(i, activate) == activate \cap i.managed_controllers_

\* deactivate, and what claims a resource of a controller to be started.  Erasing
\* the resources of deactivate looks a name up among resources and finds nothing.
StopList(i, activate, deactivate) ==
  (deactivate \cap i.managed_controllers_)
    \cup {c \in i.active_controllers_ :
            FirstClaim(c) \cap JointsOf(StartList(i, activate)) # {}}

\* What runs once the node has accepted a request.
Switched(start, stop) == (running \ stop) \cup start

\* With strictness STRICT the node accepts a request that does all it says.
Accepts(start, stop) ==
  /\ stop \subseteq running
  /\ start \cap running \subseteq stop
  /\ Disjoint(Switched(start, stop))

\* switch_controller: whether the node accepts and what runs afterwards.
SwitchResult(start, stop) ==
  [ok |-> Accepts(start, stop),
   running |-> IF Accepts(start, stop) THEN Switched(start, stop) ELSE running]

-----------------------------------------------------------------------------
(* The node changes on its own.                                            *)

NodeInit ==
  /\ claimed_resources \in Claims
  /\ disjoint = {set \in SUBSET AllControllers : \A c, d \in set : ~Overlap(c, d)}
  /\ listed = Loaded
  /\ running \in {r \in SUBSET (listed \cup Unmanaged) : Disjoint(r)}

\* A controller that runs is stopped, or one that conflicts with none is started.
SomebodySwitches ==
  /\ \E c \in listed \cup Unmanaged :
       /\ running' = IF c \in running THEN running \ {c} ELSE running \cup {c}
       /\ Disjoint(running')
  /\ UNCHANGED <<claimed_resources, disjoint, listed, interface>>

SomebodyLoads ==
  /\ \E c \in Managed \ listed : listed' = listed \cup {c}
  /\ UNCHANGED <<claimed_resources, disjoint, running, interface>>

\* Only a controller that does not run can be unloaded.
SomebodyUnloads ==
  /\ \E c \in listed \ running : listed' = listed \ {c}
  /\ UNCHANGED <<claimed_resources, disjoint, running, interface>>
=============================================================================
