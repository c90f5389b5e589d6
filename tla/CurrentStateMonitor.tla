-------------------------- MODULE CurrentStateMonitor --------------------------
(***************************************************************************)
(* CurrentStateMonitor (current_state_monitor.cpp): the last reading of    *)
(* every single-variable joint, its time, and the wait for a state newer   *)
(* than a time.  A message is a sequence of joints with one stamp; it is   *)
(* also the position of the joints it moves, as its number.  Messages come *)
(* from any number of drivers, so stamps may repeat or go back.            *)
(***************************************************************************)
EXTENDS Integers, FiniteSets, SequencesExt

CONSTANTS
  Joints,
  Messages,     \* what a message may list: sequences of different joints
  MaxStamp,     \* bound: time stamps are 1 .. MaxStamp
  MaxMessages   \* bound: joint state messages

ASSUME CurrentStateMonitorAssumption ==
  /\ IsFiniteSet(Joints) /\ Joints # {}
  /\ Messages \subseteq Seq(Joints)
  /\ MaxStamp \in Nat /\ MaxMessages \in Nat

VARIABLES
  joint_time_,             \* 0 for a joint that is not in the map
  robot_state_,
  messages,                \* messages received
  state_monitor_started_,
  update_callbacks_        \* how many times onStateUpdate() was registered

monitorVars ==
  <<joint_time_, robot_state_, messages, state_monitor_started_, update_callbacks_>>

Stamps == 1 .. MaxStamp
Never == [j \in Joints |-> 0]

MonitorInit ==
  /\ joint_time_ = Never
  /\ robot_state_ = Never
  /\ messages = 0
  /\ state_monitor_started_ = TRUE
  /\ update_callbacks_ = 1

\* A stamp that is not newer than the joint's forgets all the others.
Stamp(times, joint, stamp) ==
  IF times[joint] < stamp
  THEN [times EXCEPT ![joint] = stamp]
  ELSE [Never EXCEPT ![joint] = stamp]

\* The joints of a message are entered in its order.
Enter(times, list, stamp) ==
  FoldLeft(LAMBDA ts, j : Stamp(ts, j, stamp), times, list)

\* Lines 337-397, under state_update_lock_; the joints in moved have a
\* position they did not have before.
Receive(list, stamp, moved) ==
  /\ messages < MaxMessages
  /\ messages' = messages + 1
  /\ joint_time_' = Enter(joint_time_, list, stamp)
  /\ robot_state_' = [j \in Joints |-> IF j \in moved THEN messages' ELSE robot_state_[j]]

\* The oldest of the times that are known; joints never read do not count.
CurrentStateTime ==
  LET known == {joint_time_[j] : j \in Joints} \ {0}
  IN IF known = {} THEN 0 ELSE CHOOSE t \in known : \A u \in known : t <= u

HasStateSince(t) == CurrentStateTime >= t

\* startStateMonitor(): the times of an earlier run are forgotten, its
\* positions are not.
StartMonitor ==
  /\ joint_time_' = IF state_monitor_started_ THEN joint_time_ ELSE Never
  /\ state_monitor_started_' = TRUE

StopMonitor == state_monitor_started_' = FALSE

MonitorTypeOK ==
  /\ joint_time_ \in [Joints -> 0 .. MaxStamp]
  /\ robot_state_ \in [Joints -> 0 .. MaxMessages]
  /\ messages \in 0 .. MaxMessages
  /\ state_monitor_started_ \in BOOLEAN
  /\ update_callbacks_ \in Nat
================================================================================
