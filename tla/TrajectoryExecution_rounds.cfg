SPECIFICATION Spec
CONSTANTS
  client = client
  stopper = stopper
  arm = arm
  base = base
  Clients = {client}
  Stoppers = {stopper}
  Controllers = {arm, base}
  Trajectories <- const_Trajectories
  MaxPushed = 1
  MaxExec = 2
  MaxStops = 1
  Monitoring = TRUE
  Faults = {"activate", "send", "goal"}
  Races = {"fast"}
INVARIANTS
  OneExecution
PROPERTIES
  StopIsNotForgotten
CHECK_DEADLOCK FALSE
