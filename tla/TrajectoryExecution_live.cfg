SPECIFICATION FairSpec
CONSTANTS
  client = client
  stopper = stopper
  arm = arm
  base = base
  Clients = {client}
  Stoppers = {stopper}
  Controllers = {arm}
  Trajectories <- const_OneController
  MaxPushed = 1
  MaxExec = 2
  MaxStops = 1
  Monitoring = TRUE
  Faults = {"send", "goal"}
  Races = {"fast", "lag", "tie"}
PROPERTIES
  StopEnds
  StartedWaiterWakes
CHECK_DEADLOCK FALSE
