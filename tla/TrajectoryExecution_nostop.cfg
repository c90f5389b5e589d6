SPECIFICATION FairSpec
CONSTANTS
  client = client
  stopper = stopper
  arm = arm
  base = base
  Clients = {client}
  Stoppers = {}
  Controllers = {arm, base}
  Trajectories <- const_Both
  MaxPushed = 2
  MaxExec = 2
  MaxStops = 0
  Monitoring = TRUE
  Faults = {"activate", "validate", "handle", "send", "goal"}
  Races = {"fast"}
INVARIANTS
  SuccessMeansExecuted
PROPERTIES
  WaitEnds
CHECK_DEADLOCK FALSE
