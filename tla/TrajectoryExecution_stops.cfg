SPECIFICATION Spec
CONSTANTS
  client = client
  stopper = stopper
  arm = arm
  base = base
  Clients = {client}
  Stoppers = {stopper}
  Controllers = {arm, base}
  Trajectories <- const_Trajectories
  MaxPushed = 2
  MaxExec = 1
  MaxStops = 2
  Monitoring = TRUE
  Faults = {"configure", "validate", "activate", "handle", "send", "goal"}
  Races = {"fast", "lag"}
INVARIANTS
  RunningIsCancellable
  NothingRunsAfterPart
PROPERTIES
  NoGoalAfterStop
  ImplementsExecutionManager
CHECK_DEADLOCK FALSE
