SPECIFICATION Spec
CONSTANTS
  Managed = {1, 2, 3, 4}
  Unmanaged = {5}
  Loaded = {1, 2, 4}
  Claims <- const_Claims
  ValidityAge = 2
  ListFails = TRUE
  Goals <- const_Goals
  Requests <- const_Requests
  MaxDisturbances = 1
INVARIANTS
  ReadingsAgree
  EnsuredIsActive
PROPERTIES
  ConfigureFindsActive
  JointsStayActuated
CHECK_DEADLOCK FALSE
