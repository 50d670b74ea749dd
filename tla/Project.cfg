SPECIFICATION FairSpec
CONSTANTS
  Request <- MCRequest
  NoRequest = NoRequest
  Op <- MCOp
  Service = {"camera", "display"}
  Named <- MCNamed
  Device = {"worker1", "worker2"}
  Devices <- MCDevices
  Master = TRUE
INVARIANTS
  DevicesInStep
  LoneRequestDeployed
  OverlapDeployed
  PanicsOnlyAtFirst
PROPERTY RequestsAnswered
CHECK_DEADLOCK FALSE
