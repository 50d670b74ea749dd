SPECIFICATION Spec
CONSTANTS
  Request <- MCDeletes
  NoRequest = NoRequest
  Op <- MCOp
  Service = {"camera", "display"}
  Named <- MCNamed
  Device = {controller}
  Devices <- MCController
  Master = FALSE
INVARIANT DeletedStaysDeleted
CHECK_DEADLOCK FALSE
