SPECIFICATION Spec
CONSTANTS
  Worker = {worker1}
  Service = {camera}
  MaxApply = 1
  MaxJoin <- MCJoin
  Startup <- MCStartup
  MaxWire = 2
INVARIANT DistributedToAll
CHECK_DEADLOCK FALSE
