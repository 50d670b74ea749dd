SPECIFICATION Spec
CONSTANTS
  Worker = {worker1, worker2}
  Service = {camera}
  MaxApply = 1
  MaxJoin <- MCJoin
  Startup <- MCStartup
  MaxWire = 1
INVARIANT StatusCanBeSeen
CHECK_DEADLOCK FALSE
