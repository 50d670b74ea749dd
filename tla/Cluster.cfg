SPECIFICATION Spec
CONSTANTS
  Worker = {worker1, worker2}
  Service = {camera}
  MaxApply = 1
  MaxJoin <- MCJoinOnce
  Startup <- MCStartup
  MaxWire = 2
INVARIANT StatusIsRecorded
SYMMETRY MCSymmetry
CHECK_DEADLOCK FALSE
