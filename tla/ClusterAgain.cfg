SPECIFICATION FairSpec
CONSTANTS
  Worker = {worker1}
  Service = {camera}
  MaxApply = 2
  MaxJoin <- MCJoin
  Startup <- MCStartup
  MaxWire = 1
INVARIANT RegisteredIsDeployed
PROPERTY SentIsDeployed
CHECK_DEADLOCK FALSE
