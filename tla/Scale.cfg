\* A service that is a job in one setting and a multiple deployment in the next.
CONSTANTS
  Nil = Nil
  Quantity = {"1Gi"}
  K8sEnv <- MCK8sEnv
  Files <- MCFiles
  Name <- MCName
  Num = 1
  MaxUp = 2
SPECIFICATION Spec
INVARIANTS CounterInStep StartRepairs ExitLeavesNothing OwnNumber PartsFit
PROPERTIES SuccessfulStopRemoves StopNeedsAll
