\* Up to two kanbans each way, three in all, over a link that breaks once or twice.
CONSTANTS
  MaxStream = 2
  MaxOut = 2
  MaxIn = 2
  MaxKanban = 3
SPECIFICATION FairSpec
CHECK_DEADLOCK FALSE
INVARIANTS InOrder LostOnlyWithStream
PROPERTY LinkKeepsGoing
