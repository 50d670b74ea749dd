\* One microservice, or one receiver of a topic, from start to end.
CONSTANTS
  s1 = s1
  Session = {s1}
  MaxLen = 2
  MaxID = 2
  RecvCap = 1
  MaxTry = 1
SPECIFICATION FairClientSpec
CHECK_DEADLOCK FALSE
INVARIANT TakenInOrder
PROPERTIES LibraryImplementsLog AnswersHold EventuallyTaken ChannelIsClosed
