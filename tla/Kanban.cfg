\* A stream of either kind with two sessions (of one microservice that reconnects,
\* or of two receivers of a topic).
CONSTANTS
  s1 = s1
  s2 = s2
  Session = {s1, s2}
  MaxLen = 2
  MaxID = 3
SPECIFICATION Spec
SYMMETRY Symmetry
CHECK_DEADLOCK FALSE
INVARIANTS UnsentIsHeld OneLateXDel NoSilentSkip NewestStays
PROPERTY ImplementsLog
