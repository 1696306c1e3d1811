SPECIFICATION Spec
CONSTANTS
  Room = 1
  Up = 2
  Down = 1
  Resets = 1
INVARIANTS
  HandsAgree
  StreamPreserved
PROPERTIES
  DataFlows
  SessionEnds
CHECK_DEADLOCK FALSE
