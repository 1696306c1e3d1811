SPECIFICATION Spec
CONSTANTS
  Room = 2
  Requests = 2
  Outstanding = 1
INVARIANTS
  SticksAgree
  EchoPreserved
PROPERTIES
  HangupPropagates
  MessagesAreAnswered
CHECK_DEADLOCK FALSE
