SPECIFICATION Spec
CONSTANTS
  Room = 2
  Segments = 4
  InitSegments = 2
  Frames = 2
  Sizes = {1, 3}
INVARIANTS
  PlayerAgrees
  RequestAccounted
PROPERTIES
  PlaybackEnds
  EndpointGoes
CHECK_DEADLOCK FALSE
