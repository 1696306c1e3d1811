SPECIFICATION UploadSpec
CONSTANTS
  Paths = {p1}
  LinkRoom = 1
  AppRoom = 1
  Threshold = 0
  DataLeft = 2
  DataRight = 1
  DataAll = 3
PROPERTIES
  UploadCompletes
  SessionEnds
CHECK_DEADLOCK FALSE
