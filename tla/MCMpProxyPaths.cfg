SPECIFICATION Spec
CONSTANTS
  Paths = {p1, p2}
  LinkRoom = 1
  AppRoom = 1
  Threshold = 0
  DataLeft = 2
  DataRight = 2
  DataAll = 2
SYMMETRY PathSymmetry
CONSTRAINT OneWay
INVARIANTS
  SessionSound
  DownloadAccounted
  UploadAccounted
PROPERTIES
  ClosesAfterUpload
CHECK_DEADLOCK FALSE
