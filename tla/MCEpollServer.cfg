SPECIFICATION FairSpec
CONSTANTS
  Fds = {f1, f2}
  Callbacks = {c1, c2}
  Events = {In, Err}
  Always = {Err}
  Null = Null
  NoFd = NoFd
INVARIANTS
  RegistryAgrees
PROPERTIES
  ListedIsServed
CHECK_DEADLOCK FALSE
