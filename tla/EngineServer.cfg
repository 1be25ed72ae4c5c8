\* Two applications, connections that overlap, calls that fail, idle exits.
SPECIFICATION FairSpec
CONSTANTS
  Clients = {c1, c2}
  NoClient = nobody
  Instances = {i1, i2, i3}
  NoPipe = nopipe
  Broken = broken
  Timeouts = {TRUE, FALSE}
  MaxConnects = 3
INVARIANTS
  TypeOK
  WatchdogIsTrue
  PipesPair
PROPERTIES
  RequestReplySpec
  ExpiresOnlyIdle
  CallsReturn
  AbandonedEngineExits
CHECK_DEADLOCK FALSE
