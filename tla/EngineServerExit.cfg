\* The last countdown ends while a client connects.
SPECIFICATION Spec
CONSTANTS
  Clients = {c1}
  NoClient = nobody
  Instances = {i1, i2}
  NoPipe = nopipe
  Broken = broken
  Timeouts = {TRUE}
  MaxConnects = 2
PROPERTY NoExpiryUnderClient
CHECK_DEADLOCK FALSE
