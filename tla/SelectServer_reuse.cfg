CONSTANTS
  c1 = c1
  c2 = c2
  c3 = c3
  None = None
  Clients <- MCClients3
  Bytes = {94}
  Listener = 3
  MAXFDS = 6
  FD_SETSIZE = 8
  FdLimit = 6
  RecvMax = 2
  SENDBUF_SIZE = 2
  OutCap = 1
  MaxBytes = 1
  Spurious = TRUE
  Resets = TRUE
CHECK_DEADLOCK FALSE
SPECIFICATION Spec
INVARIANT MonitorMatchesBuffer
INVARIANT ReadinessNotStale
PROPERTY ScanComplete
PROPERTY ImplementsService
SYMMETRY MCSymmetry3
