CONSTANTS
  c1 = c1
  c2 = c2
  c3 = c3
  None = None
  Clients <- MCClients1
  Bytes <- MCBytes
  Listener = 3
  MAXFDS = 6
  FD_SETSIZE = 8
  FdLimit = 6
  RecvMax = 2
  SENDBUF_SIZE = 2
  OutCap = 1
  MaxBytes = 5
  Spurious = TRUE
  Resets = TRUE
CHECK_DEADLOCK FALSE
SPECIFICATION Spec
INVARIANT TypeOK
INVARIANT AssertsHold
INVARIANT EchoExact
