CONSTANTS
  c1 = c1
  c2 = c2
  c3 = c3
  None = None
  Clients <- MCClients2
  Bytes = {94}
  Listener = 3
  MAXFDS = 7
  FD_SETSIZE = 8
  FdLimit = 7
  RecvMax = 2
  SENDBUF_SIZE = 2
  OutCap = 1
  MaxBytes = 3
  Spurious = TRUE
  Resets = FALSE
CHECK_DEADLOCK FALSE
SPECIFICATION FairSpec
PROPERTY PatientServed
