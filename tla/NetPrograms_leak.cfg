CONSTANTS
  MaxPkbs = 2
  Hosts = {"a", "b"}
  OutHosts = {}
  CacheSize = 2
  Timeout = 1
  WaitTime = 1
  Retries = 1
  MaxPending = 1
  Word = 16
  MaxRoutes = 4
  Bytes = {94, 89}
  SENDBUF_SIZE = 2
  Suggested = 3
  OutCap = 1
  MaxBytes = 4
  Numbers = {0, 1, 2, 9, 15}
  MaxAsks = 2
  Users = {"a", "b", "c"}
  Listener = 0
  MaxFd = 2
  MaxTalk = 1
  Guests = {"a", "b"}
  Letters = {94, 255}
  PoolSize = 1
  RecvSize = 2
  MaxLetters = 2
SPECIFICATION MCSpec
CHECK_DEADLOCK FALSE
INVARIANT StackFrees
