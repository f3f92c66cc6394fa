CONSTANTS
  DevBlocks = 5
  CacheSlots = 2
  FatStart = 1
  FatSize = 1
  FatCount = 2
  CacheValues = {0, 1}
  FatTypes = {12, 16, 32}
  NumClusters = 5
  BlockSize = 2
  BlocksPerCluster = 2
  Files = {1, 2}
  Lengths = {3, 5}
  MaxSize = 8
  MaxWrites = 2
  MaxErrors = 1
  Subdirs = {1, 2}
  PerCluster = 4
  RootClusters = 2
  Pool = 2
  MaxIo = 1
  MaxCalls = 4
  Sizes = {35, 64, 720, 2880, 4200, 8192, 8193, 8194, 8399, 8400, 16384, 65535, 65536, 65600, 131072, 131073, 1048575, 1048576, 2097152}
  BlockLogs = {9, 10}
  Bytes = {46, 65, 128, 195, 226, 240}
  MaxName = 3
  ShortBytes = {32, 126}
  COMMAND_BUF_SIZE = 4
  HISTORY_MAXITEMS = 2
  ARG_MAX_COUNT = 2
  Typed <- MCTyped
  Keywords <- MCKeywords
  MaxKeys = 7
  EntryNames = {"a", "b"}
  MaxDepth = 2
  FULL_PATH_LEN = 5
  NameLen <- MCNameLen
  MAX_KEY_WORD_CNT = 5
  MAX_KEY_WORD_SIZE = 2
  cmd_tbl_items = 2
  MaxEntries = 2
  MaxFormats = 2
  MaxOpens = 2
  FRAMES_MAX = 5
  ITEMS_MAX = 3
  FACTOR = 2
  Dashes = {0, 2, 4, 6}
  MaxLines = 4
SPECIFICATION MCSpec
CHECK_DEADLOCK FALSE
INVARIANTS
  TypesOK
  MirrorsFollow
  FilesSound
  NamesSound
  TreeSound
  FormatSound
  ArgsRight
  MenuSound
PROPERTIES
  StoreRefined
  EditorRefined
  SessionSound
