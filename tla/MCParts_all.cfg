CONSTANTS
  Vmids = {v1, v2}
  Max = 2
  Window = 3
  Horizon = 7
  NoWindow = NoWindow
  MaxCount = 4
  Writers = {w1, w2}
  Inodes = {i1, i2, i3}
  Empty = Empty
  Torn = Torn
  Absent = Absent
  MaxVersion = 4
  Tables = {"agent"}
  Ids = {"a", "b", "c"}
  Seconds = {0, 3, 9}
  MaxI64 = 7
  HandWritten <- MCHandWritten
  MaxSensors = 2
  MaxCommands = 4
  Kinds = {"schema", "beat", "twice", "large"}
  Invalid = {"twice"}
  Length <- MCLength
  Base = 4
  Text = 3
  MAX_FRAME_SIZE = 11
  MaxFrames = 5
  Admins = {w1, w2}
  Vmid = 100
  Sources = {101}
  Others = {"o1", "o2"}
  Dirs = {1, 2, 3}
  Timeout = 2
SPECIFICATION PartsSpec
INVARIANTS
  TypeOK
  AtMostTwice
  FileIsWhole
  FileIsCurrent
  AgentCanStart
  EditsAreSerial
  Lossless
  RefusedOnlyIfCut
  ArgsAreSound
PROPERTIES
  DropIsJustified
  StatusIsTrue
CHECK_DEADLOCK FALSE
