SPECIFICATION TtySpec
CONSTANTS
  SIZE = 4
  ROOM = 2
  STARTUP = 1
  SLACK = 1
  OFlags = {"ONLCR", "OCRNL"}
  Typed = {"x", "cr", "eof", "erase", "intr"}
  MAX_IN = 2
  ReadCounts = {2}
  WriteCounts = {2}
  Written = {"x", "nl", "ret"}
  MAX_IOCTL = 1
  Modes <- MCModes
INVARIANTS LinesCounted SentInOrder SleepersWoken
CHECK_DEADLOCK FALSE
