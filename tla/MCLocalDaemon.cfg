SPECIFICATION MCSpec
CONSTANTS
  s1 = s1
  Subs = {s1}
  RingCap = 2
  ScrollCap = 2
  Codes = {0}
  NoCode = NoCode
  ReadSize = 2
  MaxBytes = 4
  Ids = {1}
  Kinds = {"docker", "ports", "logs", "pane", "fleet"}
  MaxTasks = 2
  MaxActs = 1
INVARIANTS
  StreamContiguous
  ScrollbackIsTail
  ExitProtocolKept
  SessionInv
  ToldOnce
PROPERTIES
  KeepsPaneLog
  ExitIsForwarded
  SessionEnds
  OutageEnds
CHECK_DEADLOCK FALSE
