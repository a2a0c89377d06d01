SPECIFICATION MCSpec
CONSTANTS
  MaxHost = 2
  Lists <- MCLists
  Matching <- MCMatching
  MaxId = 2
  MaxUp = 3
  MaxDown = 2
  RowKeys = {1, 2}
  RowLists <- MCRowLists
  Passing <- MCPassing
  Height = 4
  MaxClicks = 2
  Answered <- MCAnswered
  MaxLines = 3
  Page = 2
  LogHeight = 4
  MaxChunk = 2
  MaxBytes = 5
INVARIANTS
  DockerInv
  LogsAccounted
  
  OpensWhatWasClicked
  ListsInv
  LogsViewKept
PROPERTIES
  RefreshKeepsRow
CHECK_DEADLOCK FALSE
