SPECIFICATION ToolsSpec
CONSTANTS
  Paths <- MCPaths
  Words <- MCWords
  Plans <- MCPlans
  Absent = Absent
  Kills = TRUE
  Breaks = TRUE
INVARIANTS
  FilesInv
PROPERTIES
  AloneIsExact
CHECK_DEADLOCK FALSE
