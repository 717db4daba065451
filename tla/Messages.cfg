SPECIFICATION MCSpec
CONSTANTS
  MaxMessages = 2
  ExportTypes <- MCExportTypes
  FailAt <- MCFailAt
  MaxExported = 3
  MaxWrites = 4
  ToolTypes = {"A", "E", "P"}
  MaxFileMessages = 3
  MaxLimit = 2
  Speed <- MCSpeed
  MaxTimestamp = 2
  MaxReplayed = 3
  MaxNow = 3
INVARIANTS
  LayoutsAgree
  AttributesAreKept
  ExportsAreFaithful
  

PROPERTIES
  PacingIsExact
  ReplayEnds

CHECK_DEADLOCK FALSE
