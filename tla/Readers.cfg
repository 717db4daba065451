SPECIFICATION MCSpec
CONSTANTS
  Session = {"s1", "s2", "none"}
  NoSession = "none"
  Streams <- MCStreams
  MaxThrows = 1
  WireSize <- MCWireSize
  Filters <- MCFilters
  MaxLength = 2
  MaxFrames = 2
  MaxCalls = 2
  Captures <- MCCaptures
  Ports <- MCPorts
  MaxReads = 1
  Frames <- MCPyFrames
  MaxInput = 3
  TypeSets <- MCTypeSets
  CacheSizes <- MCCacheSizes
  ALL_MESSAGES <- MCAllMessages
  MaxFailures = 1
  MaxResumes = 1
INVARIANTS
  CapturesAreReadExactly
  
  
  ChunkingIsInvisible
  EscapesOnlyRepeat
  NoSilentJump
  IterationIsExact

PROPERTIES
  CallsReturn

CHECK_DEADLOCK FALSE
