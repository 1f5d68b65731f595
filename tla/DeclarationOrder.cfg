CONSTANTS
  EventKinds <- OneKind
  Guards = {g1, g2}
  MaxToken = 3
  MaxDepth = 2
  Callers = {u1, u2}
  Names = {"", "angr"}
  EmptyName = ""
  MaxContext = 3
  MaxNesting = 2
  None = None
  PluginNames <- SomeNames
  Patterns <- SomePatterns
  OtherEntries <- SomeEntries
  MaxInits = 2
  Base = 4
  Printable = {1}
  Mapped = 5
  Contents = {1}
  DataTypes <- SomeTypes
  DataValues <- SomeValues
  MaxNodes = 3
  MaxEdges = 2
  MemberLists <- SomeMemberLists
  Targets <- SomeTargets
  TypeNames = {"A", "B", "C"}
  TypeLibraries <- SomeLibraries
  Roots <- SomeRoots
  Depths = {1, NoLimit}
  UsedOffsets <- SomeOffsets
  NoLimit = NoLimit
  MaxAddress = 4
  LoadedBytes = {0, 1, 2}
  MappedBytes = {0, 1, 2, 3}
  Ranges <- SomeRanges
  SegmentLimit = 3
  SegmentNames = {"s", "t"}
  MaxEdits = 3
  CodeLimit = 3
  CodeBytes = {0, 2}
  CallSites <- SomeCalls
  MaxFunctions = 3
  MaxFunctionEdits = 5
  Texts = {"t", "u"}
  Capacity = 3
  MaxLines = 2
  MaxSteps = 3
SPECIFICATION DatabaseSpec
INVARIANTS HeldTypesFirst
