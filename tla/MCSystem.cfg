SPECIFICATION Spec
CONSTANTS
  Names = {"a", "h"}
  MaxPath = 4
  Hidden = {"h"}
  Trees <- MCTrees
  Targets <- MCTargets
  MaxDisturbed = 1
  Numbers = {0, 3, 4, 5}
  BufferSize = 2
  Lengths = {0, 1, 3}
  Written <- MCWritten
  PipeSize = 2
  MaxSize = 4
  MaxOutput = 3
  MaxCalls = 3
  MaxFailures = 1
  Instances = {"i", "j"}
  Paths = {"p"}
  MaxWatches = 2
  MaxEvents = 2
  Room = 2
  Threads = {"t", "u"}
  Limits = {0, 2}
  Part = 1
  OldLines = {0, 5}
  MaxMessages = 9
  MaxFaults = 1
  Null = Null
  Homes <- MCHomes
  ErrorText = "err"
  Bits <- MCBits
  MaxMatchCount = 4
  TextCalls <- MCTextCalls
  PathCalls <- MCPathCalls
  NumberCalls <- MCNumberCalls
  DateCalls <- MCDateCalls
  DocumentCalls <- MCDocumentCalls
  DataCalls <- MCDataCalls
  UuidBytes <- MCUuidBytes
  UrlParts <- MCUrlParts
  Makers = {"t", "u"}
  PerTick = 2
  MaxAdjustment = 2
  Sequences = 4
  MaxTicks = 3
  MaxMade = 3
  MaxBacks = 2
  Byte = 16
  VersionTop = 16
  VariantTop = 64
INVARIANTS
  TreesAreTrue
  DescriptorsAreOwned
  TransfersAreWhole
  WatchesAgree
  LogKeepsLatest
  CallsAgree
  WrittenIsRead
  UuidsDiffer
PROPERTIES
  ReadsEnd
CHECK_DEADLOCK FALSE
