SPECIFICATION Spec
CONSTANTS
  TickRange = 2
  MaxKeys = 2
  scancode_ascii <- Table
  Scancodes <- TypedCodes
  FaultKeys = 0
  Exceptions <- AllExceptions
INVARIANTS
  BootNeedsMet
  LandsSomewhereReal
  NothingStaysInService
  FaultReportTrue
  EchoExact
PROPERTIES
  ResumesIntact
  KeysRead
  TimeAdvances
