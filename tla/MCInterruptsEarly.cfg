SPECIFICATION Spec
CONSTANTS
  TickRange = 2
  MaxKeys = 1
  scancode_ascii <- Table
  Scancodes <- TypedCodes
  FaultKeys = 0
  Exceptions = {}
PROPERTY
  EveryKeyRead
