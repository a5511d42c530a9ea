SPECIFICATION Spec
CONSTANTS
  Images <- DivImages
  Modes <- Interpreted
  Junk <- MCJunk
PROPERTY RemainderInAh
CHECK_DEADLOCK FALSE
