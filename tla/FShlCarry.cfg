SPECIFICATION Spec
CONSTANTS
  Images <- ShiftImages
  Modes <- Interpreted
  Junk <- MCJunk
PROPERTY ShlCarry
CHECK_DEADLOCK FALSE
