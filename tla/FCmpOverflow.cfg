SPECIFICATION Spec
CONSTANTS
  Images <- CmpImages
  Modes <- Interpreted
  Junk <- MCJunk
PROPERTY CmpOverflow
CHECK_DEADLOCK FALSE
