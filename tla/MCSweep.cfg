SPECIFICATION FairSpec
CONSTANTS
  Images <- OneInstruction
  Modes <- Listing
  Junk <- MCJunk
INVARIANT RightHandler
PROPERTIES IsLinearSweep
CHECK_DEADLOCK FALSE
