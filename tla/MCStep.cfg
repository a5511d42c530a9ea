SPECIFICATION Spec
CONSTANTS
  Images <- OneInstruction
  Modes <- Executing
  Junk <- MCJunk
INVARIANT TypeOK
PROPERTIES SameBoundaries ChangesOnlyTargets
CONSTRAINT Once
CHECK_DEADLOCK FALSE
