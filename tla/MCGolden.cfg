SPECIFICATION CallsSpec
CONSTANTS
  Images <- MCImages
  Modes <- MCModes
  Junk <- MCJunk
INVARIANTS FramesIntact WithinMemory OperandsWithin ReferenceOutcome
PROPERTIES ProgramDisciplined ImplementsProcedures Terminates
CHECK_DEADLOCK FALSE
