SPECIFICATION Spec
CONSTANTS
  Commands <- MCCommands
  Files <- MCFiles
INVARIANTS TypeOK ArgumentsReadable StringsKept LoadsAsClosedForm ImageReady
PROPERTY Finishes
CHECK_DEADLOCK FALSE
