SPECIFICATION MCSpec
CONSTANTS
  Null = Null
  states <- MCStates
  InputMismatch = InputMismatch
  NoViableAlt = NoViableAlt
  FailedPredicate = FailedPredicate
  Inputs <- MCInputs
  Bodies <- CallBodies
  Remembered = {}
  Edited = FALSE
  Files <- MCFiles
  Commands <- MCCommands
  MaxArgs = 2
INVARIANTS
  ArgumentsAreSeparate
