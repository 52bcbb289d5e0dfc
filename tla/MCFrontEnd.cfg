SPECIFICATION MCSpec
CONSTANTS
  Null = Null
  states <- MCStates
  InputMismatch = InputMismatch
  NoViableAlt = NoViableAlt
  FailedPredicate = FailedPredicate
  Inputs <- MCInputs
  Bodies <- MCBodies
  Remembered <- MCRemembered
  Edited = TRUE
  Files <- MCFiles
  Commands <- MCCommands
  MaxArgs = 4
INVARIANTS
  ErrorFreeIffSentence
  NoTokenLost
  ErrorsReported
  RecoveryIsBounded
  TightestFirst
  NearestElse
  MemoryTransparent
  OnlyProgramsCompile
  OnlyAskedIsWritten
  SilenceMeansWritten
PROPERTIES
  ProcessEnds
