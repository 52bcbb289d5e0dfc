SPECIFICATION RSpec
CONSTANTS
  Null = Null
  NoToken = NoToken
  NoContext = NoContext
  lexerStates <- MCLexerStates
  CannotConsumeEOF = CannotConsumeEOF
  CannotSeek = CannotSeek
  Texts <- MCTexts
  Machines = {"lexer", "streams", "intervals", "stacks", "tests"}
  MaxPieces = 3
  MaxTokens = 4
  MaxLook = 3
  MaxMarks = 2
  Largest = 5
  ReturnStates = {1, 2}
  MaxDepth = 3
  Precedences = {1, 2, 3}
  Tests = {"t"}
  MaxOperands = 4
INVARIANTS
  LongestFirst
  TextAccountedFor
  HiddenAround
  IntervalsAreSets
  ContextsAreStacks
  CacheTransparent
  PredicatesKeepTruth
PROPERTY
  StreamsAreCursors
CHECK_DEADLOCK FALSE
