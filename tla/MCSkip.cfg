SPECIFICATION RSpec
CONSTANTS
  Null = Null
  NoToken = NoToken
  NoContext = NoContext
  lexerStates <- MCLexerStates
  CannotConsumeEOF = CannotConsumeEOF
  CannotSeek = CannotSeek
  Texts <- MCTexts
  Machines = {"lexer"}
  MaxPieces = 2
  MaxTokens = 1
  MaxLook = 1
  MaxMarks = 2
  Largest = 5
  ReturnStates = {1, 2}
  MaxDepth = 3
  Precedences = {1, 2, 3}
  Tests = {"t"}
  MaxOperands = 4
INVARIANTS
  OneCharacterSkipped
CHECK_DEADLOCK FALSE
