SPECIFICATION Spec
CONSTANTS
  Null = Null
  MaxNesting = 7
  MaxSize = 4
  Table <- MCTable
  Env <- MCEnv
  Variables <- MCVariables
  Callees <- MCCallees
  MaxOperators = 0
INVARIANTS
  ParenthesesAreBuilt
CHECK_DEADLOCK FALSE
