SPECIFICATION Spec
CONSTANTS
  Null = Null
  MaxNesting = 7
  MaxSize = 4
  Table <- MCTable
  Env <- MCEnv
  Variables <- MCVariables
  Callees <- MCCallees
  MaxOperators = 2
INVARIANTS
  BuiltIfMethods
  TreeIsWhole
  CheckSettles
  GeneratedAsChecked
CHECK_DEADLOCK FALSE
