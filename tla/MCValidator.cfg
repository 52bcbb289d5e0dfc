SPECIFICATION Spec
CONSTANTS
  Null = Null
  MaxNesting = 5
  VarNames = {"x", "y"}
  VarTypes = {"Int", "Bool"}
  MaxDepth = 3
  Exprs <- MCExprs
  Functions <- MCFunctions
  CheckExpr <- MCCheckExpr
INVARIANTS
  TypeOK
  ScopesBalanced
  ReturnHasFunction
PROPERTIES
  LexicalScoping
  FirstFunctionStays
  FailureIsFinal
  FailureRejects
