SPECIFICATION MCSpec
CONSTANTS
  Null = Null
  Functions <- NameFunctions
  VarNames = {"x", "y"}
  VarTypes = {"Int"}
  Exprs <- NameExprs
  Mangle <- MCMangle
  MaxDepth = 1
  MaxBlocks = 4
INVARIANTS
  AllocaIsOwn
  InsertIsBack
  GraphIsClosed
  FlowAgrees
PROPERTIES
  BodyGeneratedOnce
  VerdictFollowsSource
