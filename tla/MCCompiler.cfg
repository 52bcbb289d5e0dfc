SPECIFICATION MCSpec
CONSTANTS
  Null = Null
  MaxNesting = 5
  VarNames = {"x", "y"}
  VarTypes = {"Int", "Double"}
  MaxDepth = 2
  MaxBlocks = 4
  Exprs <- MCExprs
  Functions <- MCFunctions
  CheckNode <- MCCheck
  GenerateNode <- MCGenerate
  NodesIn <- MCNodes
  SupportedNode <- MCSupported
  Mangle <- MCMangle
  Kinds = {"all", "fragment"}
INVARIANTS
  NamesAreGenerated
  AcceptedCompiles
  TypesAgree
