---------------------------- MODULE TreeBuilder ----------------------------
(***************************************************************************)
(* src/NewVisitor.cpp: the syntax tree that is built from a parse tree     *)
(* without syntax errors, or the exception that nothing catches.           *)
(*                                                                         *)
(* A visit method returns an antlrcpp::Any.  Its caller takes the value    *)
(* out with as<T>(), which throws bad_cast unless the Any holds exactly a  *)
(* T.  Rules without a method of their own get ANTLR's visitChildren,      *)
(* which visits all children and returns what the last one did; a token    *)
(* returns the null Any.                                                   *)
(***************************************************************************)
EXTENDS Expressions

(* Parse trees: the rule of FleetLang.g4 and, in the order in which they   *)
(* are visited, the parts a method visits; Null for an optional part that  *)
(* is absent.  Names that are only carried along by getText() are left out.*)

Tree(rule, parts) == [rule |-> rule, parts |-> parts]

\* A literal or identifier that becomes `node', if stoi, stof or stod can
\* convert it.
Atom(node, fits) == [rule |-> "atom", parts |-> << >>, node |-> node, fits |-> fits]

PrimType(type) == [rule |-> "primType", parts |-> << >>, node |-> type]

FunctionTree(args, type, stmts) ==
  [rule |-> "function", parts |-> args \o << type >> \o stmts, arity |-> Len(args)]

ExprRules == {"atom", "signedExpression", "funcExpr", "opExpr", "comparisonOp", "booleanOp"}
StmtRules == {"assignStmt", "ifStmt", "whileStmt", "returnStmt", "emptyStmt", "blockStmt",
              "declStmt", "expressionStmt"}

\* No method, and a token as the last child.  The grammar has '(' expr ')'
\* twice; the parser takes the first alternative, parenExpr, and never the
\* one NewVisitor has a method for, parenBool.
NoMethod == {"parenExpr", "refType", "arrayType", "tupleType"}

-----------------------------------------------------------------------------
HasStatements(t) == Len(t.parts) > t.arity + 1

\* Mutant of FunctionAny: visitFunction returns its Function without the cast.
FunctionAnyUncast(t) == IF HasStatements(t) THEN "Function *" ELSE "FunctionDeclaration *"

FunctionAny(t) == "FunctionDeclaration *"

\* The type of what the method of a rule puts into the Any.
AnyOf(t) ==
  CASE t.rule \in ExprRules -> "ExprAST *"
    [] t.rule \in StmtRules -> "StmtAST *"
    [] t.rule = "function"  -> FunctionAny(t)
    [] t.rule = "program"   -> "Program *"
    [] t.rule = "primType"  -> "Type"
    [] t.rule \in NoMethod  -> "null"

\* The T of the as<T>() on the i-th part; "any" where there is none.
Wanted(t, i) ==
  CASE t.rule \in NoMethod \cup {"tupleExpr"} -> "any"
    [] t.rule = "program"   -> "FunctionDeclaration *"
    [] t.rule = "function"  -> IF i <= t.arity + 1 THEN "Type" ELSE "StmtAST *"
    [] t.rule = "declStmt"  -> "Type"
    [] t.rule = "assignStmt" -> IF i = 1 THEN "Type" ELSE "ExprAST *"
    [] t.rule \in {"ifStmt", "whileStmt"} -> IF i = 1 THEN "ExprAST *" ELSE "StmtAST *"
    [] t.rule = "blockStmt" -> "StmtAST *"
    [] OTHER -> "ExprAST *"

-----------------------------------------------------------------------------
(* The nodes.                                                              *)

BuildExpr(t, parts) ==
  CASE t.rule = "atom"             -> t.node
    [] t.rule = "signedExpression" -> Sign(parts[1])
    [] t.rule = "funcExpr"         -> [op |-> "call", callee |-> "f", args |-> parts]
    [] t.rule = "opExpr"           -> Arith(parts[1], parts[2])
    [] t.rule = "comparisonOp"     -> Compare(parts[1], parts[2])
    [] t.rule = "booleanOp"        -> Logical(parts[1], parts[2])

Arms(parts) == << parts[2], parts[3] >>

BuildStmt(t, parts) ==
  CASE t.rule = "assignStmt" -> [stmt |-> "assign", decl |-> parts[1], value |-> parts[2]]
    [] t.rule = "ifStmt"     -> [stmt |-> "if", cond |-> parts[1], arms |-> Arms(parts)]
    [] t.rule = "whileStmt"  -> [stmt |-> "while", cond |-> parts[1], arms |-> << parts[2] >>]
    [] t.rule = "returnStmt" -> [stmt |-> "return", value |-> parts[1]]
    [] t.rule = "emptyStmt"  -> Null
    [] t.rule = "blockStmt"  -> [stmt |-> "block", stmts |-> parts]
    [] t.rule = "declStmt"   -> [stmt |-> "decl", type |-> parts[1]]
    [] t.rule = "expressionStmt" -> [stmt |-> "expr", value |-> parts[1]]

\* Mutant of Statements: the test for nullptr is forgotten.
StatementsKept(parts) == parts

\* A function drops its empty statements; a block keeps them, as nullptr.
Statements(parts) == SelectSeq(parts, LAMBDA s : s # Null)

\* Without statements in the source it is a declaration, braces or not.
BuildFunction(t, parts) ==
  [kind  |-> IF HasStatements(t) THEN "definition" ELSE "prototype",
   args  |-> SubSeq(parts, 1, t.arity),
   ret   |-> parts[t.arity + 1],
   stmts |-> Statements(SubSeq(parts, t.arity + 2, Len(parts)))]

Build(t, parts) ==
  CASE t.rule \in ExprRules -> BuildExpr(t, parts)
    [] t.rule \in StmtRules -> BuildStmt(t, parts)
    [] t.rule = "function"  -> BuildFunction(t, parts)
    [] t.rule = "program"   -> parts
    [] t.rule = "primType"  -> t.node
    [] t.rule \in NoMethod  -> Null

-----------------------------------------------------------------------------
Holds(any, node) == [threw |-> "nothing", any |-> any, node |-> node]
Throws(exception) == [threw |-> exception, any |-> "null", node |-> Null]

\* visit(t): the parts in order up to the first that throws or is not what
\* its as<T>() wants, then the node.
RECURSIVE Visit(_)
Visit(t) ==
  LET visits == [i \in DOMAIN t.parts |->
                   IF t.parts[i] = Null THEN Holds(Wanted(t, i), Null) ELSE Visit(t.parts[i])]
      stops == {i \in DOMAIN visits :
                  \/ visits[i].threw # "nothing"
                  \/ Wanted(t, i) \notin {"any", visits[i].any}}
      first == visits[Min(stops)]
  IN  IF stops # {}
      THEN IF first.threw # "nothing" THEN first ELSE Throws("bad_cast")
      ELSE IF t.rule = "atom" /\ ~t.fits THEN Throws("out_of_range")
      ELSE IF t.rule = "tupleExpr" THEN visits[Len(visits)]
      ELSE Holds(AnyOf(t), Build(t, [i \in DOMAIN visits |-> visits[i].node]))
=============================================================================
