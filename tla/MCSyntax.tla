------------------------------ MODULE MCSyntax ------------------------------
(***************************************************************************)
(* The two parts of the compiler that walk a tree and have no state of     *)
(* their own: NewVisitor on parse trees, and the checks and the generation *)
(* of expressions on syntax trees.  The states are the trees of a bounded  *)
(* size; a step puts the tree into a larger one.  `machine' says which of  *)
(* the two trees grows, the other one stays a leaf.                        *)
(***************************************************************************)
EXTENDS TreeBuilder, ExpressionProperties

CONSTANTS
  MaxSize   \* bound: steps from a leaf to a parse tree

VARIABLES
  machine,
  tree      \* a parse tree

vars == << machine, tree, expr, size >>

-----------------------------------------------------------------------------
(* Parse trees, from the leaves up to programs.                            *)

Leaf(name)  == Atom(Var(name), TRUE)
TooLarge    == Atom(IntLit, FALSE)

IntType == PrimType("Int")
Types == { IntType, Tree("refType", << >>), Tree("arrayType", << IntType >>),
           Tree("tupleType", << IntType, IntType >>) }

Empty == Tree("emptyStmt", << >>)
Call  == Tree("expressionStmt", << Leaf("b") >>)

IsExpr(t) == t.rule \in ExprRules \cup {"parenExpr", "tupleExpr"}
IsStmt(t) == t.rule \in StmtRules

TreeInit ==
  tree \in { Leaf("a"), Atom(IntLit, TRUE), TooLarge, Empty }
          \cup { Tree("declStmt", << t >>) : t \in Types }

\* Larger expressions.
Sides(rule) == { Tree(rule, << tree, Leaf("b") >>), Tree(rule, << Leaf("b"), tree >>) }

Larger ==
  /\ IsExpr(tree)
  /\ tree' \in { Tree("signedExpression", << tree >>), Tree("parenExpr", << tree >>),
                 Tree("funcExpr", << tree >>) }
               \cup UNION { Sides(rule) : rule \in {"opExpr", "comparisonOp", "booleanOp",
                                                    "funcExpr", "tupleExpr"} }

\* Statements with the expression in them.
InStatement ==
  /\ IsExpr(tree)
  /\ tree' \in { Tree("expressionStmt", << tree >>), Tree("returnStmt", << tree >>),
                 Tree("returnStmt", << Null >>), Tree("whileStmt", << tree, Call >>) }
               \cup { Tree("assignStmt", << t, tree >>) : t \in Types \cup {Null} }
               \cup { Tree("ifStmt", << tree, Call, s >>) : s \in {Call, Empty, Null} }

\* Statements with the statement in them.
InStructure ==
  /\ IsStmt(tree)
  /\ tree' \in { Tree("whileStmt", << Leaf("c"), tree >>), Tree("blockStmt", << tree >>),
                 Tree("ifStmt", << Leaf("c"), Call, tree >>),
                 Tree("ifStmt", << Leaf("c"), tree, Null >>),
                 Tree("ifStmt", << Leaf("c"), tree, Call >>) }
               \cup { Tree("blockStmt", << tree, s >>) : s \in {Call, Empty} }

\* Functions with the statement in them, and without any.
InFunction ==
  /\ IsStmt(tree)
  /\ \E type \in { IntType, Tree("arrayType", << IntType >>) },
        args \in { << >>, << IntType >>, << IntType, Tree("refType", << >>) >> },
        stmts \in { << >>, << tree >>, << tree, Call >>, << Empty, tree >> } :
       tree' = FunctionTree(args, type, stmts)

InProgram ==
  /\ tree.rule = "function"
  /\ \E first \in { << >>, << FunctionTree(<< IntType >>, PrimType("Void"), << >>) >> } :
       tree' = Tree("program", first \o << tree >>)

GrowTree ==
  /\ size < MaxSize
  /\ Larger \/ InStatement \/ InStructure \/ InFunction \/ InProgram
  /\ UNCHANGED expr

-----------------------------------------------------------------------------
(* Scopes that declare one variable of each type, named after it, and      *)
(* functions of one parameter.                                             *)

ValueTypes == Type \ {"Void"}

Function(name, type, arg) ==
  [name |-> name, ret |-> type, args |-> << [name |-> "Int", type |-> arg] >>]
DeclaredFunctions ==
  { Function("f", "Int", "Int"), Function("g", "Double", "Double"),
    Function("p", "Void", "Int") }

MCTable ==
  << [variables |-> [t \in ValueTypes |-> t],
      functions |-> [name \in {f.name : f \in DeclaredFunctions} |->
                       CHOOSE f \in DeclaredFunctions : f.name = name]] >>

\* The same declarations as code generation has them.
MCEnv ==
  [named     |-> ("Int" :> "i32"),
   allocas   |-> [t \in ValueTypes |-> GetFromType(t)],
   functions |-> [name \in DOMAIN MCTable[1].functions |->
                    LET f == MCTable[1].functions[name]
                    IN  [ret |-> GetFromType(f.ret), args |-> << GetFromType(f.args[1].type) >>]]]

MCVariables == ValueTypes \cup {"undeclared"}
MCCallees   == {f.name : f \in DeclaredFunctions} \cup {"undeclared"}

-----------------------------------------------------------------------------
Init ==
  /\ machine \in {"trees", "expressions"}
  /\ TreeInit /\ ExprInit /\ size = 0
  /\ machine # "trees"       => tree = Leaf("a")
  /\ machine # "expressions" => expr = Var("Int")

Next ==
  /\ size' = size + 1
  /\ \/ machine = "trees"       /\ GrowTree
     \/ machine = "expressions" /\ GrowExpr /\ UNCHANGED tree
  /\ UNCHANGED machine

Spec == Init /\ [][Next]_vars

-----------------------------------------------------------------------------
(* Properties of the trees that NewVisitor builds.                         *)

RECURSIVE Subtrees(_)
Subtrees(t) ==
  {t} \cup UNION { Subtrees(t.parts[i]) : i \in {j \in DOMAIN t.parts : t.parts[j] # Null} }

Result == Visit(tree)
IsBuilt == Result.threw = "nothing" /\ Result.any # "null"
HasMethods == \A t \in Subtrees(tree) : t.rule \notin NoMethod /\ (t.rule = "atom" => t.fits)

\* Whatever rules are nested in whatever rules, each as<T>() finds the T the
\* method below it has put there: a tree whose literals fit and whose rules
\* have methods is built.  Otherwise nothing is built of it, unless the part
\* that cannot be built is an element of a tuple and dropped.
BuiltIfMethods ==
  /\ HasMethods => IsBuilt
  /\ IsBuilt /\ ~HasMethods => \E t \in Subtrees(tree) : t.rule = "tupleExpr"

\* The parts of a tree from left to right: its identifiers, literals and types,
\* and Null where an optional part is absent or a statement is empty.  Of a
\* tuple only the last element counts, and of a function no empty statement.
RECURSIVE SourceLeaves(_), BuiltLeaves(_)
PartLeaves(parts) == FlattenSeq([i \in DOMAIN parts |-> SourceLeaves(parts[i])])
SourceLeaves(t) ==
  IF t = Null THEN << Null >>
  ELSE CASE t.rule = "atom"      -> << t.node >>
         [] t.rule = "primType"  -> << [type |-> t.node] >>
         [] t.rule = "emptyStmt" -> << Null >>
         [] t.rule = "tupleExpr" -> SourceLeaves(Last(t.parts))
         [] t.rule = "function"  -> PartLeaves(SelectSeq(t.parts, LAMBDA s : s.rule # "emptyStmt"))
         [] OTHER                -> PartLeaves(t.parts)

\* The same of what is built.
TypeLeaf(type) == << IF type = Null THEN Null ELSE [type |-> type] >>
All(nodes) == FlattenSeq([i \in DOMAIN nodes |-> BuiltLeaves(nodes[i])])
BuiltLeaves(n) ==
  IF n = Null THEN << Null >>
  ELSE IF "op" \in DOMAIN n
  THEN CASE n.op \in {"binary", "comparison", "boolop"} -> BuiltLeaves(n.LHS) \o BuiltLeaves(n.RHS)
         [] n.op = "sign" -> BuiltLeaves(n.value)
         [] n.op = "call" -> All(n.args)
         [] OTHER -> << n >>
  ELSE IF "kind" \in DOMAIN n
  THEN FlattenSeq([i \in DOMAIN n.args |-> TypeLeaf(n.args[i])]) \o TypeLeaf(n.ret) \o All(n.stmts)
  ELSE CASE n.stmt = "assign" -> TypeLeaf(n.decl) \o BuiltLeaves(n.value)
         [] n.stmt = "decl"   -> TypeLeaf(n.type)
         [] n.stmt \in {"expr", "return"} -> BuiltLeaves(n.value)
         [] n.stmt \in {"if", "while"} -> BuiltLeaves(n.cond) \o All(n.arms)
         [] n.stmt = "block"  -> All(n.stmts)

\* No part is lost, doubled or swapped, and a pointer is null where the source
\* has nothing to point to, and nowhere else.
NothingLost ==
  IsBuilt => (IF tree.rule = "program" THEN All(Result.node) ELSE BuiltLeaves(Result.node))
             = SourceLeaves(tree)

\* A null pointer is among those that generate() follows without a test:
\* operands, arguments, conditions, arms, loop bodies, the values of
\* assignments and expression statements, the statements of a function.  Those
\* of a return are tested (by both passes), and those of a block never reach
\* generate(), as check(StmtAST *) answers false for nullptr.
RECURSIVE FollowsNull(_)
AnyFollowsNull(nodes) == \E n \in Range(nodes) : FollowsNull(n)
FollowsNull(n) ==
  \/ n = Null
  \/ /\ "op" \in DOMAIN n
     /\ CASE n.op \in {"binary", "comparison", "boolop"} -> FollowsNull(n.LHS) \/ FollowsNull(n.RHS)
          [] n.op = "sign" -> FollowsNull(n.value)
          [] n.op = "call" -> AnyFollowsNull(n.args)
          [] OTHER -> FALSE
  \/ "kind" \in DOMAIN n /\ AnyFollowsNull(n.stmts)
  \/ /\ "stmt" \in DOMAIN n
     /\ CASE n.stmt \in {"assign", "expr"} -> FollowsNull(n.value)
          [] n.stmt = "return" -> n.value # Null /\ FollowsNull(n.value)
          [] n.stmt \in {"if", "while"} -> FollowsNull(n.cond) \/ AnyFollowsNull(n.arms)
          [] n.stmt = "block" -> \E s \in Range(n.stmts) \ {Null} : FollowsNull(s)
          [] n.stmt = "decl" -> FALSE

\* The source has an `if' without else, or an empty statement as an arm or as
\* the body of a loop.
EmptyArm(t) ==
  /\ t.rule \in {"ifStmt", "whileStmt"}
  /\ \E i \in 2 .. Len(t.parts) : t.parts[i] \in {Null, Empty}

\* These arms are the only null pointers that generate() follows untested
\* (StmtAST.cpp:71, 80, 134), and it follows each of them.
OnlyEmptyArmsAreFollowed ==
  Result.any = "FunctionDeclaration *" =>
    (FollowsNull(Result.node) <=> \E t \in Subtrees(tree) : EmptyArm(t))

-----------------------------------------------------------------------------
\* FleetLang.g4:55 has parentheses around any expression: an expression in
\* parentheses is built if the expression inside is.
ParenthesesAreBuilt ==
  tree.rule = "parenExpr" =>
    (Visit(tree.parts[1]).any = "ExprAST *" => IsBuilt)

\* The tree has all the parts of its source in their order, with null pointers
\* exactly where the source has nothing, and the only ones of them that code
\* generation follows without a test are arms and loop bodies the source leaves
\* out or empty (NewVisitor.cpp).
TreeIsWhole == NothingLost /\ OnlyEmptyArmsAreFollowed
=============================================================================
