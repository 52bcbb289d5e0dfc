------------------------ MODULE ExpressionProperties ------------------------
(***************************************************************************)
(* The checks and the generation of expressions, side by side.  The states *)
(* are the expressions of a program, as NewVisitor builds them, in scopes  *)
(* and in an environment that agree; a step puts the expression into a     *)
(* larger one.                                                             *)
(***************************************************************************)
EXTENDS Expressions

CONSTANTS
  Table,         \* the scopes in which the expressions are checked
  Env,           \* what the names mean when they are generated
  Variables,     \* the names that are used as variables
  Callees,       \* and those that are called
  MaxOperators   \* bound: operators in an expression

\* An operator makes an expression one deeper, its casts may do so as well, and
\* a comparison is checked twice.
ASSUME ExpressionBounds ==
  /\ Variables \cup Callees \subseteq STRING
  /\ MaxOperators \in Nat /\ 3 * MaxOperators + 1 <= MaxNesting

\* The names mean the same for both passes.
ASSUME DeclarationsAgree == SameDeclarations(Table, Env, Variables, Callees)

VARIABLES
  expr,   \* an expression of a program
  size    \* how often it has been put into a larger one

Leaves == Literals \cup {Var(name) : name \in Variables}

ExprInit == expr \in Leaves

GrowExpr ==
  /\ size < MaxOperators
  /\ \/ \E l, r \in Leaves \cup {expr} :
          expr \in {l, r} /\ expr' \in {Arith(l, r), Compare(l, r), Logical(l, r)}
     \/ expr' = Sign(expr)
     \/ \E name \in Callees : expr' = Call1(name, expr)

ExprSpec == ExprInit /\ size = 0 /\ [][GrowExpr /\ size' = size + 1]_<< expr, size >>

-----------------------------------------------------------------------------
(* Properties of checked expressions.                                      *)

Checked   == Check(Table, expr)
Generated == Generate(Env, Checked.expr)

\* Checking an expression again changes nothing: it is accepted with the same
\* type and no further cast is put around its operands.  The call
\* `this->check(e)' in check(ComparisonExprAST) returns because of it, and an
\* operand under several comparisons is checked once more for each of them.
RecheckChangesNothing == Checked.ok => Check(Table, Checked.expr) = Checked

\* After an expression has been accepted, the operands of every operator in
\* it have one type: the rewriting reached all the places that needed it.
OperandsAgree ==
  Checked.ok =>
    \A e \in Nodes(Checked.expr) :
      e.op \in {"binary", "comparison", "boolop"} => TypeOf(Table, e.LHS) = TypeOf(Table, e.RHS)

\* An accepted expression generates a valid value of exactly the LLVM type of
\* the type the Validator computed for it, if and only if all its nodes are
\* of the supported kind: there is no other gap between the two passes.
ValueAsChecked ==
  Checked.ok =>
    ((Generated = Value(GetFromType(Checked.type), TRUE))
       <=> (\A e \in Nodes(Checked.expr) : Supported(Table, e)))

\* Checking a checked expression again changes nothing (Validator.cpp:332), and
\* no operator is left with one operand cast and the other not (:258).
CheckSettles == RecheckChangesNothing /\ OperandsAgree

\* An accepted expression generates a value of the type it was checked to
\* have, exactly if all its nodes are of the supported kinds (ExprAST.cpp).
GeneratedAsChecked == ValueAsChecked
=============================================================================
