---------------------------- MODULE MCValidator ----------------------------
(***************************************************************************)
(* The Validator on small programs: two variable names, two types for      *)
(* declarations, and expressions and functions that reach every outcome of *)
(* the checks.                                                             *)
(***************************************************************************)
EXTENDS ValidatorProperties, Expressions

MCCheckExpr(t, e) == LET c == Check(t, e) IN [ok |-> c.ok, type |-> c.type]

Arg(type, name) == [name |-> name, type |-> type]
Node(kind, type, name, args) ==
  [kind |-> kind, ret |-> type, name |-> name, args |-> args]

\* One expression for each answer of the check: an int, a comparison of two
\* variables (Bool if both are declared and coerce), a call, and an
\* expression that is never accepted.
MCExprs ==
  { IntLit, Compare(Var("x"), Var("y")), Call1("f", Var("x")), StringLit }

\* f declared and defined with one argument; a later declaration of another
\* return type, which is let through; a second definition without arguments,
\* which is let through as well; repeated argument names.
MCFunctions ==
  { Node("prototype",  "Int",    "f", << Arg("Int", "x") >>),
    Node("definition", "Int",    "f", << Arg("Int", "x") >>),
    Node("prototype",  "Double", "f", << Arg("Bool", "y") >>),
    Node("definition", "Void",   "g", << >>),
    Node("definition", "Int",    "g", << Arg("Int", "x"), Arg("Int", "x") >>) }
=============================================================================
