----------------------------- MODULE MCCodegen -----------------------------
(***************************************************************************)
(* Small programs for code generation, of two kinds.  "names": the names,  *)
(* allocas and declarations of several functions.  "flow": the control     *)
(* flow of one body with up to two statements that branch, one inside the  *)
(* other or one after the other.  Both use the same variables; `kind' says *)
(* which of the two a behaviour is.                                        *)
(***************************************************************************)
EXTENDS CodegenProperties

VARIABLE kind

E(outcome, emits, fits) == [outcome |-> outcome, emits |-> emits, fits |-> fits]

\* A load or a call, a constant, a value of a wrong type, a bool literal
\* (nullptr), an ill-typed sum added to one (nullptr too), and a
\* sign before a bool literal (a null pointer is followed).
Load     == E("value", TRUE, TRUE)
Constant == E("value", FALSE, TRUE)
Misfit   == E("value", TRUE, FALSE)
BoolLit  == E("null", FALSE, FALSE)
Spoilt   == E("null", TRUE, FALSE)
SignBool == E("crash", FALSE, FALSE)

NameExprs == { Load, Misfit, BoolLit, Spoilt, SignBool }
FlowExprs == { Load, Constant, BoolLit }

Node(what, type, name, args) ==
  [kind |-> what, ret |-> type, name |-> name, args |-> args]
Arg(type, name) == [name |-> name, type |-> type]

\* Names: a declaration before its definition, with another argument name,
\* a second definition, and two functions with the same variables.
NameFunctions ==
  { Node("prototype",  "Int",  "f", << Arg("Int", "x") >>),
    Node("definition", "Int",  "f", << Arg("Int", "y") >>),
    Node("definition", "Void", "g", << >>) }

\* Control flow: one body, of an int or of a void function.
FlowFunctions ==
  { Node("definition", "Int", "f", << >>), Node("definition", "Void", "f", << >>) }

\* Writing the function's name before the variable's.
MCMangle(f, v) == f \o v

\* The constants are those of the first kind: MCCodegen.cfg.  Control flow needs
\* no variables: an expression is as straight as they are.
F == INSTANCE CodegenProperties
       WITH VarNames <- {}, VarTypes <- {}, MaxDepth <- 2, MaxBlocks <- 7,
            Exprs <- FlowExprs, Functions <- FlowFunctions

\* Every prefix stays apart with the names of the first kind.
ASSUME NamesAreApart == NamesApart
ASSUME NullIsApart == NullApart

MCInit == kind \in {"names", "flow"} /\ FlowInit

MCNext ==
  /\ UNCHANGED kind
  /\ \/ kind = "names" /\ FlowNext
     \/ kind = "flow"  /\ F!FlowNext

MCSpec == MCInit /\ [][MCNext]_<< kind, flowVars >>
=============================================================================
