----------------------------- MODULE MCCompiler -----------------------------
(***************************************************************************)
(* Both passes on small programs of two kinds: "all" that the Validator    *)
(* accepts, and those of the "fragment" that CompilerProperties defines.   *)
(***************************************************************************)
EXTENDS CompilerProperties, Expressions

MCCheck(t, e)       == Check(t, e)
MCGenerate(env, e)  == Generate(env, e)
MCNodes(e)          == Nodes(e)
MCSupported(t, e)   == Supported(t, e)
MCMangle(f, v)      == f \o v

Arg(type, name) == [name |-> name, type |-> type]
Node(what, type, name, args) ==
  [kind |-> what, ret |-> type, name |-> name, args |-> args]

\* A sum and a comparison that get a cast when the variable is an int, a bool
\* literal (which generates nullptr) and a call.
MCExprs ==
  { Arith(DoubleLit, Var("y")), Compare(Var("x"), DoubleLit), BoolLit, Call1("f", Var("x")) }

\* A declaration with another return type and another argument name than the
\* definition that follows it, which is let through.
AllFunctions ==
  { Node("prototype",  "Double", "f", << Arg("Int", "y") >>),
    Node("definition", "Int",    "f", << Arg("Int", "x") >>) }

\* A function with an argument, a declaration and its definition.
FragmentFunctions ==
  { Node("prototype",  "Double", "h", << >>),
    Node("definition", "Int",    "f", << Arg("Double", "x") >>),
    Node("definition", "Double", "h", << >>) }

MCFunctions == AllFunctions \cup FragmentFunctions

\* Scopes and environments with some of the names, in which expressions agree.
SomeScopes ==
  {<< [variables |-> v, functions |-> m] >> :
     v \in Maps(VarNames, VarTypes),
     m \in {EmptyMap} \cup {[name \in {f.name} |-> f] : f \in MCFunctions}}

SomeEnvironments(t) ==
  {[named     |-> [n \in D |-> GetFromType(t[1].variables[n])],
    allocas   |-> [n \in DOMAIN t[1].variables \ D |-> GetFromType(t[1].variables[n])],
    functions |-> [name \in DOMAIN t[1].functions |-> LLVMType(t[1].functions[name])]] :
     D \in SUBSET DOMAIN t[1].variables}

\* What the theorems about the two passes take for granted holds here.
ASSUME NamesHypothesis  == NullApart /\ KeysAreNoNames /\ KeysDiffer /\ NoNullHere
ASSUME TypesHypothesis  == TypesKnown
ASSUME TreesHypothesis  == 3 * 1 + 1 <= MaxNesting /\ \A e \in MCExprs : e \in Built(VarNames, {"f"})[1]
ASSUME ValuesHypothesis ==
  \A t \in SomeScopes, e \in MCExprs : \A env \in SomeEnvironments(t) :
    SameMeaning(t, env) /\ ExprAgrees(t, env, e)

\* The bound on a behaviour of each kind: which functions it declares, and
\* variables of one type unless it is a fragment.
Chosen ==
  LET functions == IF kind = "all" THEN AllFunctions ELSE FragmentFunctions
  IN  /\ currentFunction \in functions \cup {Null}
      /\ \A i \in DOMAIN table :
           /\ Range(table[i].functions) \subseteq functions
           /\ kind = "all" => Range(table[i].variables) \subseteq {"Int"}

MCNext == KindNext /\ Chosen'

MCSpec == KindInit /\ [][MCNext]_<< kind, vars >>
=============================================================================
