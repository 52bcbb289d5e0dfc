------------------------ MODULE ValidatorProperties ------------------------
(***************************************************************************)
(* What the Validator must do whatever program it is given.                *)
(***************************************************************************)
EXTENDS Validator

FunctionNames == {f.name : f \in Functions}

ScopeType == [variables : Maps(VarNames, VarTypes),
              functions : Maps(FunctionNames, Functions)]

\* The types of the Validator's fields and of its call stack.
TypeOK ==
  /\ table \in Seq(ScopeType) /\ table # << >>
  /\ currentFunction \in Functions \cup {Null}
  /\ frames \in Seq(Frame)
  /\ ret \in {"none", "true", "false"}
  /\ verdict \in {"checking", "accepted", "rejected"}

\* Every scope that is pushed is popped, on the failing paths too: there is
\* the root scope and one for each open construct, and when check(Program)
\* answers, `table' is the root again, which is the object ~Validator deletes.
ScopesBalanced ==
  /\ Len(table) = Len(frames) + 1
  /\ verdict # "checking" => Len(table) = 1

\* check(ReturnStmtAST) dereferences currentFunction without a test: whenever
\* a statement is checked, it is the function whose body is being checked, and
\* that name can already be called (a function may call itself).  There is
\* one such function at a time: its call is the outermost on the stack.
FunctionIsOutermost ==
  \A i \in DOMAIN frames : frames[i].kind = "function" <=> i = Len(frames)

ReturnHasFunction ==
  /\ FunctionIsOutermost
  /\ frames # << >> =>
       /\ currentFunction # Null
       /\ FindFunction(table, currentFunction.name) # Null

\* Scoping: the chain of maps that pushScope, popScope and addVariable keep
\* behaves as lexical scoping.  In particular a declaration inside a block is
\* forgotten after it, an outer declaration that it hid is visible again, and
\* a name never changes its type in the scope that declared it.
Visible(t)   == [n \in VarNames |-> FindVariable(t, n)]
Here(t)      == t[1].variables
Outer(t, i)  == SubSeq(t, i + 1, Len(t))
Enclosing(t) ==
  [i \in 1 .. Len(t) - 1 |-> [env |-> Visible(Outer(t, i)), here |-> Here(Outer(t, i))]]

Scoping ==
  INSTANCE LexicalScope WITH
    Names <- VarNames, Types <- VarTypes, None <- Null,
    env   <- Visible(table), here <- Here(table), saved <- Enclosing(table)

LexicalScoping == Scoping!Spec

\* The declaration calls are checked against is the first one of its name and
\* stays it: map::insert drops the later ones, whatever their signature.
FirstFunctionStays ==
  [][\A name \in FunctionNames :
       FindFunction(table, name) # Null =>
         FindFunction(table', name) = FindFunction(table, name)]_vars

\* A failed check is final: no statement is looked at and no declaration is
\* added any more, the scopes are only popped, until the program is rejected.
FailureIsFinal ==
  [][ret = "false" =>
       /\ ret' = "false"
       /\ \/ table' = Tail(table) /\ verdict' = "checking"
          \/ table' = table /\ verdict' = "rejected"]_vars

\* A failed check of a statement, at any depth, ends in "rejected": none of the
\* open calls swallows it.  (Two answers never get that far: the ones of the
\* declaration in an assignment, Validator.cpp:104, and of the expression of a
\* `return', :165, are dropped in the handler that asked.)
FailureRejects == (ret = "false") ~> (verdict = "rejected")

\* "Overload found" (Validator.cpp:42): a declaration is turned down only
\* because an earlier one of its name has another signature.
SameSignature(f, g) ==
  /\ f.ret = g.ret
  /\ Len(f.args) = Len(g.args)
  /\ \A i \in DOMAIN f.args : f.args[i].type = g.args[i].type

OverloadMeansDifferentSignature ==
  \A f \in Functions :
    IsOverload(f) => ~SameSignature(f, FindFunction(table, f.name))
=============================================================================
