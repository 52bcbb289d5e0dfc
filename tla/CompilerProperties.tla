------------------------- MODULE CompilerProperties -------------------------
(***************************************************************************)
(* What code generation may take for granted of an accepted program, and   *)
(* the fragment of the language for which that is enough.                  *)
(***************************************************************************)
EXTENDS Compiler

CONSTANTS
  SupportedNode(_, _),   \* Supported of Expressions
  Kinds                  \* "all" programs the Validator accepts, or the "fragment"

VARIABLE kind        \* which of the two a behaviour is

FunctionNames == {f.name : f \in Functions}

ArgNames(args) == {a.name : a \in Range(args)}

\* An argument of the function that is checked which code generation knows
\* under the name that an earlier declaration gave it.
Renamed(n) == n \in ArgNames(currentFunction.args) \ NamedValues

\* A variable the Validator finds is found by code generation too, in a map
\* the Validator knows nothing of: "Undefined variable" is reached by none but
\* the arguments that an earlier declaration names otherwise.
VisibleIsGenerated ==
  fn # Null /\ status = "running" =>
    \A n \in VarNames :
      FindVariable(table, n) # Null =>
        n \in DOMAIN Now.named \cup DOMAIN Now.allocas \/ Renamed(n)

\* Likewise for functions: one that can be called is in the module.
CallableIsDeclared ==
  status = "running" =>
    \A name \in FunctionNames :
      FindFunction(table, name) # Null =>
        name \in DOMAIN module /\ module[name].args = FindFunction(table, name).args

\* Names mean something in code generation wherever the Validator found that
\* they do, renamed arguments apart (ExprAST.cpp:202, VariableExprAST::generate).
NamesAreGenerated == VisibleIsGenerated /\ CallableIsDeclared

-----------------------------------------------------------------------------
(* What the two passes are told by their parameters.                       *)

\* What CreateAlloca makes; nullptr is none of them.
Allocas   == [fn : FunctionNames, name : VarNames, type : VarTypes]
NullApart == Null \notin Allocas

\* No key of AllocaValues is the name of a variable, which FindAlloca would
\* take for one: no function's name followed by a variable's is a variable's.
KeysAreNoNames == \A g \in FunctionNames, n \in VarNames : Mangle(g, n) \notin VarNames

\* Nor are two keys the same.
KeysDiffer ==
  \A f, g \in FunctionNames, v, w \in VarNames : Mangle(f, v) = Mangle(g, w) => f = g /\ v = w

\* Scopes and an environment in which every name means the same: what is found
\* in the one is found in the other, with its LLVM type.
SameMeaning(t, env) ==
  /\ \A n \in VarNames :
       FindVariable(t, n) # Null =>
         /\ n \in DOMAIN env.named \cup DOMAIN env.allocas
         /\ GetFromType(FindVariable(t, n)) =
              IF n \in DOMAIN env.named THEN env.named[n] ELSE env.allocas[n]
  /\ \A name \in FunctionNames :
       FindFunction(t, name) # Null =>
         /\ name \in DOMAIN env.functions
         /\ env.functions[name] = LLVMType(FindFunction(t, name))

-----------------------------------------------------------------------------
(* The fragment.  Every restriction is one that the Validator does not     *)
(* check.                                                                  *)

\* A name of a function has one signature, and at most one body.
OneSignature(f) ==
  /\ f.name \in DOMAIN module =>
       module[f.name].args = f.args /\ module[f.name].ret = f.ret
  /\ f.kind = "definition" => ~C!HasBody(f.name)

\* A name of a function's variables or arguments has one type in it, in
\* whatever scope it is declared; arguments are not declared again.
OneType(name, type) ==
  LET alloca == C!FindAlloca(AllocaValues, name)
  IN  name \notin NamedValues /\ (alloca # Null => alloca.type = type)

\* An expression that is accepted and that code generation supports.
Fine(t, e) ==
  LET c == CheckNode(t, e) IN c.ok /\ \A x \in NodesIn(c.expr) : SupportedNode(t, x)

\* A value that has its variable's type as it is parsed.
FineValue(decl, lvar, e) ==
  LET t == IF decl = Null THEN table ELSE addVariable(table, lvar, decl)
      c == CheckNode(t, e)
  IN  Fine(t, e) /\ c.expr = e /\ GetFromType(c.type) = GetFromType(FindVariable(t, lvar))

\* Nothing follows a return, and a function that returns a value ends in one.
Alive == fn # Null /\ blocks[insert].body # "closed"

FragmentStatement ==
  /\ Alive
  /\ \/ \E name \in VarNames, type \in VarTypes :
          OneType(name, type) /\ VarDecl(name, type)
     \/ \E lvar \in VarNames, e \in Exprs :
          FindVariable(table, lvar) # Null /\ FineValue(Null, lvar, e) /\ Assign(Null, lvar, e)
     \/ \E decl \in VarTypes, lvar \in VarNames, e \in Exprs :
          OneType(lvar, decl) /\ FineValue(decl, lvar, e) /\ Assign(decl, lvar, e)
     \/ \E e \in Exprs : Fine(table, e) /\ CheckNode(table, e).type # "Void" /\ ReturnValue(e)
     \/ \E e \in Exprs : Fine(table, e) /\ ExprStmt(e)
     \/ ReturnVoid
     \/ \E cond \in Exprs : Fine(table, cond) /\ If(cond, TRUE, TRUE)
     \/ \E cond \in Exprs : Fine(table, cond) /\ While(cond, TRUE)
     \/ Block

FragmentNext ==
  \/ /\ \/ \E f \in Functions : OneSignature(f) /\ (Declaration(f) \/ Definition(f))
        \/ FragmentStatement
        \/ EndOfBlock \/ EndOfLoop \/ EndOfThen \/ EndOfElse
        \/ EndOfFunction /\ (module[fn].ret = "Void" \/ ~Alive)
        \/ EndOfProgram
     /\ ret' # "false"
  \/ Done

KindInit == kind \in Kinds /\ Init

KindNext ==
  /\ UNCHANGED kind
  /\ \/ kind = "all" /\ Next
     \/ kind = "fragment" /\ FragmentNext

KindSpec == KindInit /\ [][KindNext]_<< kind, vars >>

\* In the fragment acceptance is all that code generation needs: it does not
\* crash, and LLVM's verifier accepts every function.
AcceptedCompiles ==
  kind = "fragment" =>
    /\ status # "crashed"
    /\ \A name \in DOMAIN module : module[name].state # "broken"

\* In the fragment the types the Validator computes with are those of the
\* generated code, for every variable and every function.
TypesAgree ==
  kind = "fragment" /\ fn # Null /\ status = "running" => SameMeaning(table, Now)

\* What AcceptedCompiles rests on beside the statements: an expression of the
\* fragment, in scopes and an environment that agree, generates a valid value
\* of the type that the check answered.
ExprAgrees(t, env, e) ==
  SameMeaning(t, env) /\ Fine(t, e) =>
    LET c == CheckNode(t, e)
        v == GenerateNode(env, c.expr)
    IN  v.outcome = "value" /\ v.valid /\ v.ir = GetFromType(c.type)

ScopeTypes == [variables : Maps(VarNames, VarTypes), functions : Maps(FunctionNames, Functions)]

ExprsAgree == \A t \in Seq(ScopeTypes), e \in Exprs : \A env : ExprAgrees(t, env, e)

\* The types a program can write; no variable is void (FleetLang.g4:11, :29).
TypesKnown ==
  /\ VarTypes \subseteq Type \ {"Void"}
  /\ \A f \in Functions : f.ret \in Type

\* What an expression of the fragment comes to in a statement; nullptr is no
\* expression and no value.
Values == [outcome : {"value"}, emits : BOOLEAN, fits : BOOLEAN]
NoNullHere == Null \notin Exprs \cup Values

-----------------------------------------------------------------------------
\* FleetLang.g4:34 makes the else of an if optional: an accepted program with
\* an if that has none is generated like any other.
IfWithoutElseCompiles ==
  kind = "all" /\ verdict = "accepted" /\ status = "crashed" =>
    ~(calls # << >> /\ Head(calls).kind = "then" /\ returned)
=============================================================================
